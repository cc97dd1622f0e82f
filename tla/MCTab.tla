------------------------------- MODULE MCTab -------------------------------
(* The settings pages, each with its hook and its form (those that have    *)
(* equal records are one for TLC), and one hook for each kind of view and  *)
(* of job.                                                                 *)
EXTENDS Tab

Page(h, f) == [hook |-> h, form |-> f]

MCPages ==
  {Page(UseMtuSettings, MtuSettingsCard), Page(UseTtlSettings, TtlSettingsCard),
   Page(UseImeiSettings, ImeiSettingsCard), Page(UseImeiSettings, BackupImeiCard),
   Page(UseMbnSettings, MbnCard), Page(UseBandLocking, BandGridCard),
   Page(UseAlerts, AlertsForm), Page(UseWatchdogSettings, WatchdogForm),
   Page(UseFullBypass, ModeCard), Page(UseVideoOptimizer, ModeCard),
   Page(UseCdnHostlist, TargetsCard), Page(UseForceTcp, ForceTcpCard),
   Page(UseCellularSettings, CellularSettingsForm), Page(UseSmsForwarding, SmsForwardingCard),
   Page(UseTowerLocking, NrSaTowerCard), Page(UseTowerLocking, LteTowerCard),
   Page(UseFrequencyLocking, FrequencyLocking), Page(UseCustomDns, CustomDnsCard),
   Page(UseIpPassthrough, IpPassthroughCard), Page(UseQualityThresholds, QualityThresholdsCard),
   Page(UsePingProfile, ProbeTargetsCard), Page(UseApnSettings, ApnSettingsCard),
   Page(UseWanProfiles, ModeCard), Page(NetworkPriority, NetworkPriorityCard),
   Page(UseSshSettings, SshPasswordCard), Page(UseSystemSettings, SystemSettingsCard),
   Page(SaveScheduledReboot, ScheduledRebootCard)}

MCViews ==
  {UseSignalHistory, UseRecentActivities, UseModemSubsys, UseBandwidth, UseSystemLogs,
   UseLatencyHistory, UsePublicOverview, UseModemStatus}

MCJobHooks ==
  {UseCellScanner, UseSpeedtest, UseSystemHealthCheck, UseProfileApply, UseLanguagePacks,
   RunInstall, DownloadUpdate}

(* Values are not told apart: one of them is the first.                    *)
MCTabInit == TabInit /\ stored = CHOOSE v \in Values : TRUE
MCTabSpec == MCTabInit /\ [][TabNext]_tabVars /\ JobFairness
=============================================================================
