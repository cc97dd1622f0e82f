----------------------------- MODULE Background -----------------------------
(***************************************************************************)
(* The parts of the daemon that work beside the AT engine and keep state   *)
(* of their own: the SMS forwarder, the bandwidth collector, the manager   *)
(* of the SSH server and the SIM profiles.  They share nothing but the     *)
(* process, so that a behaviour follows one of them.                       *)
(***************************************************************************)
EXTENDS SmsForwarder, Bandwidth, SshManager, SimProfiles

VARIABLE part   (* the part that is followed                               *)

partVars == <<part, smsVars, bandVars, sshVars, profileVars>>

-----------------------------------------------------------------------------
(* The other parts stay in one of their initial states.                    *)
NoSsh == SshInit /\ ssh = CHOOSE s \in SshSettings : TRUE

BackgroundInit ==
  /\ SmsInit /\ BandInit /\ ProfileInit
  /\ \/ part \in {"sms", "bandwidth", "profiles"} /\ NoSsh
     \/ part = "ssh" /\ SshInit

Sms(A)        == part = "sms" /\ A /\ UNCHANGED <<part, bandVars, sshVars, profileVars>>
InSms         == Sms(SmsNext)
InBandwidth   == part = "bandwidth" /\ BandNext /\ UNCHANGED <<part, smsVars, sshVars, profileVars>>
InSsh         == part = "ssh" /\ SshNext /\ UNCHANGED <<part, smsVars, bandVars, profileVars>>
InProfiles    == part = "profiles" /\ ProfileNext /\ UNCHANGED <<part, smsVars, bandVars, sshVars>>

BackgroundNext == InSms \/ InBandwidth \/ InSsh \/ InProfiles

(* Only the forwarder has something that must happen.                      *)
BackgroundFairness ==
  WF_partVars(Sms(Works)) /\ WF_partVars(Sms(Recover))

BackgroundSpec == BackgroundInit /\ [][BackgroundNext]_partVars /\ BackgroundFairness
=============================================================================
