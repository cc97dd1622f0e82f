----------------------------- MODULE MCWatchdog -----------------------------
EXTENDS Watchdog

(* The full ladder, and the reboot alone: a change between them leaves a   *)
(* gap of up to three tiers in the ladder, or none.                        *)
MCConfigs == {{1, 2, 3, 4}, {4}}
=============================================================================
