------------------------------ MODULE Watchdog ------------------------------
(***************************************************************************)
(* The connection watchdog: src/backend/internal/telemetry/watchdog.go,    *)
(* with the part of the modem it acts on and the restarts of the process.  *)
(*                                                                         *)
(* A loop calls CheckOnce, which probes the link and after Threshold       *)
(* failures applies the next enabled tier: data re-attach, radio restart,  *)
(* SIM failover, device reboot.  CheckOnce holds the mutex throughout, but *)
(* the configuration has a lock of its own and changes under it, the modem *)
(* sees the AT commands one by one, every one of them may be lost, and the *)
(* process may be restarted between any two of them.                       *)
(*                                                                         *)
(* Time is counted in ticks: what is left of the cooldown and of the hour  *)
(* in which a reboot counts.  tried, eligible, uptime, drifted and reboots *)
(* are history variables: no guard reads them.                             *)
(***************************************************************************)
EXTENDS Naturals, Sequences, FiniteSets

CONSTANTS
  Configs,     (* the sets of enabled tiers the user chooses among         *)
  Threshold,   (* FailThreshold                                            *)
  Cooldown,    (* the cooldown, in ticks                                   *)
  Window,      (* the hour of the reboot limit, in ticks                   *)
  MaxReboots,  (* MaxRebootsPerHour                                        *)
  Backup       (* BackupSimSlot                                            *)

Tiers == 1..4

ASSUME ConfigsAssumption == Configs # {} /\ Configs \subseteq SUBSET Tiers
ASSUME NumbersAssumption ==
  /\ Threshold \in Nat \ {0} /\ Cooldown \in Nat \ {0}
  /\ Window \in Nat \ {0} /\ MaxReboots \in Nat \ {0}
ASSUME BackupAssumption == Backup \in Nat \ {0, 1}

VARIABLES
  enabled,        (* Watchcat.Enabled                                      *)
  tiers,          (* Tier1Enabled to Tier4Enabled                          *)
  clockSane,      (* the wall clock is past 2023                           *)
  pc,             (* where CheckOnce is; it holds the mutex unless idle    *)
  snap,           (* the enabled tiers CheckOnce read at its start         *)
  failures, currentTier, activeSimSlot, failoverActive,
  cooldown,       (* ticks until cooldownUntil                             *)
  rebootTimes,    (* for each reboot, ticks until it leaves the window     *)
  todo,           (* AT commands of the running tier still to be sent      *)
  radio,          (* the modem: "up", "detached" (CGATT=0), "off" (CFUN=0) *)
  slot,           (* the modem: the SIM slot in use                        *)
  tried,          (* tiers applied since the link was last seen up         *)
  eligible,       (* tiers enabled in every check since then               *)
  uptime,         (* ticks since the process started, up to UptimeBound    *)
  drifted,        (* a slot command was lost, or a failover forgotten      *)
  reboots         (* like rebootTimes, of the reboots that took place, but *)
                  (* kept across restarts; it counts up to MaxReboots + 1  *)

config  == <<enabled, tiers>>
memory  == <<failures, currentTier, activeSimSlot, failoverActive, cooldown, rebootTimes>>
modem   == <<radio, slot>>
history == <<tried, eligible, uptime, drifted, reboots>>
vars == <<config, clockSane, pc, snap, memory, todo, modem, history>>

UptimeBound == 3 * Cooldown

(* The AT commands of the tiers that have some. *)
Script == <<
  <<"CGATT=0", "CGATT=1">>,
  <<"CFUN=0", "CFUN=1">>,
  <<"CFUN=0", "QUIMSLOT", "CFUN=1">> >>

-----------------------------------------------------------------------------
(* getNextTierLocked: the lowest enabled tier above the current one, else  *)
(* the lowest enabled tier, else none.                                     *)

Lowest(S) == CHOOSE t \in S : \A u \in S : t <= u

(* Faults: a tier is passed over; the ladder does not start again. *)
NextTierSkipping(enabledTiers, current) ==
  LET above == {t \in enabledTiers : t > current + 1}
  IN  IF above # {} THEN Lowest(above)
      ELSE IF enabledTiers # {} THEN Lowest(enabledTiers) ELSE 0

NextTierOnce(enabledTiers, current) ==
  LET above == {t \in enabledTiers : t > current}
  IN  IF above # {} THEN Lowest(above) ELSE 0

NextTier(enabledTiers, current) ==
  LET above == {t \in enabledTiers : t > current}
  IN  CASE above # {}                        -> Lowest(above)
        [] above = {} /\ enabledTiers # {}   -> Lowest(enabledTiers)
        [] above = {} /\ enabledTiers = {}   -> 0

(* The outage, if there was one, is over. *)
OutageOver == tried' = {} /\ eligible' = Tiers

-----------------------------------------------------------------------------
(* CheckOnce.                                                              *)

CheckDisabled ==
  /\ pc = "idle"
  /\ ~enabled
  /\ failures' = 0
  /\ currentTier' = 0
  /\ OutageOver
  /\ UNCHANGED <<config, clockSane, pc, snap, activeSimSlot, failoverActive, cooldown,
                 rebootTimes, todo, modem, uptime, drifted, reboots>>

(* Fault: the cooldown is not looked at. *)
BeginCheckHot ==
  /\ pc = "idle"
  /\ enabled
  /\ clockSane
  /\ snap' = tiers
  /\ pc' = "probing"
  /\ eligible' = eligible \cap tiers
  /\ UNCHANGED <<config, clockSane, memory, todo, modem, tried, uptime, drifted, reboots>>

(* The clock is sane, or the check would end here: probe. *)
BeginCheck ==
  /\ pc = "idle"
  /\ enabled
  /\ clockSane
  /\ snap' = tiers
  /\ pc' = IF cooldown > 0 THEN "cooling" ELSE "probing"
  /\ eligible' = eligible \cap tiers
  /\ UNCHANGED <<config, clockSane, memory, todo, modem, tried, uptime, drifted, reboots>>

(* The probe can only succeed with the radio up. *)
ProbeSucceeds ==
  /\ pc \in {"cooling", "probing"}
  /\ radio = "up"
  /\ failures' = 0
  /\ currentTier' = 0
  /\ cooldown' = IF pc = "cooling" THEN 0 ELSE cooldown
  /\ pc' = "idle"
  /\ OutageOver
  /\ UNCHANGED <<config, clockSane, snap, activeSimSlot, failoverActive, rebootTimes, todo,
                 modem, uptime, drifted, reboots>>

ProbeFails ==
  /\ \/ pc = "cooling" /\ UNCHANGED failures
     \/ pc = "probing" /\ failures + 1 < Threshold /\ failures' = failures + 1
     \/ pc = "probing" /\ failures + 1 >= Threshold /\ NextTier(snap, currentTier) = 0
          /\ failures' = 0
  /\ pc' = "idle"
  /\ UNCHANGED <<config, clockSane, snap, currentTier, activeSimSlot, failoverActive, cooldown,
                 rebootTimes, todo, modem, history>>

(* The reboot limit, over the reboots this process remembers. *)
LimitReached == Len(rebootTimes) >= MaxReboots

(* escalateAndRecoverLocked, up to the action itself. *)
Escalate(tier) ==
  /\ pc = "probing"
  /\ failures + 1 >= Threshold
  /\ tier = NextTier(snap, currentTier)
  /\ failures' = 0
  /\ currentTier' = tier
  /\ cooldown' = Cooldown
  /\ tried' = tried \cup {tier}
  /\ \/ /\ tier \in 1..3
        /\ pc' = "acting"
        /\ todo' = Script[tier]
        /\ UNCHANGED rebootTimes
     \/ /\ tier = 4
        /\ LimitReached
        /\ pc' = "idle"
        /\ UNCHANGED <<todo, rebootTimes>>
     \/ /\ tier = 4
        /\ ~LimitReached
        /\ pc' = "rebooting"
        /\ rebootTimes' = Append(rebootTimes, Window)
        /\ UNCHANGED todo
  /\ UNCHANGED <<config, clockSane, snap, activeSimSlot, failoverActive, modem, eligible,
                 uptime, drifted, reboots>>

(* What a command does to the modem. *)
Effect(cmd) ==
  CASE cmd = "CGATT=0"  -> radio' = (IF radio = "off" THEN "off" ELSE "detached") /\ slot' = slot
    [] cmd = "CGATT=1"  -> radio' = (IF radio = "off" THEN "off" ELSE "up") /\ slot' = slot
    [] cmd = "CFUN=0"   -> radio' = "off" /\ slot' = slot
    [] cmd = "CFUN=1"   -> radio' = (IF radio = "off" THEN "up" ELSE radio) /\ slot' = slot
    [] cmd = "QUIMSLOT" -> radio' = radio /\ slot' = Backup

Executed(cmd) ==
  /\ pc = "acting"
  /\ todo # <<>>
  /\ cmd = Head(todo)
  /\ Effect(cmd)
  /\ todo' = Tail(todo)
  /\ UNCHANGED <<config, clockSane, pc, snap, memory, history>>

(* The engine's error is ignored.  One deadline covers the whole script.   *)
Lost(cmd) ==
  /\ pc = "acting"
  /\ todo # <<>>
  /\ cmd = Head(todo)
  /\ todo' = Tail(todo)
  /\ drifted' = (drifted \/ cmd = "QUIMSLOT")
  /\ UNCHANGED <<config, clockSane, pc, snap, memory, modem, tried, eligible, uptime, reboots>>

(* Fault: the slot failed over to is not noted. *)
FinishActionForgetful ==
  /\ pc = "acting"
  /\ todo = <<>>
  /\ pc' = "idle"
  /\ failoverActive' = (failoverActive \/ currentTier = 3)
  /\ UNCHANGED <<config, clockSane, snap, failures, currentTier, activeSimSlot, cooldown,
                 rebootTimes, todo, modem, history>>

FinishAction ==
  /\ pc = "acting"
  /\ todo = <<>>
  /\ pc' = "idle"
  /\ IF currentTier = 3
       THEN failoverActive' = TRUE /\ activeSimSlot' = Backup
       ELSE UNCHANGED <<failoverActive, activeSimSlot>>
  /\ UNCHANGED <<config, clockSane, snap, failures, currentTier, cooldown, rebootTimes, todo,
                 modem, history>>

RebootFails ==
  /\ pc = "rebooting"
  /\ pc' = "idle"
  /\ UNCHANGED <<config, clockSane, snap, memory, todo, modem, history>>

-----------------------------------------------------------------------------
(* A new process: NewWatchdog keeps nothing of the old one.                *)

NewWatchdog ==
  /\ pc' = "idle"
  /\ failures' = 0
  /\ currentTier' = 0
  /\ activeSimSlot' = 1
  /\ failoverActive' = FALSE
  /\ cooldown' = 0
  /\ rebootTimes' = <<>>
  /\ todo' = <<>>
  /\ uptime' = 0
  /\ drifted' = (drifted \/ slot # 1)
  /\ OutageOver
  /\ UNCHANGED <<config, snap, slot>>

(* The reboot of tier 4.  The modem starts with its radio up and in the    *)
(* slot it had; the clock starts in 1970.                                  *)
Reboot ==
  /\ pc = "rebooting"
  /\ NewWatchdog
  /\ radio' = "up"
  /\ clockSane' = FALSE
  /\ reboots' = IF Len(reboots) <= MaxReboots THEN Append(reboots, Window) ELSE reboots

(* systemd restarts the daemon (crash, update); the modem runs on. *)
RestartProcess ==
  /\ NewWatchdog
  /\ UNCHANGED <<clockSane, radio, reboots>>

(* A scheduled reboot, or a power cut. *)
RestartDevice ==
  /\ NewWatchdog
  /\ radio' = "up"
  /\ clockSane' = FALSE
  /\ UNCHANGED reboots

ClockSync ==
  /\ ~clockSane
  /\ clockSane' = TRUE
  /\ UNCHANGED <<config, pc, snap, memory, todo, modem, history>>

(* A tick passes.  The oldest reboots are in front: those with one tick    *)
(* left are the first ones.                                                *)
Expired(left) == Cardinality({i \in 1..Len(left) : left[i] = 1})

Elapse(left) == [i \in 1..(Len(left) - Expired(left)) |-> left[i + Expired(left)] - 1]

(* A probe takes far less than a tick. *)
Tick ==
  /\ pc \notin {"cooling", "probing"}
  /\ cooldown' = IF cooldown > 0 THEN cooldown - 1 ELSE 0
  /\ rebootTimes' = Elapse(rebootTimes)
  /\ reboots' = Elapse(reboots)
  /\ uptime' = IF uptime < UptimeBound THEN uptime + 1 ELSE uptime
  /\ UNCHANGED <<config, clockSane, pc, snap, failures, currentTier, activeSimSlot,
                 failoverActive, todo, modem, tried, eligible, drifted>>

-----------------------------------------------------------------------------
(* The web handlers.                                                       *)

Configure(on, set) ==
  /\ enabled' = on
  /\ tiers' = set
  /\ UNCHANGED <<clockSane, pc, snap, memory, todo, modem, history>>

(* revert_sim waits for the mutex; its command may be lost too. *)
RevertSim ==
  /\ pc = "idle"
  /\ activeSimSlot # 1
  /\ activeSimSlot' = 1
  /\ failoverActive' = FALSE
  /\ \/ slot' = 1 /\ UNCHANGED drifted
     \/ UNCHANGED slot /\ drifted' = TRUE
  /\ UNCHANGED <<config, clockSane, pc, snap, failures, currentTier, cooldown, rebootTimes,
                 todo, radio, tried, eligible, uptime, reboots>>

-----------------------------------------------------------------------------

Init ==
  /\ enabled \in BOOLEAN
  /\ tiers \in Configs
  /\ clockSane = FALSE
  /\ pc = "idle"
  /\ snap = {}
  /\ failures = 0
  /\ currentTier = 0
  /\ activeSimSlot = 1
  /\ failoverActive = FALSE
  /\ cooldown = 0
  /\ rebootTimes = <<>>
  /\ todo = <<>>
  /\ radio = "up"
  /\ slot = 1
  /\ tried = {}
  /\ eligible = Tiers
  /\ uptime = 0
  /\ drifted = FALSE
  /\ reboots = <<>>

Commands == {"CGATT=0", "CGATT=1", "CFUN=0", "CFUN=1", "QUIMSLOT"}

Check == \/ CheckDisabled \/ BeginCheck \/ ProbeSucceeds \/ ProbeFails
         \/ (\E tier \in Tiers : Escalate(tier)) \/ FinishAction \/ RebootFails \/ Reboot
         \/ \E cmd \in Commands : Executed(cmd) \/ Lost(cmd)

Next ==
  \/ Check
  \/ RestartProcess \/ RestartDevice \/ ClockSync \/ Tick
  \/ (\E on \in BOOLEAN, set \in Configs : Configure(on, set)) \/ RevertSim

(* The ticker calls CheckOnce again and again and CheckOnce ends, time     *)
(* passes, the clock is set, and neither a CFUN=1 nor a reboot fails for   *)
(* ever.  No user has to do anything and no process has to crash.          *)
Fairness ==
  /\ WF_vars(BeginCheck) /\ WF_vars(ProbeFails \/ \E tier \in Tiers : Escalate(tier))
  /\ WF_vars(FinishAction) /\ WF_vars(\E cmd \in Commands : Executed(cmd) \/ Lost(cmd))
  /\ WF_vars(Reboot \/ RebootFails)
  /\ SF_vars(Executed("CFUN=1")) /\ SF_vars(Reboot)
  /\ SF_vars(Tick) /\ WF_vars(ClockSync)

Spec == Init /\ [][Next]_vars
FairSpec == Spec /\ Fairness

-----------------------------------------------------------------------------
(* Properties.                                                             *)

TypeOK ==
  /\ enabled \in BOOLEAN /\ clockSane \in BOOLEAN
  /\ tiers \in Configs
  /\ pc \in {"idle", "cooling", "probing", "acting", "rebooting"}
  /\ snap \subseteq Tiers
  /\ failures \in 0..(Threshold - 1)
  /\ currentTier \in 0..4
  /\ activeSimSlot \in {1, Backup} /\ slot \in {1, Backup}
  /\ failoverActive \in BOOLEAN
  /\ cooldown \in 0..Cooldown
  /\ rebootTimes \in Seq(1..Window) /\ reboots \in Seq(1..Window)
  /\ todo \in Seq(Commands)
  /\ radio \in {"up", "detached", "off"}
  /\ tried \subseteq Tiers /\ eligible \subseteq Tiers
  /\ uptime \in 0..UptimeBound
  /\ drifted \in BOOLEAN

(* One process attempts at most MaxReboots reboots in any hour, whatever   *)
(* becomes of them.                                                        *)
RebootLimitOfProcess == Len(rebootTimes) <= MaxReboots

(* A reboot comes last: every other tier that was enabled throughout the   *)
(* outage has been applied in it, wherever the escalation began and        *)
(* however the user changed the other tiers meanwhile.                     *)
RebootIsLastResort == pc = "rebooting" => eligible \ {4} \subseteq tried

(* What spaces the reboots of an outage across restarts, since the limit   *)
(* does not: a process that reboots has been up for one cooldown for each  *)
(* other tier enabled throughout.                                          *)
RebootSpacing ==
  pc = "rebooting" => uptime >= Cooldown * Cardinality(eligible \ {4})

(* The slot the status page shows is the slot in use, unless a slot        *)
(* command was lost or a process was restarted during a failover.          *)
SlotKnown == pc = "idle" /\ ~drifted => activeSimSlot = slot

(* A radio that a lost command left off or detached comes back, as long as *)
(* the watchdog stays enabled with a tier that restarts the radio and the  *)
(* restarts end.                                                           *)
Guarded == enabled /\ tiers \cap {2, 3, 4} # {}
RadioRecovers ==
  <>[]Guarded /\ <>[][~RestartProcess /\ ~RestartDevice]_vars
    => [](radio # "up" => <>(radio = "up"))

(* What the configuration says and the code does not do: at most           *)
(* MaxRebootsPerHour reboots in an hour.  Each one ends the process whose  *)
(* memory holds their times.                                               *)
RebootLimit == Len(reboots) <= MaxReboots
=============================================================================
