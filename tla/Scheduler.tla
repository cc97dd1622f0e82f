----------------------------- MODULE Scheduler -----------------------------
(***************************************************************************)
(* The scheduler: src/backend/internal/telemetry/scheduler.go, with the    *)
(* restarts of its process and the user who changes the schedules.         *)
(*                                                                         *)
(* A loop calls Evaluate, which reads the clock once and then looks at     *)
(* three jobs in turn: the reboot, the tower lock (apply at one time of    *)
(* day, clear at another) and the update check.  A job is due within       *)
(* Tolerance of its time of day, on either side and across midnight.  What *)
(* keeps it from running again in the same window is the key, date and     *)
(* time of day, of its last run, which lives in memory.                    *)
(*                                                                         *)
(* The day is divided into slots, long enough for an Evaluate to begin in  *)
(* each.  steady, fired, lost and rebooted are history variables: no guard *)
(* reads them.                                                             *)
(***************************************************************************)
EXTENDS Naturals, FiniteSets

CONSTANTS
  Slots,        (* slots in a day                                          *)
  Week,         (* days after which the days of the week repeat            *)
  Tolerance,    (* how far from its time of day a job is due, in slots     *)
  Schedules,    (* the settings the user chooses among                     *)
  LastTime,     (* bound: the slot in which the clock stops                *)
  MaxChanges    (* bound: how often the user changes the schedule          *)

(* A time of day that no slot has: not configured. *)
Off == Slots

ScheduleRecords ==
  [reboot : 0..Slots, rebootDays : SUBSET (0..(Week - 1)),
   start : 0..Slots, end : 0..Slots, towerDays : SUBSET (0..(Week - 1)),
   update : 0..Slots]

ASSUME SizesAssumption ==
  Slots \in Nat \ {0} /\ Week \in Nat \ {0} /\ Tolerance \in Nat
  /\ LastTime \in Nat /\ MaxChanges \in Nat
ASSUME SchedulesAssumption == Schedules # {} /\ Schedules \subseteq ScheduleRecords

VARIABLES
  time,         (* the slot it really is, counted from the first day       *)
  sane,         (* the device's clock shows it: it is past 1970            *)
  looked,       (* an Evaluate has begun in this slot                      *)
  schedule,     (* the settings and tower_lock.json                        *)
  changes,      (* how often the user changed them                         *)
  pc,           (* where Evaluate is                                       *)
  at,           (* now: what Evaluate read from the clock                  *)
  lastReboot, lastTower, lastUpdate,
  locked,       (* what the last successful tower command left behind      *)
  steady,       (* the slot of the last change of process, clock, schedule *)
  fired,        (* what this process has run, and when (0: before the last *)
                (* change)                                                 *)
  lost,         (* the last tower command failed                           *)
  rebooted      (* the last scheduled reboot that took place               *)

clock  == <<time, sane, looked>>
keys   == <<lastReboot, lastTower, lastUpdate>>
history == <<steady, fired, lost, rebooted>>
setting == <<schedule, changes>>
vars == <<clock, setting, pc, at, keys, locked, history>>

-----------------------------------------------------------------------------
(* Dates and times of day.                                                 *)

Date(t) == t \div Slots
Minute(t) == t % Slots

(* NowMatchesHHMM; a time that does not parse never matches. *)
NowMatches(target, t) ==
  LET d == IF Minute(t) >= target THEN Minute(t) - target ELSE target - Minute(t)
  IN  target < Slots /\ (IF 2 * d > Slots THEN Slots - d ELSE d) <= Tolerance

(* An empty list of days stands for all of them. *)
DayMatches(days, t) == days = {} \/ Date(t) % Week \in days

NoKey == [job |-> "none", date |-> 0, target |-> 0]
Key(job, target, t) == [job |-> job, date |-> Date(t), target |-> target]

(* The key of the tower command that the schedule s asks for at t, if any: *)
(* while both are due, apply.                                              *)
TowerKey(s, t) ==
  CASE ~DayMatches(s.towerDays, t)  -> NoKey
    [] DayMatches(s.towerDays, t) /\ NowMatches(s.start, t) -> Key("apply", s.start, t)
    [] DayMatches(s.towerDays, t) /\ ~NowMatches(s.start, t) /\ NowMatches(s.end, t)
         -> Key("clear", s.end, t)
    [] OTHER -> NoKey

RebootKey(s, t) ==
  IF DayMatches(s.rebootDays, t) /\ NowMatches(s.reboot, t) THEN Key("reboot", s.reboot, t)
                                                            ELSE NoKey

UpdateKey(s, t) == IF NowMatches(s.update, t) THEN Key("update", s.update, t) ELSE NoKey

-----------------------------------------------------------------------------
(* Evaluate.                                                               *)

(* The ticker fires and Evaluate reads the clock: in 1970 it does nothing. *)
BeginEvaluate ==
  /\ pc = "idle"
  /\ ~looked
  /\ looked' = TRUE
  /\ IF sane THEN pc' = "reboot" /\ at' = time ELSE UNCHANGED <<pc, at>>
  /\ UNCHANGED <<time, sane, setting, keys, locked, history>>

Fire(key) == fired' = fired \cup {<<key, at>>}

(* Fault: one command a date, whichever it is. *)
NothingDueThatDate(key, last, next) ==
  /\ key = NoKey \/ (last # NoKey /\ key.date = last.date)
  /\ pc' = next
  /\ UNCHANGED <<clock, setting, at, keys, locked, history>>

NothingDue(key, last, next) ==
  /\ key \in {NoKey, last}
  /\ pc' = next
  /\ UNCHANGED <<clock, setting, at, keys, locked, history>>

(* The key is taken first and the pid file of an update, which other       *)
(* programs write and remove, is looked for second: a reboot skipped for   *)
(* an update is not tried again.                                           *)
CheckReboot ==
  /\ pc = "reboot"
  /\ LET key == RebootKey(schedule, at)
     IN  \/ NothingDue(key, lastReboot, "tower")
         \/ /\ key \notin {NoKey, lastReboot}
            /\ lastReboot' = key
            /\ Fire(key)
            /\ pc' \in {"tower", "rebooting"}
            /\ UNCHANGED <<clock, setting, at, lastTower, lastUpdate, locked,
                           steady, lost, rebooted>>

(* Fault: a tower command ends the Evaluate. *)
CheckTowerLast ==
  /\ pc = "tower"
  /\ LET key == TowerKey(schedule, at)
     IN  \/ NothingDue(key, lastTower, "update")
         \/ /\ key \notin {NoKey, lastTower}
            /\ lastTower' = key
            /\ Fire(key)
            /\ locked' = (key.job = "apply")
            /\ lost' = FALSE
            /\ pc' = "idle"
            /\ UNCHANGED <<clock, setting, at, lastReboot, lastUpdate, steady, rebooted>>

(* The command fails or times out, and its error is ignored, or succeeds. *)
CheckTower ==
  /\ pc = "tower"
  /\ LET key == TowerKey(schedule, at)
     IN  \/ NothingDue(key, lastTower, "update")
         \/ /\ key \notin {NoKey, lastTower}
            /\ lastTower' = key
            /\ Fire(key)
            /\ \/ locked' = (key.job = "apply") /\ lost' = FALSE
               \/ lost' = TRUE /\ UNCHANGED locked
            /\ pc' = "update"
            /\ UNCHANGED <<clock, setting, at, lastReboot, lastUpdate, steady,
                           rebooted>>

(* Fault: the update is checked for in every slot of its window. *)
CheckUpdateAlways ==
  /\ pc = "update"
  /\ LET key == UpdateKey(schedule, at)
     IN  IF key = NoKey THEN UNCHANGED <<lastUpdate, fired>> ELSE lastUpdate' = key /\ Fire(key)
  /\ pc' = "idle"
  /\ UNCHANGED <<clock, setting, at, lastReboot, lastTower, locked, steady, lost, rebooted>>

CheckUpdate ==
  /\ pc = "update"
  /\ LET key == UpdateKey(schedule, at)
     IN  \/ NothingDue(key, lastUpdate, "idle")
         \/ /\ key \notin {NoKey, lastUpdate}
            /\ lastUpdate' = key
            /\ Fire(key)
            /\ pc' = "idle"
            /\ UNCHANGED <<clock, setting, at, lastReboot, lastTower, locked,
                           steady, lost, rebooted>>

RebootFails ==
  /\ pc = "rebooting"
  /\ pc' = "tower"
  /\ UNCHANGED <<clock, setting, at, keys, locked, history>>

-----------------------------------------------------------------------------
(* A new process: NewScheduler remembers nothing.                          *)

NewScheduler ==
  /\ pc' = "idle"
  /\ looked' = FALSE
  /\ lastReboot' = NoKey
  /\ lastTower' = NoKey
  /\ lastUpdate' = NoKey
  /\ steady' = time
  /\ fired' = {}
  /\ UNCHANGED <<time, setting, at, locked, lost>>

(* The device restarts: its clock is back in 1970. *)
Reboot ==
  /\ pc = "rebooting"
  /\ NewScheduler
  /\ sane' = FALSE
  /\ rebooted' = lastReboot

RestartProcess ==
  /\ NewScheduler
  /\ UNCHANGED <<sane, rebooted>>

-----------------------------------------------------------------------------
(* The rest of the world.                                                  *)

Changed == steady' = time /\ fired' = {<<f[1], 0>> : f \in fired}

(* Evaluate ends within a slot, if not always within the one it began in. *)
Tick ==
  /\ looked
  /\ time < LastTime
  /\ time' = time + 1
  /\ looked' = FALSE
  /\ UNCHANGED <<sane, setting, pc, at, keys, locked, history>>

ClockSync ==
  /\ ~sane
  /\ sane' = TRUE
  /\ Changed
  /\ UNCHANGED <<time, looked, setting, pc, at, keys, locked, lost, rebooted>>

Configure(s) ==
  /\ changes < MaxChanges
  /\ schedule # s
  /\ schedule' = s
  /\ changes' = changes + 1
  /\ Changed
  /\ UNCHANGED <<clock, pc, at, keys, locked, lost, rebooted>>

-----------------------------------------------------------------------------

Init ==
  /\ time = 0
  /\ sane = FALSE
  /\ looked = FALSE
  /\ schedule \in Schedules
  /\ changes = 0
  /\ pc = "idle"
  /\ at = 0
  /\ lastReboot = NoKey
  /\ lastTower = NoKey
  /\ lastUpdate = NoKey
  /\ locked = FALSE
  /\ steady = 0
  /\ fired = {}
  /\ lost = FALSE
  /\ rebooted = NoKey

Next ==
  \/ BeginEvaluate \/ CheckReboot \/ CheckTower \/ CheckUpdate \/ RebootFails
  \/ Reboot \/ RestartProcess
  \/ Tick \/ ClockSync
  \/ \E s \in Schedules : Configure(s)

Spec == Init /\ [][Next]_vars

-----------------------------------------------------------------------------
(* Properties.                                                             *)

Keys == [job : {"none", "reboot", "apply", "clear", "update"},
         date : 0..Date(LastTime), target : 0..Slots]

TypeOK ==
  /\ time \in 0..LastTime /\ at \in 0..time /\ steady \in 0..time
  /\ sane \in BOOLEAN /\ looked \in BOOLEAN
  /\ schedule \in Schedules /\ changes \in 0..MaxChanges
  /\ pc \in {"idle", "reboot", "rebooting", "tower", "update"}
  /\ {lastReboot, lastTower, lastUpdate} \subseteq Keys
  /\ locked \in BOOLEAN /\ lost \in BOOLEAN
  /\ fired \subseteq Keys \X (0..time)
  /\ rebooted \in Keys

(* The slots that one process, one clock and one schedule have seen whole, *)
(* with the Evaluate that began in them over.                              *)
Seen == {t \in 0..time : steady < t /\ (t < at \/ (t = at /\ pc = "idle"))}

(* A process does not repeat a job on a date while the schedule stays as   *)
(* it is, although apply and clear share one key and their windows may     *)
(* overlap.  The exception is a tower command whose window crosses         *)
(* midnight: it is due in the morning and in the evening of one date, and  *)
(* the other command between them takes its key.                           *)
CrossesMidnight(target) == target < Tolerance \/ target + Tolerance >= Slots

OncePerDate ==
  \A f, g \in fired : f[1] = g[1] /\ f[2] > steady /\ g[2] > steady =>
    f = g \/ (f[1].job \in {"apply", "clear"} /\ CrossesMidnight(f[1].target))

(* No job is missed: once a slot in which it was due has passed, it has    *)
(* run, or it has been skipped for an update, on that date.                *)
NoneMissed ==
  \A t \in Seen : \A key \in {RebootKey(schedule, t), TowerKey(schedule, t),
                              UpdateKey(schedule, t)} \ {NoKey} :
    \E f \in fired : f[1] = key

(* Unless a command failed, the tower lock is what the schedule last asked *)
(* for: one key for two commands loses neither.                            *)
LockFollowsSchedule ==
  LET asked == {t \in Seen : TowerKey(schedule, t) # NoKey}
  IN  ~lost /\ pc = "idle" => \A t \in asked :
        (\A u \in asked : u <= t) => locked = (TowerKey(schedule, t).job = "apply")

(* What the documents say the guards prevent and the code does not: the    *)
(* device is rebooted once for a date on which a reboot is scheduled, and  *)
(* not again and again.                                                    *)
NoRebootLoop == [][Reboot => lastReboot # rebooted]_vars
=============================================================================
