-------------------------- MODULE SchedulerProofs --------------------------
(***************************************************************************)
(* Proofs about the scheduler, for any length of the day and the week, any *)
(* tolerance, any set of schedules and any number of changes.              *)
(***************************************************************************)
EXTENDS Scheduler, TLAPS

-----------------------------------------------------------------------------
(* The inductive invariant.                                                *)

(* Evaluate began in each slot since the last change, and read its time.   *)
Punctual ==
  /\ ~sane => pc = "idle" /\ at <= steady
  /\ sane /\ steady < time => IF looked THEN at = time
                                ELSE at < time /\ (at = time - 1 \/ steady = time - 1)

(* The slots since the last change for which a check of Evaluate, which is *)
(* over where pc is in places, has been made.                              *)
Past(t, places) == steady < t /\ (t < at \/ (t = at /\ pc \in places))

AfterReboot == {"rebooting", "tower", "update", "idle"}
AfterTower  == {"update", "idle"}

Ran(key, runs) == key = NoKey \/ \E f \in runs : f[1] = key

(* What was due has run, and so has what the keys remember.                *)
AllRan ==
  /\ Ran(lastReboot, fired) /\ Ran(lastTower, fired) /\ Ran(lastUpdate, fired)
  /\ \A t \in 0..time :
       /\ Past(t, AfterReboot) => Ran(RebootKey(schedule, t), fired)
       /\ Past(t, AfterTower) => Ran(TowerKey(schedule, t), fired)
       /\ Past(t, {"idle"}) => Ran(UpdateKey(schedule, t), fired)

(* Each key remembers what its job ran last, not before anything else that *)
(* it ran since the last change.                                           *)
Remembered ==
  \A f \in fired : f[2] > steady =>
    /\ f[2] <= at
    /\ \/ /\ f[1].job = "reboot" /\ f[1] = RebootKey(schedule, f[2])
          /\ \E v \in f[2]..at : lastReboot = RebootKey(schedule, v) /\ lastReboot # NoKey
       \/ /\ f[1].job \in {"apply", "clear"} /\ f[1] = TowerKey(schedule, f[2])
          /\ \E v \in f[2]..at : lastTower = TowerKey(schedule, v)
       \/ /\ f[1].job = "update" /\ f[1] = UpdateKey(schedule, f[2])
          /\ \E v \in f[2]..at : lastUpdate = UpdateKey(schedule, v) /\ lastUpdate # NoKey

(* The slots in which a tower command was due and has been looked at.      *)
Asked == {t \in 0..time : Past(t, AfterTower) /\ TowerKey(schedule, t) # NoKey}

LockKept ==
  /\ ~lost /\ lastTower # NoKey => (locked <=> lastTower.job = "apply")
  /\ \A t \in Asked : (\A u \in Asked : u <= t) => lastTower = TowerKey(schedule, t)

Inv == TypeOK /\ Punctual /\ AllRan /\ Remembered /\ LockKept /\ OncePerDate

-----------------------------------------------------------------------------
(* Dates and windows.                                                      *)

LEMMA DateAndMinute ==
  ASSUME NEW t \in Nat
  PROVE  /\ Date(t) \in Nat /\ Minute(t) \in 0..(Slots - 1)
         /\ t = Slots * Date(t) + Minute(t)
BY SizesAssumption, SMT DEF Date, Minute

LEMMA DatesInOrder ==
  ASSUME NEW t \in Nat, NEW u \in Nat, t <= u
  PROVE  Date(t) <= Date(u) /\ (Date(t) = Date(u) => Minute(t) <= Minute(u))
<1>1. Slots \in Nat /\ Slots > 0
  BY SizesAssumption
<1>2. /\ Date(t) \in Nat /\ Minute(t) \in 0..(Slots - 1) /\ t = Slots * Date(t) + Minute(t)
      /\ Date(u) \in Nat /\ Minute(u) \in 0..(Slots - 1) /\ u = Slots * Date(u) + Minute(u)
  BY DateAndMinute
<1>3. ASSUME Date(t) > Date(u) PROVE FALSE
  <2> DEFINE d == Date(t) - Date(u) - 1
  <2>1. d \in Nat /\ Date(t) = Date(u) + 1 + d
    BY <1>2, <1>3
  <2> HIDE DEF d
  <2>2. Slots * Date(t) = Slots * Date(u) + Slots + Slots * d /\ Slots * d \in Nat
    BY <1>1, <1>2, <2>1
  <2>3. Slots * Date(u) \in Nat
    BY <1>1, <1>2
  <2> QED BY <1>1, <1>2, <2>2, <2>3
<1> QED BY <1>1, <1>2, <1>3

(* A slot between two of one date is of that date. *)
LEMMA DateBetween ==
  ASSUME NEW t \in Nat, NEW v \in Nat, NEW u \in Nat, t <= v, v <= u, Date(t) = Date(u)
  PROVE  Date(v) = Date(t) /\ Minute(t) <= Minute(v) /\ Minute(v) <= Minute(u)
<1>1. Date(t) \in Nat /\ Date(v) \in Nat /\ Date(u) \in Nat
  BY DateAndMinute
<1>2. Date(t) <= Date(v) /\ Date(v) <= Date(u)
  BY DatesInOrder
<1>3. Date(v) = Date(t) /\ Date(v) = Date(u)
  BY <1>1, <1>2
<1> QED BY <1>3, DatesInOrder

(* The part of a window that lies in one date, when it does not cross      *)
(* midnight, is unbroken.                                                  *)
LEMMA WindowUnbroken ==
  ASSUME NEW t \in Nat, NEW v \in Nat, NEW u \in Nat, t <= v, v <= u, Date(t) = Date(u),
         NEW w \in 0..Slots, ~CrossesMidnight(w), NowMatches(w, t), NowMatches(w, u)
  PROVE  NowMatches(w, v)
<1>1. Minute(t) <= Minute(v) /\ Minute(v) <= Minute(u)
  BY DateBetween
<1>2. Minute(t) \in 0..(Slots - 1) /\ Minute(v) \in 0..(Slots - 1) /\ Minute(u) \in 0..(Slots - 1)
  BY DateAndMinute
<1> QED BY <1>1, <1>2, SizesAssumption DEF NowMatches, CrossesMidnight

(* A window of the same length does not fit between the two either.        *)
LEMMA NoWindowBetween ==
  ASSUME NEW t \in Nat, NEW v \in Nat, NEW u \in Nat, t <= v, v <= u, Date(t) = Date(u),
         NEW w \in 0..Slots, ~CrossesMidnight(w), NowMatches(w, t), NowMatches(w, u),
         NEW x \in 0..Slots, ~NowMatches(x, t), ~NowMatches(x, u)
  PROVE  ~NowMatches(x, v)
<1>1. Minute(t) <= Minute(v) /\ Minute(v) <= Minute(u)
  BY DateBetween
<1>2. Minute(t) \in 0..(Slots - 1) /\ Minute(v) \in 0..(Slots - 1) /\ Minute(u) \in 0..(Slots - 1)
  BY DateAndMinute
<1> QED BY <1>1, <1>2, SizesAssumption DEF NowMatches, CrossesMidnight

(* The keys of a schedule.                                                 *)
LEMMA KeyTypes ==
  ASSUME NEW s \in Schedules, NEW t \in 0..LastTime
  PROVE  /\ RebootKey(s, t) \in Keys /\ TowerKey(s, t) \in Keys /\ UpdateKey(s, t) \in Keys
         /\ RebootKey(s, t) # NoKey => RebootKey(s, t).job = "reboot"
         /\ TowerKey(s, t) # NoKey => TowerKey(s, t).job \in {"apply", "clear"}
         /\ UpdateKey(s, t) # NoKey => UpdateKey(s, t).job = "update"
         /\ NoKey \in Keys
<1>1. s \in ScheduleRecords
  BY SchedulesAssumption
<1>2. s.reboot \in 0..Slots /\ s.start \in 0..Slots /\ s.end \in 0..Slots /\ s.update \in 0..Slots
  BY <1>1 DEF ScheduleRecords
<1>3. Date(t) \in 0..Date(LastTime) /\ 0 \in 0..Date(LastTime)
  BY DateAndMinute, DatesInOrder, SizesAssumption
<1>4. NoKey \in Keys
  BY <1>3, SizesAssumption DEF NoKey, Keys
<1>5. \A job \in {"reboot", "apply", "clear", "update"}, w \in 0..Slots :
        Key(job, w, t) \in Keys /\ Key(job, w, t).job = job
  BY <1>3 DEF Key, Keys
<1> QED BY <1>2, <1>4, <1>5 DEF RebootKey, TowerKey, UpdateKey

(* A key that is due twice on a date is due in between, but for a tower    *)
(* command whose window crosses midnight.                                  *)
LEMMA SameKeyBetween ==
  ASSUME NEW s \in Schedules, NEW t \in Nat, NEW v \in Nat, NEW u \in Nat, t <= v, v <= u
  PROVE  /\ RebootKey(s, t) = RebootKey(s, u) /\ RebootKey(s, t) # NoKey
              /\ RebootKey(s, v) # NoKey => RebootKey(s, v) = RebootKey(s, t)
         /\ UpdateKey(s, t) = UpdateKey(s, u) /\ UpdateKey(s, t) # NoKey
              /\ UpdateKey(s, v) # NoKey => UpdateKey(s, v) = UpdateKey(s, t)
         /\ TowerKey(s, t) = TowerKey(s, u) /\ TowerKey(s, t) # NoKey
              /\ ~CrossesMidnight(TowerKey(s, t).target) => TowerKey(s, v) = TowerKey(s, t)
<1>s. s.start \in 0..Slots /\ s.end \in 0..Slots
  BY SchedulesAssumption DEF ScheduleRecords
<1>k. \A j1, j2, w1, w2, a, b : Key(j1, w1, a) = Key(j2, w2, b)
        => j1 = j2 /\ w1 = w2 /\ Date(a) = Date(b)
  BY DEF Key
<1>1. ASSUME RebootKey(s, t) = RebootKey(s, u), RebootKey(s, t) # NoKey, RebootKey(s, v) # NoKey
      PROVE  RebootKey(s, v) = RebootKey(s, t)
  <2>1. /\ RebootKey(s, t) = Key("reboot", s.reboot, t)
        /\ RebootKey(s, u) = Key("reboot", s.reboot, u)
        /\ RebootKey(s, v) = Key("reboot", s.reboot, v)
    BY <1>1 DEF RebootKey
  <2>2. Date(t) = Date(u)
    <3>1. Key("reboot", s.reboot, t) = Key("reboot", s.reboot, u)
      BY <1>1, <2>1
    <3> QED BY <3>1 DEF Key
  <2>3. Date(v) = Date(t)
    BY <2>2, DateBetween
  <2> QED BY <2>1, <2>3 DEF Key
<1>2. ASSUME UpdateKey(s, t) = UpdateKey(s, u), UpdateKey(s, t) # NoKey, UpdateKey(s, v) # NoKey
      PROVE  UpdateKey(s, v) = UpdateKey(s, t)
  <2>1. /\ UpdateKey(s, t) = Key("update", s.update, t)
        /\ UpdateKey(s, u) = Key("update", s.update, u)
        /\ UpdateKey(s, v) = Key("update", s.update, v)
    BY <1>2 DEF UpdateKey
  <2>2. Date(t) = Date(u)
    <3>1. Key("update", s.update, t) = Key("update", s.update, u)
      BY <1>2, <2>1
    <3> QED BY <3>1 DEF Key
  <2>3. Date(v) = Date(t)
    BY <2>2, DateBetween
  <2> QED BY <2>1, <2>3 DEF Key
<1>3. ASSUME TowerKey(s, t) = TowerKey(s, u), TowerKey(s, t) # NoKey,
             ~CrossesMidnight(TowerKey(s, t).target)
      PROVE  TowerKey(s, v) = TowerKey(s, t)
  <2>1. \A a \in {t, u} :
          \/ /\ TowerKey(s, a) = Key("apply", s.start, a)
             /\ DayMatches(s.towerDays, a) /\ NowMatches(s.start, a)
          \/ /\ TowerKey(s, a) = Key("clear", s.end, a)
             /\ DayMatches(s.towerDays, a) /\ ~NowMatches(s.start, a) /\ NowMatches(s.end, a)
    BY <1>3 DEF TowerKey
  <2>2. Date(t) = Date(u)
    BY <1>3, <1>k, <2>1
  <2>3. Date(v) = Date(t)
    BY <2>2, DateBetween
  <2>4. DayMatches(s.towerDays, v)
    BY <2>1, <2>3 DEF DayMatches
  <2>5. CASE TowerKey(s, t) = Key("apply", s.start, t) /\ NowMatches(s.start, t)
    <3>a. TowerKey(s, u) # Key("clear", s.end, u)
      BY <1>3, <1>k, <2>5
    <3>1. NowMatches(s.start, u)
      BY <2>1, <3>a
    <3>2. ~CrossesMidnight(s.start)
      BY <1>3, <2>5 DEF Key
    <3>3. NowMatches(s.start, v)
      BY <1>s, <2>2, <2>5, <3>1, <3>2, WindowUnbroken
    <3> QED BY <2>3, <2>4, <2>5, <3>3 DEF TowerKey, Key
  <2>6. CASE /\ TowerKey(s, t) = Key("clear", s.end, t)
             /\ ~NowMatches(s.start, t) /\ NowMatches(s.end, t)
    <3>a. TowerKey(s, u) # Key("apply", s.start, u)
      BY <1>3, <1>k, <2>6
    <3>1. ~NowMatches(s.start, u) /\ NowMatches(s.end, u)
      BY <2>1, <3>a
    <3>2. ~CrossesMidnight(s.end)
      BY <1>3, <2>6 DEF Key
    <3>3. NowMatches(s.end, v)
      BY <1>s, <2>2, <2>6, <3>1, <3>2, WindowUnbroken
    <3>4. ~NowMatches(s.start, v)
      BY <1>s, <2>2, <2>6, <3>1, <3>2, NoWindowBetween
    <3> QED BY <2>3, <2>4, <2>6, <3>3, <3>4 DEF TowerKey, Key
  <2> QED BY <2>1, <2>5, <2>6
<1> QED BY <1>1, <1>2, <1>3

-----------------------------------------------------------------------------
(* What the steps do, as far as the invariant goes.                        *)

(* The restarts: the process remembers nothing. *)
Restarts == Reboot \/ RestartProcess

(* The changes of clock and schedule: what has run is remembered. *)
Changes == ClockSync \/ \E s \in Schedules : Configure(s)

LEMMA NewTypes ==
  ASSUME TypeOK, NewScheduler, sane' \in BOOLEAN, rebooted' \in Keys
  PROVE  TypeOK'
<1>1. NoKey \in Keys
  <2>1. schedule \in Schedules /\ 0 \in 0..LastTime
    BY SizesAssumption DEF TypeOK
  <2> QED BY <2>1, KeyTypes
<1>2. time' \in 0..LastTime /\ at' \in 0..time' /\ steady' \in 0..time'
  BY SizesAssumption DEF TypeOK, NewScheduler
<1>3. {lastReboot', lastTower', lastUpdate'} \subseteq Keys
  BY <1>1 DEF NewScheduler
<1>4. fired' \subseteq Keys \X (0..time')
  BY DEF NewScheduler
<1> QED BY <1>2, <1>3, <1>4 DEF TypeOK, NewScheduler, setting

LEMMA TypeStep ==
  ASSUME TypeOK, [Next]_vars
  PROVE  TypeOK'
<1> USE DEF TypeOK
<1>k. /\ RebootKey(schedule, at) \in Keys /\ TowerKey(schedule, at) \in Keys
      /\ UpdateKey(schedule, at) \in Keys /\ NoKey \in Keys
  <2>1. at \in 0..LastTime
    BY SizesAssumption
  <2> QED BY <2>1, KeyTypes
<1>f. ASSUME NEW key \in Keys, Fire(key) PROVE fired' \subseteq Keys \X (0..time)
  BY <1>f DEF Fire
<1>1. CASE BeginEvaluate
  BY <1>1, SizesAssumption DEF BeginEvaluate, setting, keys, history
<1>2. CASE CheckReboot
  <2>1. CASE NothingDue(RebootKey(schedule, at), lastReboot, "tower")
    BY <2>1 DEF NothingDue, clock, setting, keys, history
  <2>2. CASE lastReboot' = RebootKey(schedule, at) /\ Fire(RebootKey(schedule, at))
    BY <1>2, <1>k, <1>f, <2>2 DEF CheckReboot, NothingDue, clock, setting, keys, history
  <2> QED BY <1>2, <2>1, <2>2 DEF CheckReboot
<1>3. CASE CheckTower
  <2>1. CASE NothingDue(TowerKey(schedule, at), lastTower, "update")
    BY <2>1 DEF NothingDue, clock, setting, keys, history
  <2>2. CASE lastTower' = TowerKey(schedule, at) /\ Fire(TowerKey(schedule, at))
    BY <1>3, <1>k, <1>f, <2>2 DEF CheckTower, NothingDue, clock, setting, keys, history
  <2> QED BY <1>3, <2>1, <2>2 DEF CheckTower
<1>4. CASE CheckUpdate
  <2>1. CASE NothingDue(UpdateKey(schedule, at), lastUpdate, "idle")
    BY <2>1 DEF NothingDue, clock, setting, keys, history
  <2>2. CASE lastUpdate' = UpdateKey(schedule, at) /\ Fire(UpdateKey(schedule, at))
    BY <1>4, <1>k, <1>f, <2>2 DEF CheckUpdate, NothingDue, clock, setting, keys, history
  <2> QED BY <1>4, <2>1, <2>2 DEF CheckUpdate
<1>5. CASE RebootFails
  BY <1>5 DEF RebootFails, clock, setting, keys, history
<1>6. CASE Reboot
  <2>1. NewScheduler /\ sane' = FALSE /\ rebooted' = lastReboot
    BY <1>6 DEF Reboot
  <2>2. rebooted' \in Keys /\ sane' \in BOOLEAN
    BY <2>1
  <2> QED BY <2>2, <2>1, NewTypes
<1>7. CASE RestartProcess
  BY <1>7, NewTypes DEF RestartProcess
<1>8. CASE Tick
  <2>1. time' \in 0..LastTime /\ at' \in 0..time' /\ steady' \in 0..time'
    BY <1>8, SizesAssumption DEF Tick, history
  <2>2. fired' \subseteq Keys \X (0..time')
    <3>1. 0..time \subseteq 0..time'
      BY <1>8, SizesAssumption DEF Tick
    <3>2. fired' = fired
      BY <1>8 DEF Tick, history
    <3> QED BY <3>1, <3>2
  <2> QED BY <1>8, <2>1, <2>2 DEF Tick, setting, keys, history
<1>9. CASE ClockSync
  BY <1>9, SizesAssumption DEF ClockSync, Changed, setting, keys
<1>10. ASSUME NEW s \in Schedules, Configure(s) PROVE TypeOK'
  BY <1>10, SizesAssumption DEF Configure, Changed, clock, keys
<1>11. CASE UNCHANGED vars
  BY <1>11 DEF vars, clock, setting, keys, history
<1> QED
  BY <1>1, <1>2, <1>3, <1>4, <1>5, <1>6, <1>7, <1>8, <1>9, <1>10, <1>11 DEF Next

LEMMA PunctualStep ==
  ASSUME TypeOK, Punctual, [Next]_vars
  PROVE  Punctual'
<1> USE DEF Punctual
<1>t. time \in Nat /\ at \in Nat /\ steady \in Nat /\ at <= time /\ steady <= time
  BY SizesAssumption DEF TypeOK
<1>1. CASE BeginEvaluate
  BY <1>1, <1>t DEF BeginEvaluate, setting, keys, history
<1>2. CASE CheckReboot \/ CheckTower \/ CheckUpdate \/ RebootFails
  BY <1>2, <1>t
  DEF CheckReboot, CheckTower, CheckUpdate, RebootFails, NothingDue, clock, setting, keys, history
<1>3. CASE Restarts
  BY <1>3, <1>t DEF Restarts, Reboot, RestartProcess, NewScheduler, setting
<1>4. CASE Tick
  BY <1>4, <1>t DEF Tick, setting, keys, history
<1>5. CASE Changes
  BY <1>5, <1>t DEF Changes, ClockSync, Configure, Changed, setting, keys, clock
<1>6. CASE UNCHANGED vars
  BY <1>6 DEF vars, clock, setting, keys, history
<1> QED
  BY <1>1, <1>2, <1>3, <1>4, <1>5, <1>6 DEF Next, Restarts, Changes

(* Right after a change or a restart, nothing is past. *)
LEMMA NothingPast ==
  ASSUME TypeOK, Restarts \/ Changes
  PROVE  /\ steady' = time' /\ time' = time /\ at' = at
         /\ \A t \in 0..time' : \A places : ~Past(t, places)'
         /\ Asked' = {}
<1>1. time \in Nat /\ at \in Nat /\ at <= time
  BY SizesAssumption DEF TypeOK
<1>2. steady' = time /\ time' = time /\ at' = at
  BY DEF Restarts, Changes, Reboot, RestartProcess, NewScheduler, ClockSync, Configure, Changed,
     setting, clock
<1>3. \A t \in 0..time' : \A places : ~Past(t, places)'
  BY <1>1, <1>2 DEF Past
<1> QED BY <1>2, <1>3 DEF Asked

(* What is past stays past in an Evaluate that begins; its own slot is not *)
(* past yet.                                                               *)
LEMMA PastAtBegin ==
  ASSUME TypeOK, Punctual, BeginEvaluate, NEW t \in 0..time, NEW places, "idle" \in places,
         "reboot" \notin places
  PROVE  Past(t, places)' <=> Past(t, places)
<1>t. time \in Nat /\ at \in Nat /\ steady \in Nat /\ at <= time /\ steady <= time /\ t \in Nat
  BY SizesAssumption DEF TypeOK
<1>1. pc = "idle" /\ ~looked /\ steady' = steady /\ places' = places
  BY DEF BeginEvaluate, history
<1>2. CASE ~sane
  BY <1>1, <1>2 DEF BeginEvaluate, Past
<1>3. CASE sane
  <2>1. pc' = "reboot" /\ at' = time
    BY <1>3 DEF BeginEvaluate
  <2>2. Past(t, places)' <=> steady < t /\ t < time
    BY <1>1, <2>1 DEF Past
  <2>3. Past(t, places) <=> steady < t /\ t <= at
    BY <1>1, <1>t DEF Past
  <2> QED BY <1>1, <1>3, <1>t, <2>2, <2>3 DEF Punctual
<1> QED BY <1>2, <1>3

(* What is past is not later than the last Evaluate. *)
LEMMA PastBefore ==
  ASSUME TypeOK, NEW t \in Nat, NEW places, Past(t, places)
  PROVE  steady < t /\ t <= at /\ t \in 0..time
BY SizesAssumption DEF Past, TypeOK

LEMMA RanNow ==
  ASSUME NEW key, Fire(key)
  PROVE  Ran(key, fired')
<1>1. <<key, at>> \in fired' /\ <<key, at>>[1] = key
  BY DEF Fire
<1> QED BY <1>1 DEF Ran

LEMMA AllRanStep ==
  ASSUME TypeOK, Punctual, AllRan, [Next]_vars
  PROVE  AllRan'
<1>t. time \in Nat /\ at \in Nat /\ steady \in Nat /\ at <= time /\ steady <= time
  BY SizesAssumption DEF TypeOK
<1>m. ASSUME fired \subseteq fired', NEW key, Ran(key, fired) PROVE Ran(key, fired')
  BY <1>m DEF Ran
<1>p. ASSUME NEW t \in 0..time
      PROVE  /\ Past(t, AfterReboot) => Ran(RebootKey(schedule, t), fired)
             /\ Past(t, AfterTower) => Ran(TowerKey(schedule, t), fired)
             /\ Past(t, {"idle"}) => Ran(UpdateKey(schedule, t), fired)
  BY <1>p DEF AllRan
<1>l. Ran(lastReboot, fired) /\ Ran(lastTower, fired) /\ Ran(lastUpdate, fired)
  BY DEF AllRan
<1>1. CASE BeginEvaluate
  <2>1. UNCHANGED <<time, fired, schedule, lastReboot, lastTower, lastUpdate>>
    BY <1>1 DEF BeginEvaluate, setting, keys, history
  <2>2. \A t \in 0..time : /\ Past(t, AfterReboot)' => Past(t, AfterReboot)
                           /\ Past(t, AfterTower)' => Past(t, AfterTower)
                           /\ Past(t, {"idle"})' => Past(t, {"idle"})
    BY <1>1, PastAtBegin DEF AfterReboot, AfterTower
  <2> QED BY <1>l, <1>p, <2>1, <2>2 DEF AllRan
<1>2. CASE CheckReboot
  <2>1. UNCHANGED <<time, steady, at, schedule, lastTower, lastUpdate>> /\ fired \subseteq fired'
    BY <1>2 DEF CheckReboot, NothingDue, Fire, clock, setting, keys, history
  <2>2. Ran(RebootKey(schedule, at), fired') /\ Ran(lastReboot', fired')
    <3>1. CASE NothingDue(RebootKey(schedule, at), lastReboot, "tower")
      <4>1. RebootKey(schedule, at) \in {NoKey, lastReboot} /\ fired' = fired /\ lastReboot' = lastReboot
        BY <3>1 DEF NothingDue, keys, history
      <4> QED BY <1>l, <4>1 DEF Ran
    <3>2. CASE lastReboot' = RebootKey(schedule, at) /\ Fire(RebootKey(schedule, at))
      BY <3>2, RanNow
    <3> QED BY <1>2, <3>1, <3>2 DEF CheckReboot
  <2>3. pc = "reboot" /\ pc' \in {"tower", "rebooting"}
    BY <1>2 DEF CheckReboot, NothingDue
  <2>4. ASSUME NEW t \in 0..time
        PROVE  /\ Past(t, AfterReboot)' => Past(t, AfterReboot) \/ t = at
               /\ Past(t, AfterTower)' => Past(t, AfterTower)
               /\ Past(t, {"idle"})' => Past(t, {"idle"})
    BY <2>1, <2>3 DEF Past, AfterReboot, AfterTower
  <2> QED BY <1>l, <1>m, <1>p, <2>1, <2>2, <2>4 DEF AllRan
<1>3. CASE CheckTower
  <2>1. UNCHANGED <<time, steady, at, schedule, lastReboot, lastUpdate>> /\ fired \subseteq fired'
    BY <1>3 DEF CheckTower, NothingDue, Fire, clock, setting, keys, history
  <2>2. Ran(TowerKey(schedule, at), fired') /\ Ran(lastTower', fired')
    <3>1. CASE NothingDue(TowerKey(schedule, at), lastTower, "update")
      <4>1. TowerKey(schedule, at) \in {NoKey, lastTower} /\ fired' = fired /\ lastTower' = lastTower
        BY <3>1 DEF NothingDue, keys, history
      <4> QED BY <1>l, <4>1 DEF Ran
    <3>2. CASE lastTower' = TowerKey(schedule, at) /\ Fire(TowerKey(schedule, at))
      BY <3>2, RanNow
    <3> QED BY <1>3, <3>1, <3>2 DEF CheckTower
  <2>3. pc = "tower" /\ pc' = "update"
    BY <1>3 DEF CheckTower, NothingDue
  <2>4. ASSUME NEW t \in 0..time
        PROVE  /\ Past(t, AfterReboot)' => Past(t, AfterReboot)
               /\ Past(t, AfterTower)' => Past(t, AfterTower) \/ t = at
               /\ Past(t, {"idle"})' => Past(t, {"idle"})
    BY <2>1, <2>3 DEF Past, AfterReboot, AfterTower
  <2> QED BY <1>l, <1>m, <1>p, <2>1, <2>2, <2>4 DEF AllRan
<1>4. CASE CheckUpdate
  <2>1. UNCHANGED <<time, steady, at, schedule, lastReboot, lastTower>> /\ fired \subseteq fired'
    BY <1>4 DEF CheckUpdate, NothingDue, Fire, clock, setting, keys, history
  <2>2. Ran(UpdateKey(schedule, at), fired') /\ Ran(lastUpdate', fired')
    <3>1. CASE NothingDue(UpdateKey(schedule, at), lastUpdate, "idle")
      <4>1. UpdateKey(schedule, at) \in {NoKey, lastUpdate} /\ fired' = fired /\ lastUpdate' = lastUpdate
        BY <3>1 DEF NothingDue, keys, history
      <4> QED BY <1>l, <4>1 DEF Ran
    <3>2. CASE lastUpdate' = UpdateKey(schedule, at) /\ Fire(UpdateKey(schedule, at))
      BY <3>2, RanNow
    <3> QED BY <1>4, <3>1, <3>2 DEF CheckUpdate
  <2>3. pc = "update" /\ pc' = "idle"
    BY <1>4 DEF CheckUpdate, NothingDue
  <2>4. ASSUME NEW t \in 0..time
        PROVE  /\ Past(t, AfterReboot)' => Past(t, AfterReboot)
               /\ Past(t, AfterTower)' => Past(t, AfterTower)
               /\ Past(t, {"idle"})' => Past(t, {"idle"}) \/ t = at
    BY <2>1, <2>3 DEF Past, AfterReboot, AfterTower
  <2> QED BY <1>l, <1>m, <1>p, <2>1, <2>2, <2>4 DEF AllRan
<1>5. CASE RebootFails
  <2>1. UNCHANGED <<time, steady, at, schedule, fired, lastReboot, lastTower, lastUpdate>>
    BY <1>5 DEF RebootFails, clock, setting, keys, history
  <2>2. \A t \in 0..time : /\ Past(t, AfterReboot)' => Past(t, AfterReboot)
                           /\ Past(t, AfterTower)' => Past(t, AfterTower)
                           /\ Past(t, {"idle"})' => Past(t, {"idle"})
    BY <1>5, <2>1 DEF Past, AfterReboot, AfterTower, RebootFails
  <2> QED BY <1>l, <1>p, <2>1, <2>2 DEF AllRan
<1>6. CASE Restarts
  <2>1. lastReboot' = NoKey /\ lastTower' = NoKey /\ lastUpdate' = NoKey
    BY <1>6 DEF Restarts, Reboot, RestartProcess, NewScheduler
  <2>2. Ran(lastReboot', fired') /\ Ran(lastTower', fired') /\ Ran(lastUpdate', fired')
    BY <2>1 DEF Ran
  <2> QED BY <1>6, <2>2, NothingPast DEF AllRan
<1>7. CASE Tick
  <2>1. UNCHANGED <<pc, steady, at, schedule, fired, lastReboot, lastTower, lastUpdate>>
    BY <1>7 DEF Tick, setting, keys, history
  <2>2. time' \in Nat
    BY <1>7, <1>t DEF Tick
  <2>3. ASSUME NEW t \in 0..time', NEW places, Past(t, places)'
        PROVE  Past(t, places) /\ t \in 0..time
    BY <1>t, <2>1, <2>2, <2>3, PastBefore DEF Past
  <2> QED BY <1>l, <1>p, <2>1, <2>3 DEF AllRan
<1>8. CASE Changes
  <2>1. UNCHANGED <<lastReboot, lastTower, lastUpdate>> /\ fired' = {<<f[1], 0>> : f \in fired}
    BY <1>8 DEF Changes, ClockSync, Configure, Changed, keys
  <2>2. ASSUME NEW key, Ran(key, fired) PROVE Ran(key, fired')
    <3>1. CASE key # NoKey
      <4>1. PICK f \in fired : f[1] = key
        BY <2>2, <3>1 DEF Ran
      <4>2. <<f[1], 0>> \in fired' /\ <<f[1], 0>>[1] = key
        BY <2>1, <4>1
      <4> QED BY <4>2 DEF Ran
    <3> QED BY <3>1 DEF Ran
  <2> QED BY <1>8, <1>l, <2>1, <2>2, NothingPast DEF AllRan
<1>9. CASE UNCHANGED vars
  BY <1>9 DEF AllRan, Past, vars, clock, setting, keys, history
<1> QED
  BY <1>1, <1>2, <1>3, <1>4, <1>5, <1>6, <1>7, <1>8, <1>9 DEF Next, Restarts, Changes

(* What an Evaluate runs, apart from the key it takes, is what had run.    *)
LEMMA FiredOf ==
  ASSUME NEW key, Fire(key), NEW f \in fired'
  PROVE  f \in fired \/ (f[1] = key /\ f[2] = at /\ f = <<key, at>>)
BY DEF Fire

(* The parts of Remembered, for one run.                                   *)
RebootRun(f) == f[1].job = "reboot" /\ f[1] = RebootKey(schedule, f[2])
                  /\ \E v \in f[2]..at : lastReboot = RebootKey(schedule, v) /\ lastReboot # NoKey
TowerRun(f)  == f[1].job \in {"apply", "clear"} /\ f[1] = TowerKey(schedule, f[2])
                  /\ \E v \in f[2]..at : lastTower = TowerKey(schedule, v)
UpdateRun(f) == f[1].job = "update" /\ f[1] = UpdateKey(schedule, f[2])
                  /\ \E v \in f[2]..at : lastUpdate = UpdateKey(schedule, v) /\ lastUpdate # NoKey
Runs(f) == f[2] <= at /\ (RebootRun(f) \/ TowerRun(f) \/ UpdateRun(f))

LEMMA RememberedIs == Remembered <=> \A f \in fired : f[2] > steady => Runs(f)
BY DEF Remembered, Runs, RebootRun, TowerRun, UpdateRun

LEMMA RememberedStep ==
  ASSUME TypeOK, Remembered, [Next]_vars
  PROVE  Remembered'
<1>r. \A f \in fired : f[2] > steady => Runs(f)
  BY RememberedIs
<1> SUFFICES \A f \in fired' : f[2] > steady' => Runs(f)'
  BY DEF Remembered, Runs, RebootRun, TowerRun, UpdateRun
<1>t. time \in Nat /\ at \in Nat /\ steady \in Nat /\ at <= time /\ steady <= time
  BY SizesAssumption DEF TypeOK
<1>f. \A f \in fired : f[1] \in Keys /\ f[2] \in Nat
  BY SizesAssumption DEF TypeOK
<1>k. /\ RebootKey(schedule, at) # NoKey => RebootKey(schedule, at).job = "reboot"
      /\ TowerKey(schedule, at) # NoKey => TowerKey(schedule, at).job \in {"apply", "clear"}
      /\ UpdateKey(schedule, at) # NoKey => UpdateKey(schedule, at).job = "update"
  <2>1. schedule \in Schedules /\ at \in 0..LastTime
    BY SizesAssumption DEF TypeOK
  <2> QED BY <2>1, KeyTypes
<1>1. CASE BeginEvaluate
  <2>1. UNCHANGED <<fired, steady, schedule, lastReboot, lastTower, lastUpdate>>
    BY <1>1 DEF BeginEvaluate, setting, keys, history
  <2>2. at' \in Nat /\ at <= at'
    BY <1>1, <1>t DEF BeginEvaluate
  <2>3. \A x \in Nat : x..at \subseteq x..at'
    BY <1>t, <2>2
  <2>4. ASSUME NEW f \in fired, f[2] > steady PROVE Runs(f)'
    <3>1. Runs(f) /\ f[2] \in Nat
      BY <1>r, <1>f, <2>4
    <3>2. f[2]..at \subseteq f[2]..at' /\ f[2] <= at'
      BY <1>t, <2>2, <2>3, <3>1 DEF Runs
    <3> QED BY <2>1, <3>1, <3>2 DEF Runs, RebootRun, TowerRun, UpdateRun
  <2> QED BY <2>1, <2>4
<1>2. CASE CheckReboot
  <2>1. CASE NothingDue(RebootKey(schedule, at), lastReboot, "tower")
    BY <1>r, <2>1 DEF NothingDue, Runs, RebootRun, TowerRun, UpdateRun, setting, keys, history
  <2>2. CASE /\ RebootKey(schedule, at) # NoKey /\ lastReboot' = RebootKey(schedule, at)
             /\ Fire(RebootKey(schedule, at))
             /\ UNCHANGED <<schedule, at, lastTower, lastUpdate, steady>>
    <3>1. ASSUME NEW f \in fired, f[2] > steady PROVE Runs(f)'
      <4>1. Runs(f) /\ f[2] \in Nat /\ at \in f[2]..at
        BY <1>r, <1>f, <1>t, <3>1 DEF Runs
      <4> QED BY <2>2, <4>1 DEF Runs, RebootRun, TowerRun, UpdateRun
    <3>2. ASSUME NEW f \in fired', f[1] = RebootKey(schedule, at), f[2] = at PROVE Runs(f)'
      <4>1. at \in f[2]..at /\ f[2] <= at
        BY <1>t, <3>2
      <4> QED BY <1>k, <2>2, <3>2, <4>1 DEF Runs, RebootRun
    <3> QED BY <2>2, <3>1, <3>2, FiredOf
  <2> QED BY <1>2, <2>1, <2>2 DEF CheckReboot, setting
<1>3. CASE CheckTower
  <2>1. CASE NothingDue(TowerKey(schedule, at), lastTower, "update")
    BY <1>r, <2>1 DEF NothingDue, Runs, RebootRun, TowerRun, UpdateRun, setting, keys, history
  <2>2. CASE /\ TowerKey(schedule, at) # NoKey /\ lastTower' = TowerKey(schedule, at)
             /\ Fire(TowerKey(schedule, at))
             /\ UNCHANGED <<schedule, at, lastReboot, lastUpdate, steady>>
    <3>1. ASSUME NEW f \in fired, f[2] > steady PROVE Runs(f)'
      <4>1. Runs(f) /\ f[2] \in Nat /\ at \in f[2]..at
        BY <1>r, <1>f, <1>t, <3>1 DEF Runs
      <4> QED BY <2>2, <4>1 DEF Runs, RebootRun, TowerRun, UpdateRun
    <3>2. ASSUME NEW f \in fired', f[1] = TowerKey(schedule, at), f[2] = at PROVE Runs(f)'
      <4>1. at \in f[2]..at /\ f[2] <= at
        BY <1>t, <3>2
      <4> QED BY <1>k, <2>2, <3>2, <4>1 DEF Runs, TowerRun
    <3> QED BY <2>2, <3>1, <3>2, FiredOf
  <2> QED BY <1>3, <2>1, <2>2 DEF CheckTower, setting
<1>4. CASE CheckUpdate
  <2>1. CASE NothingDue(UpdateKey(schedule, at), lastUpdate, "idle")
    BY <1>r, <2>1 DEF NothingDue, Runs, RebootRun, TowerRun, UpdateRun, setting, keys, history
  <2>2. CASE /\ UpdateKey(schedule, at) # NoKey /\ lastUpdate' = UpdateKey(schedule, at)
             /\ Fire(UpdateKey(schedule, at))
             /\ UNCHANGED <<schedule, at, lastReboot, lastTower, steady>>
    <3>1. ASSUME NEW f \in fired, f[2] > steady PROVE Runs(f)'
      <4>1. Runs(f) /\ f[2] \in Nat /\ at \in f[2]..at
        BY <1>r, <1>f, <1>t, <3>1 DEF Runs
      <4> QED BY <2>2, <4>1 DEF Runs, RebootRun, TowerRun, UpdateRun
    <3>2. ASSUME NEW f \in fired', f[1] = UpdateKey(schedule, at), f[2] = at PROVE Runs(f)'
      <4>1. at \in f[2]..at /\ f[2] <= at
        BY <1>t, <3>2
      <4> QED BY <1>k, <2>2, <3>2, <4>1 DEF Runs, UpdateRun
    <3> QED BY <2>2, <3>1, <3>2, FiredOf
  <2> QED BY <1>4, <2>1, <2>2 DEF CheckUpdate, setting
<1>5. CASE RebootFails \/ Tick \/ UNCHANGED vars
  <2>1. UNCHANGED <<fired, steady, at, schedule, lastReboot, lastTower, lastUpdate>>
    BY <1>5 DEF RebootFails, Tick, vars, setting, keys, history
  <2> QED BY <1>r, <2>1 DEF Runs, RebootRun, TowerRun, UpdateRun
<1>6. CASE Restarts
  BY <1>6 DEF Restarts, Reboot, RestartProcess, NewScheduler
<1>7. CASE Changes
  <2>1. fired' = {<<f[1], 0>> : f \in fired} /\ steady' = time
    BY <1>7 DEF Changes, ClockSync, Configure, Changed
  <2>2. \A f \in fired' : f[2] = 0
    BY <2>1
  <2> QED BY <1>t, <2>1, <2>2
<1> QED
  BY <1>1, <1>2, <1>3, <1>4, <1>5, <1>6, <1>7 DEF Next, Restarts, Changes

(* Nothing runs again: had a job run with the key it is to run with, the   *)
(* key that it remembers would be that one.                                *)
LEMMA NotRunBefore ==
  ASSUME TypeOK, Remembered, NEW g \in fired, g[2] > steady
  PROVE  /\ g[1] = RebootKey(schedule, at) /\ g[1] # NoKey => lastReboot = g[1]
         /\ g[1] = UpdateKey(schedule, at) /\ g[1] # NoKey => lastUpdate = g[1]
         /\ g[1] = TowerKey(schedule, at) /\ g[1] # NoKey /\ ~CrossesMidnight(g[1].target)
              => lastTower = g[1]
<1>1. Runs(g)
  BY RememberedIs
<1>2. schedule \in Schedules /\ at \in 0..LastTime /\ at \in Nat /\ g[2] \in Nat
  BY SizesAssumption DEF TypeOK
<1>3. /\ RebootKey(schedule, at) # NoKey => RebootKey(schedule, at).job = "reboot"
      /\ TowerKey(schedule, at) # NoKey => TowerKey(schedule, at).job \in {"apply", "clear"}
      /\ UpdateKey(schedule, at) # NoKey => UpdateKey(schedule, at).job = "update"
  BY <1>2, KeyTypes
<1>4. CASE g[1] = RebootKey(schedule, at) /\ g[1] # NoKey
  <2>1. RebootRun(g)
    BY <1>1, <1>3, <1>4 DEF Runs, TowerRun, UpdateRun
  <2>2. PICK v \in g[2]..at : lastReboot = RebootKey(schedule, v) /\ lastReboot # NoKey
    BY <2>1 DEF RebootRun
  <2>3. v \in Nat /\ g[2] <= v /\ v <= at
    BY <1>2, <2>2
  <2>a. /\ g[1] = RebootKey(schedule, g[2])
        /\ RebootKey(schedule, g[2]) = RebootKey(schedule, at) /\ RebootKey(schedule, g[2]) # NoKey
    BY <1>4, <2>1 DEF RebootRun
  <2>b. RebootKey(schedule, v) = RebootKey(schedule, g[2])
    BY <1>2, <2>2, <2>3, <2>a, SameKeyBetween
  <2>4. lastReboot = g[1]
    BY <2>2, <2>a, <2>b
  <2> QED BY <1>3, <1>4, <2>4
<1>5. CASE g[1] = UpdateKey(schedule, at) /\ g[1] # NoKey
  <2>1. UpdateRun(g)
    BY <1>1, <1>3, <1>5 DEF Runs, RebootRun, TowerRun
  <2>2. PICK v \in g[2]..at : lastUpdate = UpdateKey(schedule, v) /\ lastUpdate # NoKey
    BY <2>1 DEF UpdateRun
  <2>3. v \in Nat /\ g[2] <= v /\ v <= at
    BY <1>2, <2>2
  <2>a. /\ g[1] = UpdateKey(schedule, g[2])
        /\ UpdateKey(schedule, g[2]) = UpdateKey(schedule, at) /\ UpdateKey(schedule, g[2]) # NoKey
    BY <1>5, <2>1 DEF UpdateRun
  <2>b. UpdateKey(schedule, v) = UpdateKey(schedule, g[2])
    BY <1>2, <2>2, <2>3, <2>a, SameKeyBetween
  <2>4. lastUpdate = g[1]
    BY <2>2, <2>a, <2>b
  <2> QED BY <1>3, <1>5, <2>4
<1>6. CASE g[1] = TowerKey(schedule, at) /\ g[1] # NoKey
  <2>1. TowerRun(g)
    BY <1>1, <1>3, <1>6 DEF Runs, RebootRun, UpdateRun
  <2>2. PICK v \in g[2]..at : lastTower = TowerKey(schedule, v)
    BY <2>1 DEF TowerRun
  <2>3. v \in Nat /\ g[2] <= v /\ v <= at
    BY <1>2, <2>2
  <2>a. /\ g[1] = TowerKey(schedule, g[2])
        /\ TowerKey(schedule, g[2]) = TowerKey(schedule, at) /\ TowerKey(schedule, g[2]) # NoKey
    BY <1>6, <2>1 DEF TowerRun
  <2>b. ~CrossesMidnight(TowerKey(schedule, g[2]).target)
          => TowerKey(schedule, v) = TowerKey(schedule, g[2])
    BY <1>2, <2>2, <2>3, <2>a, SameKeyBetween
  <2>4. ~CrossesMidnight(g[1].target) => lastTower = g[1]
    BY <2>2, <2>a, <2>b
  <2> QED BY <1>3, <1>6, <2>4
<1> QED BY <1>4, <1>5, <1>6

LEMMA OncePerDateStep ==
  ASSUME TypeOK, Remembered, OncePerDate, [Next]_vars
  PROVE  OncePerDate'
<1>t. time \in Nat /\ steady \in Nat
  BY SizesAssumption DEF TypeOK
<1>k. /\ RebootKey(schedule, at) # NoKey => RebootKey(schedule, at).job = "reboot"
      /\ TowerKey(schedule, at) # NoKey => TowerKey(schedule, at).job \in {"apply", "clear"}
      /\ UpdateKey(schedule, at) # NoKey => UpdateKey(schedule, at).job = "update"
  <2>1. schedule \in Schedules /\ at \in 0..LastTime
    BY SizesAssumption DEF TypeOK
  <2> QED BY <2>1, KeyTypes
<1>f. \A f, g \in fired : f[1] = g[1] /\ f[2] > steady /\ g[2] > steady =>
        f = g \/ (f[1].job \in {"apply", "clear"} /\ CrossesMidnight(f[1].target))
  BY DEF OncePerDate
<1>s. CASE UNCHANGED <<fired, steady>>
  BY <1>f, <1>s DEF OncePerDate
(* A run is new only if no run of its key is there, but for the exception. *)
<1>n. ASSUME NEW key, Fire(key), steady' = steady,
             \A g \in fired : g[1] = key /\ g[2] > steady =>
               key.job \in {"apply", "clear"} /\ CrossesMidnight(key.target)
      PROVE  OncePerDate'
  <2> SUFFICES ASSUME NEW f \in fired', NEW g \in fired', f[1] = g[1], f[2] > steady, g[2] > steady
               PROVE  f = g \/ (f[1].job \in {"apply", "clear"} /\ CrossesMidnight(f[1].target))
    BY <1>n DEF OncePerDate
  <2>1. /\ f \in fired \/ (f[1] = key /\ f = <<key, at>>)
        /\ g \in fired \/ (g[1] = key /\ g = <<key, at>>)
    BY <1>n, FiredOf
  <2>2. CASE f \in fired /\ g \in fired
    BY <1>f, <2>2
  <2>3. CASE f \in fired /\ g = <<key, at>> /\ g[1] = key
    BY <1>n, <2>3
  <2>4. CASE g \in fired /\ f = <<key, at>> /\ f[1] = key
    BY <1>n, <2>4
  <2>5. CASE f = <<key, at>> /\ g = <<key, at>>
    BY <2>5
  <2> QED BY <2>1, <2>2, <2>3, <2>4, <2>5
<1>1. CASE BeginEvaluate \/ RebootFails \/ Tick \/ UNCHANGED vars
  BY <1>1, <1>s DEF BeginEvaluate, RebootFails, Tick, vars, history
<1>2. CASE CheckReboot
  <2> DEFINE key == RebootKey(schedule, at)
  <2>1. CASE NothingDue(key, lastReboot, "tower")
    BY <1>s, <2>1 DEF NothingDue, history
  <2>2. CASE key \notin {NoKey, lastReboot} /\ Fire(key) /\ steady' = steady
    <3>1. \A g \in fired : g[1] = key /\ g[2] > steady => FALSE
      BY <2>2, NotRunBefore
    <3> QED BY <1>n, <2>2, <3>1
  <2> QED BY <1>2, <2>1, <2>2 DEF CheckReboot
<1>3. CASE CheckTower
  <2> DEFINE key == TowerKey(schedule, at)
  <2>1. CASE NothingDue(key, lastTower, "update")
    BY <1>s, <2>1 DEF NothingDue, history
  <2>2. CASE key \notin {NoKey, lastTower} /\ Fire(key) /\ steady' = steady
    <3>1. \A g \in fired : g[1] = key /\ g[2] > steady => CrossesMidnight(key.target)
      BY <2>2, NotRunBefore
    <3>2. key.job \in {"apply", "clear"}
      BY <1>k, <2>2
    <3> QED BY <1>n, <2>2, <3>1, <3>2
  <2> QED BY <1>3, <2>1, <2>2 DEF CheckTower
<1>4. CASE CheckUpdate
  <2> DEFINE key == UpdateKey(schedule, at)
  <2>1. CASE NothingDue(key, lastUpdate, "idle")
    BY <1>s, <2>1 DEF NothingDue, history
  <2>2. CASE key \notin {NoKey, lastUpdate} /\ Fire(key) /\ steady' = steady
    <3>1. \A g \in fired : g[1] = key /\ g[2] > steady => FALSE
      BY <2>2, NotRunBefore
    <3> QED BY <1>n, <2>2, <3>1
  <2> QED BY <1>4, <2>1, <2>2 DEF CheckUpdate
<1>5. CASE Restarts
  <2>1. fired' = {}
    BY <1>5 DEF Restarts, Reboot, RestartProcess, NewScheduler
  <2> QED BY <2>1 DEF OncePerDate
<1>6. CASE Changes
  <2>1. fired' = {<<f[1], 0>> : f \in fired} /\ steady' = time
    BY <1>6 DEF Changes, ClockSync, Configure, Changed
  <2>2. \A f \in fired' : f[2] = 0
    BY <2>1
  <2>3. \A f \in fired' : ~(f[2] > steady')
    BY <1>t, <2>1, <2>2
  <2> QED BY <2>3 DEF OncePerDate
<1> QED
  BY <1>1, <1>2, <1>3, <1>4, <1>5, <1>6 DEF Next, Restarts, Changes

(* The last slot that has been looked at decides. *)
LEMMA LockKeptStep ==
  ASSUME TypeOK, Punctual, LockKept, [Next]_vars
  PROVE  LockKept'
<1>t. time \in Nat /\ at \in Nat /\ steady \in Nat /\ at <= time /\ steady <= time
  BY SizesAssumption DEF TypeOK
<1>l. /\ ~lost /\ lastTower # NoKey => (locked <=> lastTower.job = "apply")
      /\ \A t \in Asked : (\A u \in Asked : u <= t) => lastTower = TowerKey(schedule, t)
  BY DEF LockKept
<1>s. ASSUME UNCHANGED <<lost, locked, lastTower, schedule>>, Asked' = Asked PROVE LockKept'
  BY <1>l, <1>s DEF LockKept
<1>1. CASE BeginEvaluate
  <2>1. UNCHANGED <<lost, locked, lastTower, schedule, time>>
    BY <1>1 DEF BeginEvaluate, setting, keys, history
  <2>2. \A t \in 0..time : Past(t, AfterTower)' <=> Past(t, AfterTower)
    BY <1>1, PastAtBegin DEF AfterTower
  <2> QED BY <1>s, <2>1, <2>2 DEF Asked
<1>2. CASE CheckReboot \/ RebootFails \/ CheckUpdate \/ UNCHANGED vars
  <2>1. UNCHANGED <<lost, locked, lastTower, schedule, time, at, steady>>
    BY <1>2 DEF CheckReboot, RebootFails, CheckUpdate, NothingDue, vars, clock, setting, keys, history
  <2>2. pc' \in AfterTower <=> pc \in AfterTower
    BY <1>2 DEF CheckReboot, RebootFails, CheckUpdate, NothingDue, AfterTower, vars
  <2>3. \A t \in 0..time : Past(t, AfterTower)' <=> Past(t, AfterTower)
    BY <2>1, <2>2 DEF Past, AfterTower
  <2> QED BY <1>s, <2>1, <2>3 DEF Asked
<1>3. CASE CheckTower
  <2> DEFINE key == TowerKey(schedule, at)
  <2>1. UNCHANGED <<schedule, time, at, steady>> /\ pc = "tower" /\ pc' = "update"
    BY <1>3 DEF CheckTower, NothingDue, clock, setting, history
  <2>2. key # NoKey => lastTower' = key
    BY <1>3 DEF CheckTower, NothingDue, keys
  <2>3. ~lost' /\ lastTower' # NoKey => (locked' <=> lastTower'.job = "apply")
    <3>1. CASE NothingDue(key, lastTower, "update")
      BY <1>l, <3>1 DEF NothingDue, keys, history
    <3>2. CASE lastTower' = key /\ locked' = (key.job = "apply")
      BY <3>2
    <3>3. CASE lost'
      BY <3>3
    <3> QED BY <1>3, <3>1, <3>2, <3>3 DEF CheckTower
  <2>4. \A t \in 0..time : Past(t, AfterTower)' <=> steady < t /\ t <= at
    BY <1>t, <2>1 DEF Past, AfterTower
  <2>5. \A t \in 0..time : Past(t, AfterTower) <=> steady < t /\ t < at
    BY <1>t, <2>1 DEF Past, AfterTower
  <2>6. CASE key = NoKey
    <3>1. UNCHANGED <<lost, locked, lastTower>>
      BY <1>3, <2>6 DEF CheckTower, NothingDue, keys, history
    <3>2. ASSUME NEW t \in 0..time, TowerKey(schedule, t) # NoKey
          PROVE  Past(t, AfterTower)' <=> Past(t, AfterTower)
      <4>1. t # at
        BY <2>6, <3>2
      <4> QED BY <1>t, <2>4, <2>5, <4>1
    <3>3. Asked' = Asked
      BY <2>1, <3>2 DEF Asked
    <3> QED BY <1>s, <2>1, <3>1, <3>3
  <2>7. CASE key # NoKey
    <3>1. ASSUME NEW t \in Asked', \A u \in Asked' : u <= t PROVE lastTower' = TowerKey(schedule, t)
      <4>1. t \in 0..time /\ steady < t /\ t <= at
        BY <2>1, <2>4 DEF Asked
      <4>2. at \in 0..time /\ steady < at
        BY <1>t, <4>1
      <4>3. at \in Asked'
        BY <1>t, <2>1, <2>4, <2>7, <4>2 DEF Asked
      <4>4. at <= t
        BY <3>1, <4>3
      <4>5. t = at
        BY <1>t, <4>1, <4>4
      <4> QED BY <2>2, <2>7, <4>5
    <3> QED BY <2>1, <2>3, <3>1 DEF LockKept
  <2> QED BY <2>6, <2>7
<1>4. CASE Tick
  <2>1. UNCHANGED <<lost, locked, lastTower, schedule, pc, at, steady>> /\ time' = time + 1
    BY <1>4 DEF Tick, setting, keys, history
  <2>2. \A t \in 0..time' : Past(t, AfterTower)' <=> Past(t, AfterTower)
    BY <2>1 DEF Past, AfterTower
  <2>3. \A t \in 0..time' : Past(t, AfterTower) => t \in 0..time
    BY <1>t, <2>1, PastBefore
  <2>4. \A t \in 0..time : t \in 0..time'
    BY <1>t, <2>1
  <2>5. Asked' = Asked
    BY <2>1, <2>2, <2>3, <2>4 DEF Asked
  <2> QED BY <1>s, <2>1, <2>5
<1>5. CASE Restarts
  <2>1. lastTower' = NoKey
    BY <1>5 DEF Restarts, Reboot, RestartProcess, NewScheduler
  <2> QED BY <1>5, <2>1, NothingPast DEF LockKept
<1>6. CASE Changes
  <2>1. UNCHANGED <<lost, locked, lastTower>>
    BY <1>6 DEF Changes, ClockSync, Configure, keys
  <2> QED BY <1>6, <1>l, <2>1, NothingPast DEF LockKept
<1> QED
  BY <1>1, <1>2, <1>3, <1>4, <1>5, <1>6 DEF Next, Restarts, Changes

-----------------------------------------------------------------------------
(* The theorems.                                                           *)

LEMMA InitInv == Init => Inv
<1> SUFFICES ASSUME Init PROVE Inv
  OBVIOUS
<1>1. schedule \in Schedules /\ 0 \in 0..LastTime
  BY SizesAssumption DEF Init
<1>2. NoKey \in Keys
  BY <1>1, KeyTypes
<1>3. TypeOK
  <2>1. time \in 0..LastTime /\ at \in 0..time /\ steady \in 0..time /\ changes \in 0..MaxChanges
    BY SizesAssumption DEF Init
  <2>2. {lastReboot, lastTower, lastUpdate} \subseteq Keys /\ rebooted \in Keys /\ fired = {}
    BY <1>2 DEF Init
  <2>3. fired \subseteq Keys \X (0..time)
    BY <2>2
  <2> QED BY <2>1, <2>2, <2>3 DEF Init, TypeOK
<1>4. \A t \in 0..time : \A places : ~Past(t, places)
  BY DEF Init, Past
<1>5. Asked = {}
  BY <1>4 DEF Asked
<1>6. Punctual
  BY DEF Init, Punctual
<1>7. AllRan
  BY <1>4 DEF Init, AllRan, Ran
<1>8. Remembered /\ OncePerDate
  BY DEF Init, Remembered, OncePerDate
<1>9. LockKept
  BY <1>5 DEF Init, LockKept
<1> QED BY <1>3, <1>6, <1>7, <1>8, <1>9 DEF Inv

(* The invariant holds of every behaviour.                                 *)
THEOREM InvHolds == Spec => []Inv
<1>1. Init => Inv
  BY InitInv
<1>2. Inv /\ [Next]_vars => Inv'
  BY TypeStep, PunctualStep, AllRanStep, RememberedStep, LockKeptStep, OncePerDateStep DEF Inv
<1> QED BY <1>1, <1>2, PTL DEF Spec

(* Every variable keeps to its type: Evaluate's time is never later than   *)
(* the clock, and each key is one of a job of this device.                 *)
THEOREM TypesHold == Spec => []TypeOK
<1>1. Inv => TypeOK
  BY DEF Inv
<1> QED BY <1>1, InvHolds, PTL

(* A process runs a job once on a date while the schedule stays as it is,  *)
(* whatever the time of day and however wide the window, but for a tower   *)
(* command whose window crosses midnight.                                  *)
THEOREM OncePerDateHolds == Spec => []OncePerDate
<1>1. Inv => OncePerDate
  BY DEF Inv
<1> QED BY <1>1, InvHolds, PTL

(* Every job that was due in a slot which passed has run on that date: the *)
(* keys, one of them shared by two commands, hide none.                    *)
THEOREM NoneMissedHolds == Spec => []NoneMissed
<1>1. Inv => NoneMissed
  <2> SUFFICES ASSUME TypeOK, AllRan PROVE NoneMissed
    BY DEF Inv
  <2> SUFFICES ASSUME NEW t \in Seen,
                      NEW key \in {RebootKey(schedule, t), TowerKey(schedule, t),
                                   UpdateKey(schedule, t)} \ {NoKey}
               PROVE  \E f \in fired : f[1] = key
    BY DEF NoneMissed
  <2>1. /\ t \in 0..time
        /\ Past(t, AfterReboot) /\ Past(t, AfterTower) /\ Past(t, {"idle"})
    BY DEF Seen, Past, AfterReboot, AfterTower
  <2>2. Ran(key, fired)
    BY <2>1 DEF AllRan
  <2> QED BY <2>2 DEF Ran
<1> QED BY <1>1, InvHolds, PTL

(* Between two Evaluates the tower lock is what the schedule asked for in  *)
(* the last slot in which it asked for anything, if no command failed.     *)
THEOREM LockHolds == Spec => []LockFollowsSchedule
<1>1. Inv => LockFollowsSchedule
  <2> SUFFICES ASSUME TypeOK, LockKept, ~lost, pc = "idle",
                      NEW t \in {s \in Seen : TowerKey(schedule, s) # NoKey},
                      \A u \in {s \in Seen : TowerKey(schedule, s) # NoKey} : u <= t
               PROVE  locked = (TowerKey(schedule, t).job = "apply")
    BY DEF Inv, LockFollowsSchedule
  <2>1. \A s \in 0..time : s \in Seen <=> Past(s, AfterTower)
    BY DEF Seen, Past, AfterTower
  <2>2. Asked = {s \in Seen : TowerKey(schedule, s) # NoKey}
    BY <2>1 DEF Asked, Seen
  <2>3. lastTower = TowerKey(schedule, t) /\ TowerKey(schedule, t) # NoKey
    BY <2>2 DEF LockKept
  <2>4. locked <=> TowerKey(schedule, t).job = "apply"
    BY <2>3 DEF LockKept
  <2>5. locked \in BOOLEAN
    BY DEF TypeOK
  <2> QED BY <2>4, <2>5
<1> QED BY <1>1, InvHolds, PTL
=============================================================================
