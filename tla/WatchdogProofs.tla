--------------------------- MODULE WatchdogProofs ---------------------------
(***************************************************************************)
(* Proofs about the connection watchdog, for any thresholds, cooldown,     *)
(* window, limit and sets of tiers that the assumptions of Watchdog allow. *)
(***************************************************************************)
EXTENDS Watchdog, FiniteSetTheorems, TLAPS

-----------------------------------------------------------------------------
(* The inductive invariant.                                                *)

Ordered(s) == \A i, j \in 1..Len(s) : i <= j => s[i] <= s[j]

(* The oldest reboots are in front, and the limit holds. *)
TimesOrdered ==
  /\ Ordered(rebootTimes) /\ Ordered(reboots)
  /\ Len(rebootTimes) <= MaxReboots

(* The ladder was climbed rung by rung, as far as the rungs stayed enabled. *)
Climbed ==
  /\ \A t \in eligible : t <= currentTier => t \in tried
  /\ pc = "probing" => eligible \subseteq snap
  /\ pc = "rebooting" => currentTier = 4

(* Each tier that was tried has had its cooldown, but for what is left of  *)
(* the last one.                                                           *)
Paid ==
  /\ uptime >= UptimeBound \/ uptime + cooldown >= Cooldown * Cardinality(tried)
  /\ pc = "probing" => cooldown = 0
  /\ RebootSpacing

(* What may be left of the script of a tier. *)
Rest(tier) ==
  CASE tier = 1 -> {Script[1], <<"CGATT=1">>, <<>>}
    [] tier = 2 -> {Script[2], <<"CFUN=1">>, <<>>}
    [] tier = 3 -> {Script[3], <<"QUIMSLOT", "CFUN=1">>, <<"CFUN=1">>, <<>>}

(* A failover that is past its slot command and has not been noted yet. *)
Switched == pc = "acting" /\ currentTier = 3 /\ todo \in {<<"CFUN=1">>, <<>>}

SlotFollowed ==
  /\ pc = "acting" => currentTier \in 1..3 /\ todo \in Rest(currentTier)
  /\ ~drifted => IF Switched THEN slot = Backup ELSE activeSimSlot = slot

Inv == TypeOK /\ TimesOrdered /\ Climbed /\ Paid /\ SlotFollowed

-----------------------------------------------------------------------------
(* Helpers.                                                                *)

LEMMA LowestOf ==
  ASSUME NEW S, S \subseteq Tiers, S # {}
  PROVE  Lowest(S) \in S /\ \A u \in S : Lowest(S) <= u
<1>1. \A u \in S : u = 1 \/ u = 2 \/ u = 3 \/ u = 4
  BY DEF Tiers
<1>2. \E t \in S : \A u \in S : t <= u
  <2>1. CASE 1 \in S
    BY <1>1, <2>1
  <2>2. CASE 1 \notin S /\ 2 \in S
    BY <1>1, <2>2
  <2>3. CASE 1 \notin S /\ 2 \notin S /\ 3 \in S
    BY <1>1, <2>3
  <2>4. CASE 1 \notin S /\ 2 \notin S /\ 3 \notin S
    BY <1>1, <2>4
  <2> QED BY <2>1, <2>2, <2>3, <2>4
<1> QED BY <1>2 DEF Lowest

(* The next tier is enabled, and no enabled tier between the current one   *)
(* and it is passed over.                                                  *)
LEMMA NextTierOf ==
  ASSUME NEW S, S \subseteq Tiers, NEW c \in 0..4, NextTier(S, c) # 0
  PROVE  /\ NextTier(S, c) \in S
         /\ \A t \in S : t <= NextTier(S, c) => t <= c \/ t = NextTier(S, c)
<1> DEFINE above == {t \in S : t > c}
<1>t. \A t \in S : t \in Int
  BY DEF Tiers
<1>a. \A t : t \in above <=> t \in S /\ t > c
  OBVIOUS
<1>1. CASE above # {}
  <2>1. NextTier(S, c) = Lowest(above)
    BY <1>1 DEF NextTier
  <2>2. Lowest(above) \in above /\ \A u \in above : Lowest(above) <= u
    BY <1>1, LowestOf
  <2> HIDE DEF above
  <2> QED BY <1>t, <1>a, <2>1, <2>2
<1>2. CASE above = {}
  <2>1. S # {} /\ NextTier(S, c) = Lowest(S)
    BY <1>2 DEF NextTier
  <2>2. Lowest(S) \in S /\ \A u \in S : Lowest(S) <= u
    BY <2>1, LowestOf
  <2> HIDE DEF above
  <2> QED BY <1>2, <1>t, <1>a, <2>1, <2>2
<1> QED BY <1>1, <1>2

LEMMA Elements ==
  ASSUME NEW T, NEW s \in Seq(T)
  PROVE  /\ Len(s) \in Nat
         /\ \A i \in 1..Len(s) : s[i] \in T
         /\ \A e \in T : /\ Append(s, e) \in Seq(T)
                         /\ Len(Append(s, e)) = Len(s) + 1
                         /\ Append(s, e)[Len(s) + 1] = e
                         /\ \A i \in 1..Len(s) : Append(s, e)[i] = s[i]
OBVIOUS

(* A tick takes one from every time that is left, and drops the times at   *)
(* the front that have run out: only those.                                *)
LEMMA ElapseOf ==
  ASSUME NEW s \in Seq(1..Window), Ordered(s)
  PROVE  /\ Elapse(s) \in Seq(1..Window)
         /\ Ordered(Elapse(s))
         /\ Len(Elapse(s)) <= Len(s)
<1> DEFINE ones == {i \in 1..Len(s) : s[i] = 1}
           n == Expired(s)
           r == Elapse(s)
<1>1. Len(s) \in Nat /\ \A i \in 1..Len(s) : s[i] \in 1..Window
  BY Elements
<1>2. IsFiniteSet(1..Len(s)) /\ Cardinality(1..Len(s)) = Len(s)
  BY <1>1, FS_Interval
<1>3. IsFiniteSet(ones) /\ n \in Nat /\ n <= Len(s)
  <2>1. ones \subseteq 1..Len(s)
    OBVIOUS
  <2>2. IsFiniteSet(ones) /\ Cardinality(ones) <= Cardinality(1..Len(s))
    BY <1>2, <2>1, FS_Subset
  <2> QED BY <1>2, <2>2, FS_CardinalityType DEF Expired
<1>4. \A j \in ones : j <= n
  <2>1. TAKE j \in ones
  <2>2. 1..j \subseteq ones
    <3>1. \A i \in 1..j : i \in 1..Len(s) /\ s[i] <= s[j] /\ s[i] >= 1
      BY <1>1 DEF Ordered
    <3> QED BY <1>1, <3>1
  <2>3. Cardinality(1..j) = j
    BY <1>1, FS_Interval
  <2>4. Cardinality(1..j) <= Cardinality(ones)
    BY <1>3, <2>2, FS_Subset
  <2> QED BY <2>3, <2>4 DEF Expired
<1>5. \A i \in 1..(Len(s) - n) : i + n \in 1..Len(s) /\ s[i + n] \in 2..Window
  BY <1>1, <1>3, <1>4, NumbersAssumption
<1>6. r = [i \in 1..(Len(s) - n) |-> s[i + n] - 1]
  BY DEF Elapse
<1> HIDE DEF n, r, ones
<1>7. \A i \in 1..(Len(s) - n) : s[i + n] - 1 \in 1..Window
  BY <1>5, NumbersAssumption
<1>8. r \in Seq(1..Window) /\ Len(r) = Len(s) - n
  BY <1>1, <1>3, <1>6, <1>7
<1>9. Ordered(r)
  <2>1. SUFFICES ASSUME NEW i \in 1..Len(r), NEW j \in 1..Len(r), i <= j
                 PROVE  r[i] <= r[j]
    BY DEF Ordered
  <2>2. s[i + n] <= s[j + n]
    BY <1>1, <1>3, <1>5, <1>8, <2>1 DEF Ordered
  <2>3. r[i] = s[i + n] - 1 /\ r[j] = s[j + n] - 1
    BY <1>6, <1>8
  <2>4. s[i + n] \in Int /\ s[j + n] \in Int
    BY <1>5, <1>8
  <2> QED BY <2>2, <2>3, <2>4
<1> QED BY <1>1, <1>3, <1>8, <1>9 DEF r

LEMMA AppendOrdered ==
  ASSUME NEW s \in Seq(1..Window), Ordered(s)
  PROVE  Append(s, Window) \in Seq(1..Window) /\ Ordered(Append(s, Window))
<1>1. Window \in 1..Window
  BY NumbersAssumption
<1>2. /\ Append(s, Window) \in Seq(1..Window)
      /\ Len(s) \in Nat /\ Len(Append(s, Window)) = Len(s) + 1
      /\ Append(s, Window)[Len(s) + 1] = Window
      /\ \A i \in 1..Len(s) : Append(s, Window)[i] = s[i] /\ s[i] \in 1..Window
  BY <1>1, Elements
<1> QED BY <1>2 DEF Ordered

(* Products of the cooldown. *)
LEMMA CooldownTimes ==
  /\ \A a \in Nat : Cooldown * a \in Nat /\ Cooldown * (a + 1) = Cooldown * a + Cooldown
  /\ \A a, b \in Nat : a <= b => Cooldown * a <= Cooldown * b
  /\ UptimeBound = Cooldown * 3 /\ UptimeBound \in Nat
<1>1. Cooldown \in Nat
  BY NumbersAssumption
<1>2. \A a \in Nat : Cooldown * a \in Nat /\ Cooldown * (a + 1) = Cooldown * a + Cooldown
  BY <1>1
<1>3. ASSUME NEW a \in Nat, NEW b \in Nat, a <= b PROVE Cooldown * a <= Cooldown * b
  <2>1. PICK d \in Nat : b = a + d
    BY <1>3
  <2>2. Cooldown * b = Cooldown * a + Cooldown * d /\ Cooldown * d >= 0
    BY <1>1, <2>1
  <2> QED BY <1>1, <1>2, <2>2
<1> QED BY <1>1, <1>2, <1>3 DEF UptimeBound

LEMMA SizeOfTiers ==
  ASSUME NEW S, S \subseteq Tiers
  PROVE  /\ IsFiniteSet(S) /\ Cardinality(S) \in Nat
         /\ IsFiniteSet(S \ {4}) /\ Cardinality(S \ {4}) \in Nat /\ Cardinality(S \ {4}) <= 3
<1>1. IsFiniteSet(1..4) /\ IsFiniteSet(1..3) /\ Cardinality(1..3) = 3
  <2>1. ASSUME NEW b \in Int, b > 0
        PROVE  IsFiniteSet(1..b) /\ Cardinality(1..b) = b
    <3>1. 1 \in Int /\ ~(1 > b) /\ b - 1 + 1 = b
      BY <2>1
    <3>2. Cardinality(1..b) = IF 1 > b THEN 0 ELSE b - 1 + 1
      BY <3>1, FS_Interval
    <3> QED BY <3>1, <3>2, FS_Interval
  <2>2. 3 \in Int /\ 3 > 0 /\ 4 \in Int /\ 4 > 0
    OBVIOUS
  <2> QED BY <2>1, <2>2, Zenon
<1>2. S \subseteq 1..4 /\ S \ {4} \subseteq 1..3
  BY DEF Tiers
<1>3. IsFiniteSet(S) /\ IsFiniteSet(S \ {4}) /\ Cardinality(S \ {4}) <= Cardinality(1..3)
  BY <1>1, <1>2, FS_Subset
<1> QED BY <1>1, <1>3, FS_CardinalityType

LEMMA NoneTried == \A u, c \in Nat : u + c >= Cooldown * Cardinality({})
<1>1. Cardinality({}) = 0
  BY FS_EmptySet
<1> QED BY <1>1, NumbersAssumption

(* What a command leaves of a script: a failover is switched by its slot   *)
(* command, and no other tier has one.                                     *)
LEMMA RestOf ==
  ASSUME NEW tier \in 1..3, NEW s \in Rest(tier), s # <<>>
  PROVE  /\ Tail(s) \in Rest(tier)
         /\ Head(s) = "QUIMSLOT" => tier = 3 /\ Tail(s) \in {<<"CFUN=1">>, <<>>}
         /\ Head(s) # "QUIMSLOT" /\ tier = 3
              => (Tail(s) \in {<<"CFUN=1">>, <<>>} <=> s \in {<<"CFUN=1">>, <<>>})
<1>1. CASE tier = 1
  <2>1. s = <<"CGATT=0", "CGATT=1">> \/ s = <<"CGATT=1">>
    BY <1>1 DEF Rest, Script
  <2>2. {<<"CGATT=1">>, <<>>} \subseteq Rest(tier)
    BY <1>1 DEF Rest
  <2>3. CASE s = <<"CGATT=0", "CGATT=1">>
    <3>1. Head(s) = "CGATT=0" /\ Tail(s) = <<"CGATT=1">>
      BY <2>3
    <3>2. Head(s) # "QUIMSLOT" /\ Tail(s) \in Rest(tier)
      BY <2>2, <3>1
    <3> QED BY <1>1, <3>2
  <2>4. CASE s = <<"CGATT=1">>
    <3>1. Head(s) = "CGATT=1" /\ Tail(s) = <<>>
      BY <2>4
    <3>2. Head(s) # "QUIMSLOT" /\ Tail(s) \in Rest(tier)
      BY <2>2, <3>1
    <3> QED BY <1>1, <3>2
  <2> QED BY <2>1, <2>3, <2>4
<1>2. CASE tier = 2
  <2>1. s = <<"CFUN=0", "CFUN=1">> \/ s = <<"CFUN=1">>
    BY <1>2 DEF Rest, Script
  <2>2. {<<"CFUN=1">>, <<>>} \subseteq Rest(tier)
    BY <1>2 DEF Rest
  <2>3. CASE s = <<"CFUN=0", "CFUN=1">>
    <3>1. Head(s) = "CFUN=0" /\ Tail(s) = <<"CFUN=1">>
      BY <2>3
    <3>2. Head(s) # "QUIMSLOT" /\ Tail(s) \in Rest(tier)
      BY <2>2, <3>1
    <3> QED BY <1>2, <3>2
  <2>4. CASE s = <<"CFUN=1">>
    <3>1. Head(s) = "CFUN=1" /\ Tail(s) = <<>>
      BY <2>4
    <3>2. Head(s) # "QUIMSLOT" /\ Tail(s) \in Rest(tier)
      BY <2>2, <3>1
    <3> QED BY <1>2, <3>2
  <2> QED BY <2>1, <2>3, <2>4
<1>3. CASE tier = 3
  <2>1. Rest(3) = {<<"CFUN=0", "QUIMSLOT", "CFUN=1">>, <<"QUIMSLOT", "CFUN=1">>, <<"CFUN=1">>, <<>>}
    BY DEF Rest, Script
  <2>2. CASE s = <<"CFUN=0", "QUIMSLOT", "CFUN=1">>
    <3>1. Head(s) = "CFUN=0" /\ Tail(s) = <<"QUIMSLOT", "CFUN=1">> /\ Len(s) = 3
      BY <2>2
    <3>2. Len(<<"QUIMSLOT", "CFUN=1">>) = 2 /\ Len(<<"CFUN=1">>) = 1 /\ Len(<<>>) = 0
      OBVIOUS
    <3>3. s \notin {<<"CFUN=1">>, <<>>} /\ Tail(s) \notin {<<"CFUN=1">>, <<>>}
      BY <3>1, <3>2
    <3> QED BY <1>3, <2>1, <3>1, <3>3
  <2>3. CASE s = <<"QUIMSLOT", "CFUN=1">>
    <3>1. Head(s) = "QUIMSLOT" /\ Tail(s) = <<"CFUN=1">>
      BY <2>3
    <3> QED BY <1>3, <2>1, <3>1
  <2>4. CASE s = <<"CFUN=1">>
    <3>1. Head(s) = "CFUN=1" /\ Tail(s) = <<>>
      BY <2>4
    <3> QED BY <1>3, <2>1, <2>4, <3>1
  <2> QED BY <1>3, <2>1, <2>2, <2>3, <2>4
<1> QED BY <1>1, <1>2, <1>3

-----------------------------------------------------------------------------
(* The steps.                                                              *)

(* What a new process starts with. *)
LEMMA NewTypes ==
  ASSUME TypeOK, NewWatchdog
  PROVE  /\ enabled' \in BOOLEAN /\ tiers' \in Configs /\ pc' = "idle" /\ snap' \subseteq Tiers
         /\ failures' \in 0..(Threshold - 1) /\ currentTier' \in 0..4
         /\ activeSimSlot' \in {1, Backup} /\ slot' \in {1, Backup}
         /\ failoverActive' \in BOOLEAN /\ cooldown' \in 0..Cooldown
         /\ rebootTimes' \in Seq(1..Window) /\ todo' \in Seq(Commands)
         /\ tried' \subseteq Tiers /\ eligible' \subseteq Tiers
         /\ uptime' \in 0..UptimeBound /\ drifted' \in BOOLEAN
<1>1. UptimeBound \in Nat /\ <<>> \in Seq(1..Window) /\ <<>> \in Seq(Commands)
  BY CooldownTimes
<1>2. failures' \in 0..(Threshold - 1) /\ currentTier' \in 0..4 /\ cooldown' \in 0..Cooldown
  BY NumbersAssumption DEF NewWatchdog
<1>3. uptime' \in 0..UptimeBound
  BY <1>1 DEF NewWatchdog
<1>4. drifted' \in BOOLEAN
  BY DEF NewWatchdog, TypeOK
<1> QED BY <1>1, <1>2, <1>3, <1>4 DEF NewWatchdog, OutageOver, TypeOK, config

(* Every step keeps the types.  The times of the reboots are below.        *)
LEMMA TypeStep ==
  ASSUME Inv, [Next]_vars
  PROVE  TypeOK'
<1> USE DEF Inv
<1>1. CASE CheckDisabled
  BY <1>1, NumbersAssumption, BackupAssumption DEF CheckDisabled, OutageOver, TypeOK, Tiers,
     config, memory, modem, history
<1>2. CASE BeginCheck
  <2>1. tiers \subseteq Tiers
    BY ConfigsAssumption DEF TypeOK
  <2> QED BY <1>2, <2>1 DEF BeginCheck, TypeOK, config, memory, modem
<1>3. CASE ProbeSucceeds
  BY <1>3, NumbersAssumption, BackupAssumption DEF ProbeSucceeds, OutageOver, TypeOK, Tiers,
     config, memory, modem, history
<1>4. CASE ProbeFails
  BY <1>4, NumbersAssumption, BackupAssumption DEF ProbeFails, TypeOK, Tiers, config,
     memory, modem, history
<1>5. ASSUME NEW tier \in Tiers, Escalate(tier)
      PROVE  TypeOK'
  <2>1. Script[1] \in Seq(Commands) /\ Script[2] \in Seq(Commands) /\ Script[3] \in Seq(Commands)
    BY DEF Script, Commands
  <2>2. todo' \in Seq(Commands)
    BY <1>5, <2>1 DEF Escalate, TypeOK
  <2>3. rebootTimes' \in Seq(1..Window)
    BY <1>5, AppendOrdered DEF Escalate, TypeOK, TimesOrdered
  <2>4. pc' \in {"idle", "acting", "rebooting"} /\ tier \in 0..4 /\ tier \in Tiers
    BY <1>5 DEF Escalate, Tiers
  <2>5. /\ failures' \in 0..(Threshold - 1) /\ currentTier' \in 0..4
        /\ cooldown' \in 0..Cooldown
    <3>1. failures' = 0 /\ currentTier' = tier /\ cooldown' = Cooldown
      BY <1>5 DEF Escalate
    <3> QED BY <2>4, <3>1, NumbersAssumption
  <2>6. tried' \subseteq Tiers
    BY <1>5 DEF Escalate, TypeOK
  <2> QED BY <1>5, <2>2, <2>3, <2>4, <2>5, <2>6 DEF Escalate, TypeOK, config, modem
<1>6. CASE FinishAction
  BY <1>6, NumbersAssumption, BackupAssumption DEF FinishAction, TypeOK, Tiers, config,
     memory, modem, history
<1>7. CASE RebootFails
  BY <1>7, NumbersAssumption, BackupAssumption DEF RebootFails, TypeOK, Tiers, config,
     memory, modem, history
<1>8. CASE Reboot
  <2>1. reboots' \in Seq(1..Window)
    BY <1>8, AppendOrdered DEF Reboot, TypeOK, TimesOrdered
  <2> QED BY <1>8, <2>1, NewTypes DEF Reboot, TypeOK
<1>9. ASSUME NEW cmd \in Commands, Executed(cmd)
      PROVE  TypeOK'
  <2>1. todo' \in Seq(Commands)
    BY <1>9 DEF Executed, TypeOK
  <2>2. radio' \in {"up", "detached", "off"} /\ slot' \in {1, Backup}
    BY <1>9 DEF Executed, Effect, TypeOK, Commands
  <2> QED BY <1>9, <2>1, <2>2 DEF Executed, TypeOK, config, memory, history
<1>10. ASSUME NEW cmd \in Commands, Lost(cmd)
      PROVE  TypeOK'
  <2>1. todo' \in Seq(Commands)
    BY <1>10 DEF Lost, TypeOK
  <2> QED BY <1>10, <2>1 DEF Lost, TypeOK, config, memory, modem
<1>11. CASE RestartProcess
  BY <1>11, NewTypes DEF RestartProcess, TypeOK
<1>12. CASE RestartDevice
  BY <1>12, NewTypes DEF RestartDevice, TypeOK
<1>13. CASE ClockSync
  BY <1>13, NumbersAssumption, BackupAssumption DEF ClockSync, TypeOK, Tiers, config,
     memory, modem, history
<1>14. CASE Tick
  <2>1. rebootTimes' \in Seq(1..Window) /\ reboots' \in Seq(1..Window)
    BY <1>14, ElapseOf DEF Tick, TypeOK, TimesOrdered
  <2>2. cooldown' \in 0..Cooldown
    BY <1>14, NumbersAssumption DEF Tick, TypeOK
  <2>3. uptime' \in 0..UptimeBound
    <3>1. uptime \in 0..UptimeBound /\ UptimeBound \in Nat
      BY CooldownTimes DEF TypeOK
    <3>2. uptime' = IF uptime < UptimeBound THEN uptime + 1 ELSE uptime
      BY <1>14 DEF Tick
    <3> HIDE DEF Inv
    <3> QED BY <3>1, <3>2
  <2> QED BY <1>14, <2>1, <2>2, <2>3 DEF Tick, TypeOK, config, modem
<1>15. ASSUME NEW on \in BOOLEAN, NEW set \in Configs, Configure(on, set)
       PROVE  TypeOK'
  BY <1>15, NumbersAssumption, BackupAssumption DEF Configure, TypeOK, Tiers, config,
     memory, modem, history
<1>16. CASE RevertSim
  BY <1>16, NumbersAssumption, BackupAssumption DEF RevertSim, TypeOK, Tiers, config,
     memory, modem, history
<1>17. CASE UNCHANGED vars
  BY <1>17 DEF vars, TypeOK, Tiers, config, memory, modem, history
<1> QED
  BY <1>1, <1>2, <1>3, <1>4, <1>5, <1>6, <1>7, <1>8, <1>9, <1>10, <1>11, <1>12, <1>13,
     <1>14, <1>15, <1>16, <1>17 DEF Next, Check

(* The oldest reboots stay in front, and no reboot is added at the limit.  *)
LEMMA TimesStep ==
  ASSUME Inv, [Next]_vars
  PROVE  TimesOrdered'
<1> USE DEF Inv
<1>1. CASE CheckDisabled
  BY <1>1 DEF CheckDisabled, OutageOver, TimesOrdered, TypeOK, config, memory, modem,
     history
<1>2. CASE BeginCheck
  BY <1>2 DEF BeginCheck, TimesOrdered, TypeOK, config, memory, modem, history
<1>3. CASE ProbeSucceeds
  BY <1>3 DEF ProbeSucceeds, OutageOver, TimesOrdered, TypeOK, config, memory, modem,
     history
<1>4. CASE ProbeFails
  BY <1>4 DEF ProbeFails, TimesOrdered, TypeOK, config, memory, modem, history
<1>5. ASSUME NEW tier \in Tiers, Escalate(tier)
      PROVE  TimesOrdered'
  <2>1. CASE UNCHANGED rebootTimes
    BY <1>5, <2>1 DEF Escalate, TimesOrdered
  <2>2. CASE ~LimitReached /\ rebootTimes' = Append(rebootTimes, Window)
    <3>1. Len(rebootTimes') = Len(rebootTimes) + 1 /\ Len(rebootTimes) \in Nat
      BY <2>2, NumbersAssumption DEF TypeOK
    <3>2. Len(rebootTimes) < MaxReboots
      BY <2>2, <3>1, NumbersAssumption DEF LimitReached
    <3>3. Ordered(rebootTimes')
      BY <2>2, AppendOrdered DEF TypeOK, TimesOrdered
    <3> QED BY <1>5, <3>1, <3>2, <3>3, NumbersAssumption DEF Escalate, TimesOrdered
  <2> QED BY <1>5, <2>1, <2>2 DEF Escalate
<1>6. CASE FinishAction
  BY <1>6 DEF FinishAction, TimesOrdered, TypeOK, config, memory, modem, history
<1>7. CASE RebootFails
  BY <1>7 DEF RebootFails, TimesOrdered, TypeOK, config, memory, modem, history
<1>8. CASE Reboot
  <2>1. Ordered(reboots') /\ Ordered(<<>>)
    BY <1>8, AppendOrdered DEF Reboot, TypeOK, TimesOrdered, Ordered
  <2> QED BY <1>8, <2>1, NumbersAssumption DEF Reboot, NewWatchdog, TimesOrdered
<1>9. ASSUME NEW cmd \in Commands, Executed(cmd)
      PROVE  TimesOrdered'
  BY <1>9 DEF Executed, Effect, TimesOrdered, TypeOK, config, memory, modem, history
<1>10. ASSUME NEW cmd \in Commands, Lost(cmd)
      PROVE  TimesOrdered'
  BY <1>10 DEF Lost, TimesOrdered, TypeOK, config, memory, modem, history
<1>11. CASE RestartProcess
  BY <1>11, NumbersAssumption DEF RestartProcess, NewWatchdog, TimesOrdered, Ordered
<1>12. CASE RestartDevice
  BY <1>12, NumbersAssumption DEF RestartDevice, NewWatchdog, TimesOrdered, Ordered
<1>13. CASE ClockSync
  BY <1>13 DEF ClockSync, TimesOrdered, TypeOK, config, memory, modem, history
<1>14. CASE Tick
  <2>1. Ordered(rebootTimes') /\ Ordered(reboots') /\ Len(rebootTimes') <= Len(rebootTimes)
    BY <1>14, ElapseOf DEF Tick, TypeOK, TimesOrdered
  <2>2. rebootTimes' \in Seq(1..Window)
    BY <1>14, ElapseOf DEF Tick, TypeOK, TimesOrdered
  <2>3. Len(rebootTimes) \in Nat /\ Len(rebootTimes') \in Nat
    BY <2>2, Elements DEF TypeOK
  <2> QED BY <2>1, <2>3, NumbersAssumption DEF TimesOrdered
<1>15. ASSUME NEW on \in BOOLEAN, NEW set \in Configs, Configure(on, set)
       PROVE  TimesOrdered'
  BY <1>15 DEF Configure, TimesOrdered, TypeOK, config, memory, modem, history
<1>16. CASE RevertSim
  BY <1>16 DEF RevertSim, TimesOrdered, TypeOK, config, memory, modem, history
<1>17. CASE UNCHANGED vars
  BY <1>17 DEF vars, TimesOrdered, TypeOK, config, memory, modem, history
<1> QED
  BY <1>1, <1>2, <1>3, <1>4, <1>5, <1>6, <1>7, <1>8, <1>9, <1>10, <1>11, <1>12, <1>13,
     <1>14, <1>15, <1>16, <1>17 DEF Next, Check

(* Every step climbs the ladder rung by rung.                              *)
LEMMA ClimbStep ==
  ASSUME Inv, [Next]_vars
  PROVE  Climbed'
<1> USE DEF Inv
<1>1. CASE CheckDisabled
  BY <1>1 DEF CheckDisabled, OutageOver, Climbed, TypeOK, Tiers, config, memory, modem,
     history
<1>2. CASE BeginCheck
  BY <1>2 DEF BeginCheck, Climbed, TypeOK, Tiers, config, memory, modem, history
<1>3. CASE ProbeSucceeds
  BY <1>3 DEF ProbeSucceeds, OutageOver, Climbed, TypeOK, Tiers, config, memory, modem,
     history
<1>4. CASE ProbeFails
  BY <1>4 DEF ProbeFails, Climbed, TypeOK, Tiers, config, memory, modem, history
<1>5. ASSUME NEW tier \in Tiers, Escalate(tier)
      PROVE  Climbed'
  <2>1. snap \subseteq Tiers /\ currentTier \in 0..4 /\ eligible \subseteq snap
    BY <1>5 DEF Escalate, TypeOK, Climbed
  <2>2. tier \in snap /\ \A t \in snap : t <= tier => t <= currentTier \/ t = tier
    <3>1. tier = NextTier(snap, currentTier) /\ tier # 0
      BY <1>5 DEF Escalate, Tiers
    <3> QED BY <2>1, <3>1, NextTierOf
  <2>3. currentTier' = tier /\ eligible' = eligible /\ tried' = tried \cup {tier}
    BY <1>5 DEF Escalate
  <2>4. \A t \in eligible' : t <= currentTier' => t \in tried'
    BY <2>1, <2>2, <2>3 DEF Climbed
  <2>5. pc' # "probing" /\ (pc' = "rebooting" => tier = 4)
    BY <1>5 DEF Escalate
  <2> QED BY <2>3, <2>4, <2>5 DEF Climbed
<1>6. CASE FinishAction
  BY <1>6 DEF FinishAction, Climbed, TypeOK, Tiers, config, memory, modem, history
<1>7. CASE RebootFails
  BY <1>7 DEF RebootFails, Climbed, TypeOK, Tiers, config, memory, modem, history
<1>8. CASE Reboot
  BY <1>8 DEF Reboot, NewWatchdog, OutageOver, Climbed, TypeOK, Tiers, config, memory,
     modem, history
<1>9. ASSUME NEW cmd \in Commands, Executed(cmd)
      PROVE  Climbed'
  BY <1>9 DEF Executed, Effect, Climbed, TypeOK, Tiers, config, memory, modem, history
<1>10. ASSUME NEW cmd \in Commands, Lost(cmd)
      PROVE  Climbed'
  BY <1>10 DEF Lost, Climbed, TypeOK, Tiers, config, memory, modem, history
<1>11. CASE RestartProcess
  BY <1>11 DEF RestartProcess, NewWatchdog, OutageOver, Climbed, TypeOK, Tiers, config,
     memory, modem, history
<1>12. CASE RestartDevice
  BY <1>12 DEF RestartDevice, NewWatchdog, OutageOver, Climbed, TypeOK, Tiers, config,
     memory, modem, history
<1>13. CASE ClockSync
  BY <1>13 DEF ClockSync, Climbed, TypeOK, Tiers, config, memory, modem, history
<1>14. CASE Tick
  BY <1>14 DEF Tick, Climbed, TypeOK, Tiers, config, memory, modem, history
<1>15. ASSUME NEW on \in BOOLEAN, NEW set \in Configs, Configure(on, set)
       PROVE  Climbed'
  BY <1>15 DEF Configure, Climbed, TypeOK, Tiers, config, memory, modem, history
<1>16. CASE RevertSim
  BY <1>16 DEF RevertSim, Climbed, TypeOK, Tiers, config, memory, modem, history
<1>17. CASE UNCHANGED vars
  BY <1>17 DEF vars, Climbed, TypeOK, Tiers, config, memory, modem, history
<1> QED
  BY <1>1, <1>2, <1>3, <1>4, <1>5, <1>6, <1>7, <1>8, <1>9, <1>10, <1>11, <1>12, <1>13,
     <1>14, <1>15, <1>16, <1>17 DEF Next, Check

LEMMA NothingOwed ==
  ASSUME Inv, [Next]_vars, tried' = {}
  PROVE  uptime' >= UptimeBound \/ uptime' + cooldown' >= Cooldown * Cardinality(tried')
<1>1. uptime' \in Nat /\ cooldown' \in Nat
  BY TypeStep, CooldownTimes, NumbersAssumption DEF TypeOK
<1> QED BY <1>1, NoneTried

(* Every step keeps the account of the cooldowns.                          *)
LEMMA PaidStep ==
  ASSUME Inv, [Next]_vars
  PROVE  Paid'
<1> USE DEF Inv
<1>1. CASE CheckDisabled
  BY <1>1, NothingOwed DEF CheckDisabled, OutageOver, Paid, RebootSpacing
<1>2. CASE BeginCheck
  <2>1. pc' = "probing" => cooldown = 0
    BY <1>2 DEF BeginCheck, TypeOK
  <2> QED BY <1>2, <2>1 DEF BeginCheck, Paid, RebootSpacing, memory
<1>3. CASE ProbeSucceeds
  BY <1>3, NothingOwed DEF ProbeSucceeds, OutageOver, Paid, RebootSpacing
<1>4. CASE ProbeFails
  BY <1>4 DEF ProbeFails, Paid, RebootSpacing, TypeOK, config, memory, modem, history
<1>5. ASSUME NEW tier \in Tiers, Escalate(tier)
      PROVE  Paid'
  <2> DEFINE owed == Cooldown * Cardinality(tried)
             now == Cooldown * Cardinality(tried')
             ripe == Cooldown * Cardinality(eligible \ {4})
  <2>1. /\ IsFiniteSet(tried) /\ Cardinality(tried) \in Nat /\ Cardinality(tried') \in Nat
        /\ Cardinality(tried') <= Cardinality(tried) + 1
        /\ Cardinality(eligible \ {4}) \in Nat /\ Cardinality(eligible \ {4}) <= 3
    <3>1. tried \subseteq Tiers /\ eligible \subseteq Tiers /\ tried' = tried \cup {tier}
      BY <1>5 DEF Escalate, TypeOK
    <3>2. IsFiniteSet(tried) /\ Cardinality(tried) \in Nat
      BY <3>1, SizeOfTiers
    <3>3. Cardinality(tried') \in Nat /\ Cardinality(tried') <= Cardinality(tried) + 1
      <4>1. Cardinality(tried \cup {tier})
              = IF tier \in tried THEN Cardinality(tried) ELSE Cardinality(tried) + 1
        BY <3>2, FS_AddElement
      <4> QED BY <3>1, <3>2, <4>1
    <3>4. Cardinality(eligible \ {4}) \in Nat /\ Cardinality(eligible \ {4}) <= 3
      BY <3>1, SizeOfTiers
    <3> QED BY <3>2, <3>3, <3>4
  <2>2. now <= owed + Cooldown /\ now \in Nat /\ owed \in Nat /\ ripe \in Nat
    <3>1. Cardinality(tried) + 1 \in Nat
      BY <2>1
    <3> QED BY <2>1, <3>1, CooldownTimes
  <2>3. ripe <= UptimeBound /\ UptimeBound \in Nat
    BY <2>1, CooldownTimes
  <2>4. uptime \in Nat /\ (uptime >= UptimeBound \/ uptime >= owed)
    BY <1>5, <2>2, <2>3 DEF Escalate, Paid, TypeOK
  <2>5. pc' = "rebooting" => ripe <= owed
    <3>1. SUFFICES ASSUME pc' = "rebooting" PROVE ripe <= owed
      OBVIOUS
    <3>2. eligible \ {4} \subseteq tried
      BY <1>5, <3>1, ClimbStep DEF Climbed, Escalate, TypeOK, Tiers
    <3>3. Cardinality(eligible \ {4}) <= Cardinality(tried)
      BY <2>1, <3>2, FS_Subset
    <3> QED BY <2>1, <3>3, CooldownTimes
  <2>6. uptime' = uptime /\ cooldown' = Cooldown /\ pc' # "probing" /\ eligible' = eligible
    BY <1>5 DEF Escalate
  <2> HIDE DEF Inv, owed, now, ripe
  <2>7. uptime' >= UptimeBound \/ uptime' + cooldown' >= now
    BY <2>2, <2>3, <2>4, <2>6, NumbersAssumption
  <2>8. pc' = "rebooting" => uptime' >= ripe
    BY <2>2, <2>3, <2>4, <2>5, <2>6
  <2> QED BY <2>6, <2>7, <2>8 DEF now, ripe, Paid, RebootSpacing
<1>6. CASE FinishAction
  BY <1>6 DEF FinishAction, Paid, RebootSpacing, TypeOK, config, memory, modem, history
<1>7. CASE RebootFails
  BY <1>7 DEF RebootFails, Paid, RebootSpacing, TypeOK, config, memory, modem, history
<1>8. CASE Reboot
  BY <1>8, NothingOwed DEF Reboot, NewWatchdog, OutageOver, Paid, RebootSpacing
<1>9. ASSUME NEW cmd \in Commands, Executed(cmd)
      PROVE  Paid'
  BY <1>9 DEF Executed, Effect, Paid, RebootSpacing, TypeOK, config, memory, modem, history
<1>10. ASSUME NEW cmd \in Commands, Lost(cmd)
      PROVE  Paid'
  BY <1>10 DEF Lost, Paid, RebootSpacing, TypeOK, config, memory, modem, history
<1>11. CASE RestartProcess
  BY <1>11, NothingOwed DEF RestartProcess, NewWatchdog, OutageOver, Paid, RebootSpacing
<1>12. CASE RestartDevice
  BY <1>12, NothingOwed DEF RestartDevice, NewWatchdog, OutageOver, Paid, RebootSpacing
<1>13. CASE ClockSync
  BY <1>13 DEF ClockSync, Paid, RebootSpacing, TypeOK, config, memory, modem, history
<1>14. CASE Tick
  <2> DEFINE owed == Cooldown * Cardinality(tried)
             ripe == Cooldown * Cardinality(eligible \ {4})
  <2>1. owed \in Nat /\ ripe \in Nat /\ UptimeBound \in Nat
    BY SizeOfTiers, CooldownTimes DEF TypeOK
  <2>2. uptime \in 0..UptimeBound /\ cooldown \in Nat
    BY NumbersAssumption DEF TypeOK
  <2>3. /\ uptime' = IF uptime < UptimeBound THEN uptime + 1 ELSE uptime
        /\ cooldown' = IF cooldown > 0 THEN cooldown - 1 ELSE 0
        /\ pc' = pc /\ pc # "probing" /\ tried' = tried /\ eligible' = eligible
    BY <1>14 DEF Tick
  <2>4. /\ uptime >= UptimeBound \/ uptime + cooldown >= owed
        /\ pc = "rebooting" => uptime >= ripe
    BY DEF Paid, RebootSpacing
  <2> HIDE DEF Inv, owed, ripe
  <2>5. uptime' >= UptimeBound \/ uptime' + cooldown' >= owed
    BY <2>1, <2>2, <2>3, <2>4
  <2>6. pc = "rebooting" => uptime' >= ripe
    BY <2>1, <2>2, <2>3, <2>4
  <2> QED BY <2>3, <2>5, <2>6 DEF owed, ripe, Paid, RebootSpacing
<1>15. ASSUME NEW on \in BOOLEAN, NEW set \in Configs, Configure(on, set)
       PROVE  Paid'
  BY <1>15 DEF Configure, Paid, RebootSpacing, TypeOK, config, memory, modem, history
<1>16. CASE RevertSim
  BY <1>16 DEF RevertSim, Paid, RebootSpacing, TypeOK, config, memory, modem, history
<1>17. CASE UNCHANGED vars
  BY <1>17 DEF vars, Paid, RebootSpacing, TypeOK, config, memory, modem, history
<1> QED
  BY <1>1, <1>2, <1>3, <1>4, <1>5, <1>6, <1>7, <1>8, <1>9, <1>10, <1>11, <1>12, <1>13,
     <1>14, <1>15, <1>16, <1>17 DEF Next, Check

(* Every step keeps the noted slot in step with the modem.                 *)
LEMMA SlotStep ==
  ASSUME Inv, [Next]_vars
  PROVE  SlotFollowed'
<1> USE DEF Inv
<1>1. CASE CheckDisabled
  BY <1>1 DEF CheckDisabled, OutageOver, SlotFollowed, Switched, config, memory, modem,
     history
<1>2. CASE BeginCheck
  BY <1>2 DEF BeginCheck, SlotFollowed, Switched, config, memory, modem, history
<1>3. CASE ProbeSucceeds
  BY <1>3 DEF ProbeSucceeds, OutageOver, SlotFollowed, Switched, config, memory, modem,
     history
<1>4. CASE ProbeFails
  BY <1>4 DEF ProbeFails, SlotFollowed, Switched, config, memory, modem, history
<1>5. ASSUME NEW tier \in Tiers, Escalate(tier)
      PROVE  SlotFollowed'
  <2>1. pc' = "acting" => tier \in 1..3 /\ todo' \in Rest(tier)
    BY <1>5 DEF Escalate, Rest
  <2>2. ~Switched /\ ~Switched'
    BY <1>5 DEF Escalate, Switched, Script
  <2> QED BY <1>5, <2>1, <2>2 DEF Escalate, SlotFollowed, modem
<1>6. CASE FinishAction
  <2>1. Switched <=> currentTier = 3
    BY <1>6 DEF FinishAction, Switched
  <2> QED BY <1>6, <2>1 DEF FinishAction, SlotFollowed, Switched, modem, history
<1>7. CASE RebootFails
  BY <1>7 DEF RebootFails, SlotFollowed, Switched, config, memory, modem, history
<1>8. CASE Reboot
  BY <1>8 DEF Reboot, NewWatchdog, OutageOver, SlotFollowed, Switched, config, memory,
     modem, history
<1>9. ASSUME NEW cmd \in Commands, Executed(cmd)
      PROVE  SlotFollowed'
  <2>1. currentTier \in 1..3 /\ todo \in Rest(currentTier) /\ pc = "acting"
    BY <1>9 DEF Executed, SlotFollowed
  <2>2. UNCHANGED <<pc, currentTier, activeSimSlot, drifted>> /\ todo' = Tail(todo) /\ cmd = Head(todo)
    BY <1>9 DEF Executed, memory, history
  <2>3. todo' \in Rest(currentTier)
    BY <1>9, <2>1, <2>2, RestOf DEF Executed
  <2>4. cmd = "QUIMSLOT" => slot' = Backup
    BY <1>9 DEF Executed, Effect
  <2>5. cmd # "QUIMSLOT" => slot' = slot
    BY <1>9 DEF Executed, Effect, Commands
  <2>6. cmd = "QUIMSLOT" => Switched'
    BY <1>9, <2>1, <2>2, RestOf DEF Executed, Switched
  <2>7. cmd # "QUIMSLOT" => (Switched' <=> Switched)
    BY <1>9, <2>1, <2>2, RestOf DEF Executed, Switched
  <2> QED BY <2>1, <2>2, <2>3, <2>4, <2>5, <2>6, <2>7 DEF SlotFollowed
<1>10. ASSUME NEW cmd \in Commands, Lost(cmd)
      PROVE  SlotFollowed'
  <2>1. currentTier \in 1..3 /\ todo \in Rest(currentTier) /\ pc = "acting"
    BY <1>10 DEF Lost, SlotFollowed
  <2>2. UNCHANGED <<pc, currentTier, activeSimSlot, slot>> /\ todo' = Tail(todo) /\ cmd = Head(todo)
    BY <1>10 DEF Lost, memory, modem
  <2>3. todo' \in Rest(currentTier)
    BY <1>10, <2>1, <2>2, RestOf DEF Lost
  <2>4. ~drifted' => ~drifted /\ cmd # "QUIMSLOT"
    BY <1>10 DEF Lost, TypeOK
  <2>5. cmd # "QUIMSLOT" => (Switched' <=> Switched)
    BY <1>10, <2>1, <2>2, RestOf DEF Lost, Switched
  <2> QED BY <2>1, <2>2, <2>3, <2>4, <2>5 DEF SlotFollowed
<1>11. CASE RestartProcess
  BY <1>11 DEF RestartProcess, NewWatchdog, OutageOver, SlotFollowed, Switched, config,
     memory, modem, history
<1>12. CASE RestartDevice
  BY <1>12 DEF RestartDevice, NewWatchdog, OutageOver, SlotFollowed, Switched, config,
     memory, modem, history
<1>13. CASE ClockSync
  BY <1>13 DEF ClockSync, SlotFollowed, Switched, config, memory, modem, history
<1>14. CASE Tick
  BY <1>14 DEF Tick, SlotFollowed, Switched, config, memory, modem, history
<1>15. ASSUME NEW on \in BOOLEAN, NEW set \in Configs, Configure(on, set)
       PROVE  SlotFollowed'
  BY <1>15 DEF Configure, SlotFollowed, Switched, config, memory, modem, history
<1>16. CASE RevertSim
  BY <1>16 DEF RevertSim, SlotFollowed, Switched, config, memory, modem, history
<1>17. CASE UNCHANGED vars
  BY <1>17 DEF vars, SlotFollowed, Switched, config, memory, modem, history
<1> QED
  BY <1>1, <1>2, <1>3, <1>4, <1>5, <1>6, <1>7, <1>8, <1>9, <1>10, <1>11, <1>12, <1>13,
     <1>14, <1>15, <1>16, <1>17 DEF Next, Check

-----------------------------------------------------------------------------
(* The theorems.                                                           *)

LEMMA InitInv == Init => Inv
<1> SUFFICES ASSUME Init PROVE Inv
  OBVIOUS
<1> USE DEF Init
<1>1. UptimeBound \in Nat /\ <<>> \in Seq(1..Window) /\ <<>> \in Seq(Commands)
  BY CooldownTimes
<1>2. 0 \in 0..(Threshold - 1) /\ 0 \in 0..Cooldown /\ 0 \in 0..UptimeBound
  BY <1>1, NumbersAssumption
<1>3. TypeOK
  <2>1. activeSimSlot \in {1, Backup} /\ slot \in {1, Backup} /\ currentTier \in 0..4
    OBVIOUS
  <2> QED BY <1>1, <1>2, <2>1 DEF TypeOK
<1>4. TimesOrdered
  BY NumbersAssumption DEF TimesOrdered, Ordered
<1>5. Climbed /\ SlotFollowed
  BY DEF Climbed, SlotFollowed, Switched, Tiers
<1>6. Paid
  BY NoneTried DEF Paid, RebootSpacing
<1> QED BY <1>3, <1>4, <1>5, <1>6 DEF Inv

THEOREM InvHolds == Spec => []Inv
<1>1. Init => Inv
  BY InitInv
<1>2. Inv /\ [Next]_vars => Inv'
  BY TypeStep, TimesStep, ClimbStep, PaidStep, SlotStep DEF Inv
<1> QED BY <1>1, <1>2, PTL DEF Spec

(* The variables have their types: no more failures than the threshold, no *)
(* more cooldown than was set, no reboot remembered past its hour.         *)
THEOREM TypesHold == Spec => []TypeOK
<1>1. Inv => TypeOK
  BY DEF Inv
<1> QED BY <1>1, InvHolds, PTL

(* A process attempts at most MaxReboots reboots in an hour.               *)
THEOREM LimitHolds == Spec => []RebootLimitOfProcess
<1>1. Inv => RebootLimitOfProcess
  BY DEF Inv, TimesOrdered, RebootLimitOfProcess
<1> QED BY <1>1, InvHolds, PTL

(* The device is rebooted only after every other tier that was enabled     *)
(* throughout the outage, whatever the user changed meanwhile.             *)
THEOREM LastResortHolds == Spec => []RebootIsLastResort
<1>1. Inv => RebootIsLastResort
  BY DEF Inv, TypeOK, Climbed, RebootIsLastResort, Tiers
<1> QED BY <1>1, InvHolds, PTL

(* A process that reboots the device has been up for one cooldown for each *)
(* other tier enabled throughout the outage.                               *)
THEOREM SpacingHolds == Spec => []RebootSpacing
<1>1. Inv => RebootSpacing
  BY DEF Inv, Paid
<1> QED BY <1>1, InvHolds, PTL

(* Between checks, the noted slot is the slot in use, unless a slot command*)
(* was lost or a failover forgotten.                                       *)
THEOREM SlotHolds == Spec => []SlotKnown
<1>1. Inv => SlotKnown
  BY DEF Inv, SlotFollowed, Switched, SlotKnown
<1> QED BY <1>1, InvHolds, PTL
=============================================================================
