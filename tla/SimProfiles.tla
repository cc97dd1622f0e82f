----------------------------- MODULE SimProfiles -----------------------------
(* The SIM profiles (src/backend/internal/api/handlers/sim_profiles.go):   *)
(* one file for each profile, a file that names the active one, and a file *)
(* in tmpfs with the state of the last apply. Save, Delete, Apply and      *)
(* Deactivate run under one mutex; Apply answers and leaves the commands   *)
(* to a goroutine, which takes the mutex at some later time and keeps it   *)
(* to its last command. The goroutines of several applies may wait, and    *)
(* the process or the device may stop at any point.                        *)
(*                                                                         *)
(* A profile sets up to three things: the APN (AT+CGDCONT), always, the    *)
(* login (AT+QICSGP) and the TTL. One PDP context stands for all. The      *)
(* modem is which version of which profile set each thing last. Writes to  *)
(* tmpfs are taken to succeed.                                             *)
EXTENDS Naturals, Sequences

CONSTANTS
  Ids,            \* identifiers of profiles
  Shapes,         \* the sets of optional things that a profile may have
  Workers,        \* goroutines at one time
  Nobody,
  MaxVersions,    \* bound: times a profile is saved
  MaxApplies,     \* bound: applies
  MaxEnds         \* bound: ends of the process or the device

Things == {"apn", "login", "ttl"}

(* What a profile file holds; two saves are never the same version.        *)
Version == [id : Ids, number : Nat, has : Shapes]

ASSUME ProfileAssumption ==
  /\ Shapes \subseteq SUBSET {"login", "ttl"}
  /\ Nobody \notin Ids \cup Workers \cup Version
  /\ {MaxVersions, MaxApplies, MaxEnds} \subseteq Nat

VARIABLES
  profiles,     \* the files
  active,       \* the file that names the active profile
  progress,     \* the state file: what was or is applied, and whether it is done
  work,         \* for each goroutine its profile and what it still has to set
  owner,        \* the goroutine that holds the mutex
  modem,        \* who set each thing
  versions, applies, ends,
  lost,         \* history: things last touched by a command that failed,
                \* or by an apply that was cut off
  orphan,       \* history: a delete was cut off before it cleared the marker
  unsure        \* history: the last apply began while another one waited, was
                \* cut off, or could not write the marker

profileFiles  == <<profiles, active, progress>>
profileBounds == <<versions, applies, ends>>
profileVars   == <<profileFiles, work, owner, modem, profileBounds, lost, orphan, unsure>>

NoWork == [version |-> Nobody, todo |-> <<>>]
Idle   == [version |-> Nobody, done |-> TRUE]

ProfileTypeOK ==
  /\ profiles \in [Ids -> Version \cup {Nobody}] /\ active \in Ids \cup {Nobody}
  /\ progress \in [version : Version \cup {Nobody}, done : BOOLEAN]
  /\ work \in [Workers -> [version : Version \cup {Nobody}, todo : Seq(Things)]]
  /\ owner \in Workers \cup {Nobody} /\ modem \in [Things -> Version \cup {Nobody}]
  /\ versions \in 0..MaxVersions /\ applies \in 0..MaxApplies /\ ends \in 0..MaxEnds
  /\ lost \subseteq Things /\ orphan \in BOOLEAN /\ unsure \in BOOLEAN

ProfileInit ==
  /\ profiles = [i \in Ids |-> Nobody] /\ active = Nobody /\ progress = Idle
  /\ work = [t \in Workers |-> NoWork] /\ owner = Nobody
  /\ modem = [x \in Things |-> Nobody]
  /\ versions = 0 /\ applies = 0 /\ ends = 0
  /\ lost = {} /\ orphan = FALSE /\ unsure = FALSE

-----------------------------------------------------------------------------
(* The handlers, each in one piece since it has the mutex.                 *)

Waiting == {t \in Workers : work[t] # NoWork}

Save(i) ==
  /\ owner = Nobody /\ versions < MaxVersions /\ versions' = versions + 1
  /\ \E has \in Shapes :
       profiles' = [profiles EXCEPT ![i] = [id |-> i, number |-> versions', has |-> has]]
  /\ UNCHANGED <<active, progress, work, owner, modem, applies, ends, lost, orphan, unsure>>

Delete(i) ==
  /\ owner = Nobody /\ profiles[i] # Nobody
  /\ profiles' = [profiles EXCEPT ![i] = Nobody]
  /\ active' = IF active = i THEN Nobody ELSE active
  /\ UNCHANGED <<progress, work, owner, modem, profileBounds, lost, orphan, unsure>>

Deactivate ==
  /\ owner = Nobody /\ active' = Nobody /\ progress' = Idle /\ orphan' = FALSE
  /\ UNCHANGED <<profiles, work, owner, modem, profileBounds, lost, unsure>>

Steps(v) ==
  <<"apn">> \o (IF "login" \in v.has THEN <<"login">> ELSE <<>>)
            \o (IF "ttl" \in v.has THEN <<"ttl">> ELSE <<>>)

(* The marker may fail to be written (a full disk), which is ignored.      *)
Apply(i, t) ==
  /\ owner = Nobody /\ profiles[i] # Nobody /\ work[t] = NoWork
  /\ applies < MaxApplies /\ applies' = applies + 1
  /\ \/ active' = i /\ orphan' = FALSE /\ unsure' = (Waiting # {})
     \/ UNCHANGED <<active, orphan>> /\ unsure' = TRUE
  /\ progress' = [version |-> profiles[i], done |-> FALSE]
  /\ work' = [work EXCEPT ![t] = [version |-> profiles[i], todo |-> Steps(profiles[i])]]
  /\ UNCHANGED <<profiles, owner, modem, versions, ends, lost>>

-----------------------------------------------------------------------------
(* The goroutine.                                                          *)

BeginWorkUnlocked(t) ==
  /\ work[t] # NoWork /\ owner' = t
  /\ UNCHANGED <<profileFiles, work, modem, profileBounds, lost, orphan, unsure>>

BeginWork(t) ==
  /\ owner = Nobody /\ work[t] # NoWork /\ owner' = t
  /\ UNCHANGED <<profileFiles, work, modem, profileBounds, lost, orphan, unsure>>

(* A command is carried out, or fails, which the code ignores.             *)
Set(t) ==
  /\ owner = t /\ work[t].todo # <<>>
  /\ work' = [work EXCEPT ![t].todo = Tail(@)]
  /\ LET x == Head(work[t].todo)
     IN  \/ modem' = [modem EXCEPT ![x] = work[t].version] /\ lost' = lost \ {x}
         \/ UNCHANGED modem /\ lost' = lost \cup {x}
  /\ UNCHANGED <<profileFiles, owner, profileBounds, orphan, unsure>>

EndWork(t) ==
  /\ owner = t /\ work[t].todo = <<>>
  /\ progress' = [version |-> work[t].version, done |-> TRUE]
  /\ work' = [work EXCEPT ![t] = NoWork] /\ owner' = Nobody
  /\ UNCHANGED <<profiles, active, modem, profileBounds, lost, orphan, unsure>>

-----------------------------------------------------------------------------
(* The process ends, alone or with the device, which forgets the state     *)
(* file and the TTL.                                                       *)
End ==
  /\ ends < MaxEnds /\ ends' = ends + 1
  /\ work' = [t \in Workers |-> NoWork] /\ owner' = Nobody
  /\ \/ UNCHANGED <<progress, modem>>
     \/ progress' = Idle /\ modem' = [modem EXCEPT !["ttl"] = Nobody]
  /\ lost' = IF owner = Nobody THEN lost ELSE Things
  /\ UNCHANGED <<versions, applies>>

Stop == End /\ unsure' = (unsure \/ Waiting # {}) /\ UNCHANGED <<profiles, active, orphan>>

(* Between the two files that Delete changes.                              *)
StopInDelete(i) ==
  /\ owner = Nobody /\ profiles[i] # Nobody
  /\ End /\ profiles' = [profiles EXCEPT ![i] = Nobody]
  /\ orphan' = (orphan \/ active = i) /\ unsure' = (unsure \/ Waiting # {})
  /\ UNCHANGED active

(* Between the two files that Apply changes.                               *)
StopInApply(i) ==
  /\ owner = Nobody /\ profiles[i] # Nobody
  /\ End /\ active' = i /\ orphan' = FALSE /\ unsure' = TRUE /\ UNCHANGED profiles

ProfileNext ==
  \/ \E i \in Ids : Save(i) \/ Delete(i) \/ StopInDelete(i) \/ StopInApply(i)
  \/ \E i \in Ids, t \in Workers : Apply(i, t)
  \/ \E t \in Workers : BeginWork(t) \/ Set(t) \/ EndWork(t)
  \/ Deactivate \/ Stop

ProfileSpec == ProfileInit /\ [][ProfileNext]_profileVars

-----------------------------------------------------------------------------
Complete == owner = Nobody /\ progress.version # Nobody /\ progress.done

(* Whenever nobody has the mutex and the state file says complete (the     *)
(* goroutine of Apply, sim_profiles.go:438), the modem has all that this   *)
(* version of the profile sets, but for what a failed command or a cut-off *)
(* apply has touched since.                                                *)
ModemIsAsStated ==
  Complete => \A x \in {"apn"} \cup progress.version.has :
                x \in lost \/ modem[x] = progress.version

(* The marker names a profile that exists (Delete, sim_profiles.go:385).   *)
ActiveExists == active # Nobody /\ ~orphan => profiles[active] # Nobody

(* What is marked active is what was applied completely last, unless two   *)
(* applies overlapped, or the last one was cut off or could not write the  *)
(* marker.                                                                 *)
ActiveIsApplied ==
  Complete /\ Waiting = {} /\ ~unsure => active \in {progress.version.id, Nobody}

(* Modem, state file, marker and profiles agree, whatever is saved,        *)
(* deleted, applied or deactivated between an apply's answer and the time  *)
(* its goroutine gets the mutex (sim_profiles.go:438).                     *)
ProfilesAgree == ModemIsAsStated /\ ActiveExists /\ ActiveIsApplied
=============================================================================
