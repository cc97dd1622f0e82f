------------------------- MODULE ATTransportProofs -------------------------
(***************************************************************************)
(* Proofs about the AT transports, for any set of commands: types, the     *)
(* lock file, the number of writes, and that they implement ATSend.        *)
(***************************************************************************)
EXTENDS ATTransport, SequenceTheorems, FiniteSetTheorems, TLAPS

-----------------------------------------------------------------------------
(* The inductive invariant.                                                *)

Device == {"flock", "open", "write", "writing", "read"}
Cli    == {"cli", "clirun", "cliread"}

(* How often the modem has received the command in Send: what readErr says *)
(* of the way Send took is all that the fallback knows of it.              *)
SendInv ==
  /\ pc = "idle" <=> sending = NoReq
  /\ sending # NoReq => outcome[sending] = "none"
  /\ \A r \in Requests : r # sending /\ outcome[r] = "none" => sent[r] = 0
  /\ pc \in Device \ {"read"} => sent[sending] = 0
  /\ pc = "read" => sent[sending] = 1
  /\ pc \in {"cli", "clirun"} => sent[sending] = IF readErr = NoResult THEN 0 ELSE 1
  /\ pc = "cliread" => sent[sending] = IF readErr = NoResult THEN 1 ELSE 2
  /\ pc \notin Cli => readErr = NoResult

(* Which locations a mode has. *)
ModeInv ==
  /\ mode = "cli" => pc \notin Device /\ readErr = NoResult
  /\ mode = "device" => pc \notin Cli

Inv == TypeOK /\ SendInv /\ ModeInv /\ LockDiscipline /\ OneWriteWithoutFallback

(* What the contract allows: one of its steps, or none. *)
ContractStep == [Contract!Next]_(Contract!sendVars)

Results == {NoResult, Failure} \cup {Answer(l) : l \in Lines}

-----------------------------------------------------------------------------
(* Lemmas about the helpers.                                               *)

(* What is left of the unread lines are lines. *)
LEMMA SuffixesType == ASSUME NEW s \in Seq(Lines) PROVE Suffixes(s) \subseteq Seq(Lines)
<1> SUFFICES ASSUME NEW k \in 0..Len(s) PROVE SubSeq(s, k + 1, Len(s)) \in Seq(Lines)
  BY DEF Suffixes
<1>1. k + 1 \in Int /\ Len(s) \in Int
  OBVIOUS
<1>2. \A i \in (k + 1)..Len(s) : s[i] \in Lines
  OBVIOUS
<1> QED
  BY <1>1, <1>2, SubSeqProperties

(* The kinds of the results: only an answer has the kind answer. *)
LEMMA ResultKinds ==
  /\ Failure.kind = "fail" /\ Failure.from = NoReq /\ Failure # NoResult
  /\ NoResult.kind = "none"
  /\ \A l : /\ Answer(l).kind = "answer" /\ Answer(l).from = l
            /\ Answer(l) # NoResult
  BY DEF Failure, NoResult, Answer

(* Whatever Send returns, the invariant holds afterwards; and if it is not *)
(* an answer to a command that the modem did not receive, Send ends as it  *)
(* has to.                                                                 *)
LEMMA ReturnKeeps ==
  ASSUME Inv, sending \in Requests, NEW value, NEW unread \in Seq(Lines),
         value.kind \in {"answer", "fail"}, value.from \in Lines \cup {NoReq},
         value.kind = "answer" => sent[sending] = 1 \/ sent[sending] = 2,
         Return(value, unread)
  PROVE  Inv' /\ ContractStep
<1>1. wire' \in Seq(Lines)
  BY SuffixesType DEF Return
<1>2. TypeOK'
  BY <1>1 DEF Inv, TypeOK, Return, Locations
<1>3. SendInv'
  BY DEF Inv, TypeOK, SendInv, Return, Device, Cli
<1>4. ModeInv' /\ OneWriteWithoutFallback'
  BY DEF Inv, ModeInv, OneWriteWithoutFallback, Return, Device, Cli
<1>5. LockDiscipline'
  BY DEF Inv, TypeOK, LockDiscipline, Return
<1>6. Contract!End(value.kind)
  BY NamesAssumption DEF Return, Contract!End
<1>7. ContractStep
  BY <1>6 DEF ContractStep, Contract!Next, Contract!Kinds
<1> QED
  BY <1>2, <1>3, <1>4, <1>5, <1>7 DEF Inv

(* So it is when Send goes on to the fallback, if what it keeps says how   *)
(* often the modem received the command.                                   *)
LEMMA FallBackKeeps ==
  ASSUME Inv, pc \in Device \ {"flock"}, NEW value, NEW kept \in Results,
         NEW unread \in Seq(Lines),
         value.kind \in {"answer", "fail"}, value.from \in Lines \cup {NoReq},
         sent[sending] = IF kept = NoResult THEN 0 ELSE 1,
         value.kind = "answer" => kept # NoResult,
         FallBack(value, kept, unread)
  PROVE  Inv' /\ ContractStep
<1>1. sending \in Requests
  BY DEF Inv, TypeOK, SendInv, Device
<1>2. CASE mode = "device" /\ Return(value, unread)
  BY <1>1, <1>2, ReturnKeeps
<1>3. CASE mode = "device+cli" /\ pc' = "cli"
  <2>1. /\ readErr' = kept /\ wire' = unread /\ attempt' = 0
        /\ UNCHANGED <<mode, sending, expired, lock, sent, outcome, source, noisy>>
    BY <1>3 DEF FallBack, Return
  <2>2. TypeOK'
    BY <1>3, <2>1 DEF Inv, TypeOK, Results, Locations
  <2>3. SendInv' /\ ModeInv' /\ OneWriteWithoutFallback'
    BY <1>1, <1>3, <2>1, NamesAssumption
       DEF Inv, TypeOK, SendInv, ModeInv, OneWriteWithoutFallback, Device, Cli
  <2>4. LockDiscipline'
    BY <1>3, <2>1 DEF Inv, LockDiscipline, Device
  <2>5. ContractStep
    BY <2>1 DEF ContractStep, Contract!sendVars
  <2> QED
    BY <2>2, <2>3, <2>4, <2>5 DEF Inv
<1> QED
  BY <1>2, <1>3 DEF FallBack

-----------------------------------------------------------------------------
(* The invariant is inductive, and every step is one of the contract.      *)

(* The transport is created idle, with nothing sent. *)
LEMMA InvInit == Init => Inv /\ Contract!Init
<1> SUFFICES ASSUME Init PROVE Inv /\ Contract!Init
  OBVIOUS
<1>1. TypeOK
  <2>1. /\ sent \in [Requests -> 0..2]
        /\ outcome \in [Requests -> {"none", "answer", "fail"}]
        /\ source \in [Requests -> Lines \cup {NoReq}]
    BY DEF Init
  <2>2. wire \in Seq(Lines)
    BY DEF Init
  <2>3. /\ expired \in BOOLEAN /\ noisy \in BOOLEAN
        /\ readErr \in {NoResult, Failure} \cup {Answer(l) : l \in Lines}
    BY DEF Init
  <2>4. /\ mode \in Modes /\ pc \in Locations /\ sending \in Requests \cup {NoReq}
        /\ attempt \in 0..2 /\ lock \in {"free", "engine", "other"}
    BY DEF Init, Locations
  <2> QED
    BY <2>1, <2>2, <2>3, <2>4 DEF TypeOK
<1>2. SendInv /\ ModeInv /\ OneWriteWithoutFallback
  BY DEF Init, SendInv, ModeInv, OneWriteWithoutFallback, Device, Cli
<1>3. LockDiscipline /\ Contract!Init
  BY DEF Init, LockDiscipline, Contract!Init
<1> QED
  BY <1>1, <1>2, <1>3 DEF Inv

(* Begin takes a command that no Send had before. *)
LEMMA BeginKeeps ==
  ASSUME Inv, NEW r \in Requests, Begin(r) PROVE Inv' /\ ContractStep
<1>1. TypeOK'
  BY DEF Inv, TypeOK, Begin, Locations
<1>2. SendInv' /\ ModeInv' /\ OneWriteWithoutFallback'
  BY NamesAssumption
     DEF Inv, TypeOK, SendInv, ModeInv, OneWriteWithoutFallback, Begin, Device, Cli, Modes
<1>3. LockDiscipline'
  BY NamesAssumption DEF Inv, TypeOK, SendInv, LockDiscipline, Begin, Modes, Locations
<1>4. ContractStep
  BY DEF Begin, ContractStep, Contract!Next, Contract!Begin
<1> QED
  BY <1>1, <1>2, <1>3, <1>4 DEF Inv

(* The deadline, other programs and the modem do not touch what Send does. *)
LEMMA OthersKeep ==
  ASSUME Inv, Expire \/ OtherLocks \/ OtherUnlocks \/ Urc PROVE Inv' /\ ContractStep
<1>1. wire' \in Seq(Lines)
  <2>1. CASE Expire \/ OtherLocks
    BY <2>1 DEF Inv, TypeOK, Expire, OtherLocks
  <2>2. CASE OtherUnlocks
    BY <2>2, SuffixesType DEF Inv, TypeOK, OtherUnlocks
  <2>3. CASE Urc
    BY <2>3 DEF Inv, TypeOK, Urc, Lines
  <2> QED
    BY <2>1, <2>2, <2>3
<1>2. /\ UNCHANGED <<mode, pc, sending, attempt, readErr, sent, outcome, source>>
      /\ expired' \in BOOLEAN /\ noisy' \in BOOLEAN
      /\ lock' \in {"free", "engine", "other"}
      /\ lock' = "engine" <=> lock = "engine"
  BY DEF Inv, TypeOK, Expire, OtherLocks, OtherUnlocks, Urc
<1>3. TypeOK'
  BY <1>1, <1>2 DEF Inv, TypeOK
<1>4. SendInv' /\ ModeInv' /\ OneWriteWithoutFallback' /\ LockDiscipline'
  BY <1>2 DEF Inv, SendInv, ModeInv, OneWriteWithoutFallback, LockDiscipline
<1>5. ContractStep
  BY <1>2 DEF ContractStep, Contract!sendVars
<1> QED
  BY <1>3, <1>4, <1>5 DEF Inv
(* Moving between the open loop and the write loop, before the command is  *)
(* written. *)
LEMMA MoveKeeps ==
  ASSUME Inv, pc \in {"open", "write", "writing"}, pc' \in {"open", "write", "writing"},
         attempt' \in 0..2,
         UNCHANGED <<mode, sending, expired, readErr, lock, wire, sent, outcome, source, noisy>>
  PROVE  Inv' /\ ContractStep
<1>1. TypeOK'
  BY DEF Inv, TypeOK, Locations
<1>2. SendInv' /\ ModeInv' /\ OneWriteWithoutFallback'
  BY DEF Inv, SendInv, ModeInv, OneWriteWithoutFallback, Device, Cli
<1>3. LockDiscipline'
  BY DEF Inv, LockDiscipline
<1>4. ContractStep
  BY DEF ContractStep, Contract!sendVars
<1> QED
  BY <1>1, <1>2, <1>3, <1>4 DEF Inv

(* The steps before the command is written. *)
LEMMA OpeningKeeps ==
  ASSUME Inv, AcquireLock \/ LockFails \/ OpenDevice \/ CheckContext PROVE Inv' /\ ContractStep
<1> DEFINE Failed == Return(Failure, wire)
<1>1. wire \in Seq(Lines) /\ attempt \in Nat
  BY DEF Inv, TypeOK
<1>2. CASE AcquireLock
  <2>1. TypeOK'
    BY <1>2 DEF Inv, TypeOK, AcquireLock, Locations
  <2>2. SendInv' /\ ModeInv' /\ OneWriteWithoutFallback'
    BY <1>2 DEF Inv, SendInv, ModeInv, OneWriteWithoutFallback, AcquireLock, Device, Cli
  <2>3. LockDiscipline' /\ ContractStep
    BY <1>2 DEF LockDiscipline, AcquireLock, ContractStep, Contract!sendVars
  <2> QED
    BY <2>1, <2>2, <2>3 DEF Inv
<1>3. CASE pc # "idle" /\ Failed
  <2>1. sending \in Requests
    BY <1>3 DEF Inv, TypeOK, SendInv
  <2> QED
    BY <1>1, <1>3, <2>1, ResultKinds, ReturnKeeps
<1>4. CASE pc = "open" /\ FallBack(Failure, NoResult, wire)
  <2>1. sent[sending] = 0
    BY <1>4 DEF Inv, SendInv, Device
  <2> QED
    BY <1>1, <1>4, <2>1, ResultKinds, FallBackKeeps DEF Results, Device
<1>5. CASE pc = "open" /\ (Retry("open") \/ Proceed("write"))
  BY <1>1, <1>5, MoveKeeps DEF Retry, Proceed
<1>6. CASE CheckContext /\ ~Failed
  BY <1>6, MoveKeeps DEF CheckContext, Inv, TypeOK
<1> QED
  BY <1>2, <1>3, <1>4, <1>5, <1>6 DEF LockFails, OpenDevice, CheckContext

(* The write loop: the modem has not received the command before. *)
LEMMA WriteDeviceKeeps == ASSUME Inv, WriteDevice PROVE Inv' /\ ContractStep
<1>1. /\ pc = "writing" /\ wire \in Seq(Lines) /\ attempt \in Nat /\ sending \in Requests
      /\ sent[sending] = 0 /\ sent \in [Requests -> 0..2]
  BY DEF Inv, TypeOK, SendInv, Device, WriteDevice
<1>2. CASE Retry("write")
  BY <1>1, <1>2, MoveKeeps DEF Retry
<1>3. CASE FallBack(Failure, NoResult, wire)
  BY <1>1, <1>3, ResultKinds, FallBackKeeps DEF Results, Device
<1>4. CASE /\ sent' = [sent EXCEPT ![sending] = @ + 1]
           /\ wire' = Append(wire, sending)
           /\ pc' = "read"
           /\ attempt' = 0
           /\ UNCHANGED <<mode, sending, expired, readErr, lock, outcome, source, noisy>>
  <2>1. /\ sent' \in [Requests -> 0..2]
        /\ sent'[sending] = 1
        /\ \A r \in Requests : r # sending => sent'[r] = sent[r]
    BY <1>1, <1>4
  <2>2. wire' \in Seq(Lines)
    BY <1>1, <1>4 DEF Lines
  <2>3. TypeOK'
    BY <1>4, <2>1, <2>2 DEF Inv, TypeOK, Locations
  <2>4. SendInv' /\ ModeInv' /\ OneWriteWithoutFallback'
    BY <1>1, <1>4, <2>1 DEF Inv, SendInv, ModeInv, OneWriteWithoutFallback, Device, Cli
  <2>5. LockDiscipline'
    BY <1>1, <1>4 DEF Inv, LockDiscipline
  <2>6. ContractStep
    BY <1>1, <1>4, NamesAssumption DEF ContractStep, Contract!Next, Contract!Write
  <2> QED
    BY <2>3, <2>4, <2>5, <2>6 DEF Inv
<1> QED
  BY <1>2, <1>3, <1>4 DEF WriteDevice

(* The read: the modem has received the command once. *)
LEMMA ReadKeeps == ASSUME Inv, ReadAnswer \/ ReadFails PROVE Inv' /\ ContractStep
<1>1. /\ pc = "read" /\ wire \in Seq(Lines) /\ sending \in Requests /\ sent[sending] = 1
  BY DEF Inv, TypeOK, SendInv, Device, ReadAnswer, ReadFails
<1>2. CASE ReadFails
  BY <1>1, <1>2, ResultKinds, FallBackKeeps DEF ReadFails, Results, Device
<1>3. CASE ReadAnswer
  <2> DEFINE value == Answer(Head(wire))
  <2>1. Head(wire) \in Lines /\ Tail(wire) \in Seq(Lines)
    BY <1>1, <1>3 DEF ReadAnswer
  <2>2. value \in Results /\ value.kind = "answer" /\ value.from \in Lines /\ value # NoResult
    BY <2>1, ResultKinds DEF Results
  <2> HIDE DEF value
  <2>3. CASE Return(value, Tail(wire))
    BY <1>1, <2>1, <2>2, <2>3, ReturnKeeps
  <2>4. ASSUME NEW unread \in Suffixes(Tail(wire)), FallBack(value, value, unread)
        PROVE  Inv' /\ ContractStep
    <3>1. unread \in Seq(Lines)
      BY <2>1, SuffixesType
    <3> QED
      BY <1>1, <2>2, <2>4, <3>1, FallBackKeeps DEF Device
  <2> QED
    BY <1>3, <2>3, <2>4 DEF ReadAnswer, value
<1> QED
  BY <1>2, <1>3

(* When the fallback fails, Send reports an answer only if the device got  *)
(* one before.                                                             *)
LEMMA CliErrorKinds ==
  ASSUME Inv, pc \in Cli
  PROVE  /\ CliError.kind \in {"answer", "fail"}
         /\ CliError.from \in Lines \cup {NoReq}
         /\ CliError.kind = "answer" => sent[sending] = 1 \/ sent[sending] = 2
<1>1. readErr \in {NoResult, Failure} \cup {Answer(l) : l \in Lines}
  BY DEF Inv, TypeOK
<1>2. readErr # NoResult => sent[sending] = 1 \/ sent[sending] = 2
  BY DEF Inv, SendInv, Cli
<1> QED
  BY <1>1, <1>2, ResultKinds DEF CliError

(* The utility: it writes the command once more than the device did. *)
LEMMA CliKeeps ==
  ASSUME Inv, CliFails \/ CliStarts \/ CliWrites \/ CliReturns PROVE Inv' /\ ContractStep
<1>1. pc \in Cli /\ wire \in Seq(Lines) /\ sending \in Requests
  BY DEF Inv, TypeOK, SendInv, Cli, CliFails, CliStarts, CliWrites, CliReturns
<1>2. ASSUME NEW unread \in Seq(Lines), Return(CliError, unread) PROVE Inv' /\ ContractStep
  BY <1>1, <1>2, CliErrorKinds, ReturnKeeps
<1>3. CASE CliFails
  BY <1>1, <1>2, <1>3 DEF CliFails
<1>4. CASE CliStarts
  <2>1. TypeOK'
    BY <1>4 DEF Inv, TypeOK, CliStarts, Locations
  <2>2. SendInv' /\ ModeInv' /\ OneWriteWithoutFallback'
    BY <1>4 DEF Inv, SendInv, ModeInv, OneWriteWithoutFallback, CliStarts, Device, Cli
  <2>3. LockDiscipline' /\ ContractStep
    BY <1>4 DEF Inv, LockDiscipline, CliStarts, ContractStep, Contract!sendVars
  <2> QED
    BY <2>1, <2>2, <2>3 DEF Inv
<1>5. CASE CliWrites
  <2> DEFINE before == IF readErr = NoResult THEN 0 ELSE 1
  <2>1. sent[sending] = before /\ before \in {0, 1} /\ sent \in [Requests -> 0..2]
    BY <1>5 DEF CliWrites, Inv, TypeOK, SendInv
  <2>2. /\ sent' \in [Requests -> 0..2]
        /\ sent'[sending] = before + 1
        /\ \A r \in Requests : r # sending => sent'[r] = sent[r]
    BY <1>1, <1>5, <2>1 DEF CliWrites
  <2>3. wire' \in Seq(Lines)
    BY <1>1, <1>5 DEF CliWrites, Lines
  <2>4. TypeOK'
    BY <1>5, <2>2, <2>3 DEF Inv, TypeOK, CliWrites, Locations
  <2>5. SendInv' /\ ModeInv'
    BY <1>1, <1>5, <2>2 DEF Inv, TypeOK, SendInv, ModeInv, CliWrites, Device, Cli
  <2>6. OneWriteWithoutFallback'
    BY <1>1, <1>5, <2>2
       DEF Inv, TypeOK, ModeInv, OneWriteWithoutFallback, CliWrites, Modes, Cli
  <2>7. LockDiscipline'
    BY <1>5 DEF Inv, LockDiscipline, CliWrites
  <2>8. ContractStep
    BY <1>1, <1>5, <2>1, NamesAssumption DEF CliWrites, ContractStep, Contract!Next, Contract!Write
  <2> QED
    BY <2>4, <2>5, <2>6, <2>7, <2>8 DEF Inv
<1>6. CASE CliReturns
  <2>1. CASE wire # <<>> /\ Return(Answer(Head(wire)), Tail(wire))
    <3>1. Head(wire) \in Lines /\ Tail(wire) \in Seq(Lines)
      BY <1>1, <2>1
    <3>2. sent[sending] = 1 \/ sent[sending] = 2
      BY <1>6 DEF CliReturns, Inv, SendInv
    <3> QED
      BY <1>1, <2>1, <3>1, <3>2, ResultKinds, ReturnKeeps
  <2>2. ASSUME NEW unread \in Suffixes(wire), Return(CliError, unread)
        PROVE  Inv' /\ ContractStep
    <3>1. unread \in Seq(Lines)
      BY <1>1, SuffixesType
    <3> QED
      BY <1>2, <2>2, <3>1
  <2> QED
    BY <1>6, <2>1, <2>2 DEF CliReturns
<1> QED
  BY <1>3, <1>4, <1>5, <1>6

(* Every step keeps the invariant and the contract. *)
LEMMA InvNext == Inv /\ [Next]_vars => Inv' /\ ContractStep
<1> SUFFICES ASSUME Inv, [Next]_vars PROVE Inv' /\ ContractStep
  OBVIOUS
<1>1. CASE UNCHANGED vars
  <2>1. TypeOK' /\ LockDiscipline' /\ ModeInv'
    BY <1>1 DEF Inv, TypeOK, LockDiscipline, ModeInv, vars
  <2>2. SendInv' /\ OneWriteWithoutFallback' /\ ContractStep
    BY <1>1 DEF Inv, SendInv, OneWriteWithoutFallback, ContractStep, Contract!sendVars, vars
  <2> QED
    BY <2>1, <2>2 DEF Inv
<1>2. CASE Next
  BY <1>2, BeginKeeps, OthersKeep, OpeningKeeps, WriteDeviceKeeps, ReadKeeps, CliKeeps
     DEF Next, Step
<1> QED
  BY <1>1, <1>2

(* The two facts before, for every behaviour. *)
LEMMA Invariant == Spec => []Inv
  BY InvInit, InvNext, PTL DEF Spec

-----------------------------------------------------------------------------
(* The theorems.                                                           *)

(* Every variable has its type; in particular the loops over EBUSY end and *)
(* the modem receives no command more than twice.                          *)
THEOREM TransportTypes == Spec => []TypeOK
<1>1. Inv => TypeOK
  BY DEF Inv
<1> QED
  BY <1>1, Invariant, PTL

(* On every path through Send, the device is open only under the lock file *)
(* and a Send that has returned holds it no longer.                        *)
THEOREM TransportLocks == Spec => []LockDiscipline
<1>1. Inv => LockDiscipline
  BY DEF Inv
<1> QED
  BY <1>1, Invariant, PTL

(* With one way to the modem, it receives a command at most once.          *)
THEOREM TransportWritesOnce == Spec => []OneWriteWithoutFallback
<1>1. Inv => OneWriteWithoutFallback
  BY DEF Inv
<1> QED
  BY <1>1, Invariant, PTL

(* Device, CLI utility and the two combined implement what the engine      *)
(* relies on: one command at a time, written at most twice, and an answer  *)
(* is reported only for a command that the modem received.                 *)
THEOREM TransportImplements == Spec => ImplementsSend
<1>1. Inv /\ [Next]_vars => [Contract!Next]_(Contract!sendVars)
  BY InvNext DEF ContractStep
<1>2. Init => Contract!Init
  BY InvInit
<1> QED
  BY <1>1, <1>2, Invariant, PTL DEF Spec, ImplementsSend, Contract!Spec

-----------------------------------------------------------------------------
(* Result lines. Each is unread, kept by a read that went on to the        *)
(* fallback, or reported: together as many as the modem has printed.       *)

Places(w, l) == {i \in 1..Len(w) : w[i] = l}
Unread(w, l) == Cardinality(Places(w, l))
Reported(l)  == {r \in Requests : source[r] = l}
Kept(e, l)   == IF e = Answer(l) THEN 1 ELSE 0
From(v, l)   == IF v.from = l THEN 1 ELSE 0

OnceInv ==
  \A l \in Requests :
    /\ IsFiniteSet(Reported(l))
    /\ Cardinality(Reported(l)) + Unread(wire, l) + Kept(readErr, l) <= sent[l]

LEMMA PlacesFinite ==
  ASSUME NEW w \in Seq(Lines), NEW l
  PROVE  IsFiniteSet(Places(w, l)) /\ Unread(w, l) \in Nat
<1>1. Places(w, l) \in SUBSET (1..Len(w)) /\ IsFiniteSet(1..Len(w))
  BY FS_Interval DEF Places
<1> QED BY <1>1, FS_Subset, FS_CardinalityType DEF Unread

(* A new line is one more of its command and none of the others. *)
LEMMA UnreadAppend ==
  ASSUME NEW w \in Seq(Lines), NEW x \in Lines, NEW l
  PROVE  Unread(Append(w, x), l) = Unread(w, l) + (IF x = l THEN 1 ELSE 0)
<1> DEFINE n == Len(w) + 1
<1>1. Len(w) \in Nat /\ Len(Append(w, x)) = n /\ Append(w, x)[n] = x
      /\ \A i \in 1..Len(w) : Append(w, x)[i] = w[i]
  OBVIOUS
<1>2. Places(Append(w, x), l) = Places(w, l) \cup (IF x = l THEN {n} ELSE {})
  BY <1>1 DEF Places
<1>3. n \notin Places(w, l)
  BY <1>1 DEF Places
<1> HIDE DEF n
<1>4. CASE x = l
  BY <1>2, <1>3, <1>4, PlacesFinite, FS_AddElement DEF Unread
<1>5. CASE x # l
  <2>1. Places(Append(w, x), l) = Places(w, l)
    BY <1>2, <1>5
  <2> QED BY <1>5, <2>1, PlacesFinite DEF Unread
<1> QED BY <1>4, <1>5

(* What is left of the lines has no more of any command. *)
LEMMA UnreadSuffix ==
  ASSUME NEW w \in Seq(Lines), NEW u \in Suffixes(w), NEW l
  PROVE  u \in Seq(Lines) /\ Unread(u, l) <= Unread(w, l)
<1>1. PICK k \in 0..Len(w) : u = SubSeq(w, k + 1, Len(w))
  BY DEF Suffixes
<1>2. u \in Seq(Lines)
  BY SuffixesType
<1>3. Len(u) = Len(w) - k /\ \A i \in 1..Len(u) : u[i] = w[i + k]
  BY <1>1
<1> DEFINE f == [i \in Places(u, l) |-> i + k]
<1>4. \A i \in Places(u, l) : i \in Nat /\ i + k \in Places(w, l)
  BY <1>2, <1>3 DEF Places
<1>5. f \in Injection(Places(u, l), Places(w, l))
  BY <1>4 DEF Injection, IsInjective
<1> QED BY <1>2, <1>5, PlacesFinite, FS_Injection DEF Unread

(* The line that is read is one less. *)
LEMMA UnreadHead ==
  ASSUME NEW w \in Seq(Lines), w # <<>>, NEW l
  PROVE  /\ Head(w) \in Lines /\ Tail(w) \in Seq(Lines)
         /\ Unread(Tail(w), l) + (IF Head(w) = l THEN 1 ELSE 0) <= Unread(w, l)
<1>1. /\ Len(w) \in Nat /\ Len(w) >= 1 /\ Head(w) = w[1] /\ Tail(w) \in Seq(Lines)
      /\ Head(w) \in Lines
      /\ Len(Tail(w)) = Len(w) - 1 /\ \A i \in 1..Len(Tail(w)) : Tail(w)[i] = w[i + 1]
  OBVIOUS
<1> DEFINE f == [i \in Places(Tail(w), l) |-> i + 1]
           rest == Places(w, l) \ {1}
<1>2. \A i \in Places(Tail(w), l) : i \in Nat /\ i + 1 \in rest
  BY <1>1 DEF Places
<1>3. f \in Injection(Places(Tail(w), l), rest)
  BY <1>2 DEF Injection, IsInjective
<1>4. /\ IsFiniteSet(rest) /\ IsFiniteSet(Places(w, l))
      /\ Cardinality(rest) = IF 1 \in Places(w, l) THEN Unread(w, l) - 1 ELSE Unread(w, l)
  BY PlacesFinite, FS_RemoveElement DEF Unread
<1>5. Unread(Tail(w), l) <= Cardinality(rest)
  BY <1>3, <1>4, FS_Injection DEF Unread
<1>6. Head(w) = l <=> 1 \in Places(w, l)
  BY <1>1 DEF Places
<1>7. Unread(w, l) \in Nat /\ Unread(Tail(w), l) \in Nat
  BY <1>1, PlacesFinite
<1> QED BY <1>1, <1>4, <1>5, <1>6, <1>7

(* The types of the three numbers. *)
LEMMA OnceTypes ==
  ASSUME Inv, OnceInv, NEW l \in Requests
  PROVE  /\ Cardinality(Reported(l)) \in Nat /\ Unread(wire, l) \in Nat
         /\ Kept(readErr, l) \in 0..1 /\ sent[l] \in 0..2
         /\ Kept(NoResult, l) = 0 /\ Kept(Failure, l) = 0
<1>1. wire \in Seq(Lines) /\ sent \in [Requests -> 0..2]
  BY DEF Inv, TypeOK
<1>2. Cardinality(Reported(l)) \in Nat
  BY FS_CardinalityType DEF OnceInv
<1>3. Unread(wire, l) \in Nat
  BY <1>1, PlacesFinite
<1>4. Kept(NoResult, l) = 0 /\ Kept(Failure, l) = 0
  BY DEF Kept, NoResult, Failure, Answer
<1> QED BY <1>1, <1>2, <1>3, <1>4 DEF Kept

(* Send returns with a line that was read or kept. *)
LEMMA ReturnOnce ==
  ASSUME Inv, OnceInv, sending \in Requests, NEW value, NEW unread \in Seq(Lines),
         \A l \in Requests : Unread(unread, l) + From(value, l)
                               <= Unread(wire, l) + Kept(readErr, l),
         Return(value, unread)
  PROVE  OnceInv'
<1> SUFFICES ASSUME NEW l \in Requests
             PROVE  /\ IsFiniteSet(Reported(l)')
                    /\ Cardinality(Reported(l)') + Unread(wire', l) + Kept(readErr', l)
                         <= sent'[l]
  BY DEF OnceInv
<1>1. IsFiniteSet(Reported(l))
      /\ Cardinality(Reported(l)) + Unread(wire, l) + Kept(readErr, l) <= sent[l]
  BY DEF OnceInv
<1>2. unread \in Suffixes(unread)
  <2>1. 0 \in 0..Len(unread) /\ SubSeq(unread, 0 + 1, Len(unread)) = unread
    OBVIOUS
  <2> QED BY <2>1 DEF Suffixes
<1>3. wire' \in Suffixes(unread)
  BY <1>2 DEF Return
<1>4. Unread(wire', l) <= Unread(unread, l) /\ Unread(wire', l) \in Nat /\ Unread(unread, l) \in Nat
  BY <1>3, UnreadSuffix, PlacesFinite
<1>5. source \in [Requests -> Lines \cup {NoReq}] /\ source' = [source EXCEPT ![sending] = value.from]
  BY DEF Inv, TypeOK, Return
<1>6. CASE value.from = l
  <2>1. Reported(l)' = Reported(l) \cup {sending}
    BY <1>5, <1>6 DEF Reported
  <2>2. IsFiniteSet(Reported(l)') /\ Cardinality(Reported(l)') <= Cardinality(Reported(l)) + 1
        /\ Cardinality(Reported(l)') \in Nat
    <3>1. Cardinality(Reported(l)) \in Nat
      BY OnceTypes
    <3>2. /\ IsFiniteSet(Reported(l) \cup {sending})
          /\ Cardinality(Reported(l) \cup {sending})
               = IF sending \in Reported(l) THEN Cardinality(Reported(l))
                 ELSE Cardinality(Reported(l)) + 1
      BY <1>1, FS_AddElement
    <3> QED BY <2>1, <3>1, <3>2
  <2>3. From(value, l) = 1
    BY <1>6 DEF From
  <2>4. sent' = sent /\ Kept(readErr', l) = 0
    BY OnceTypes DEF Return
  <2>5. Unread(unread, l) + 1 <= Unread(wire, l) + Kept(readErr, l)
    BY <2>3
  <2>6. Cardinality(Reported(l)) \in Nat /\ Unread(wire, l) \in Nat /\ Kept(readErr, l) \in Nat
        /\ sent[l] \in Nat
    BY OnceTypes
  <2> QED BY <1>1, <1>4, <2>2, <2>4, <2>5, <2>6
<1>7. CASE value.from # l
  <2>1. Reported(l)' \in SUBSET Reported(l)
    BY <1>5, <1>7 DEF Reported
  <2>2. IsFiniteSet(Reported(l)') /\ Cardinality(Reported(l)') <= Cardinality(Reported(l))
        /\ Cardinality(Reported(l)') \in Nat
    BY <1>1, <2>1, FS_Subset, FS_CardinalityType
  <2>3. From(value, l) = 0
    BY <1>7 DEF From
  <2>4. sent' = sent /\ Kept(readErr', l) = 0
    BY OnceTypes DEF Return
  <2>5. Unread(unread, l) <= Unread(wire, l) + Kept(readErr, l)
    BY <1>4, <2>3
  <2>6. Cardinality(Reported(l)) \in Nat /\ Unread(wire, l) \in Nat /\ Kept(readErr, l) \in Nat
        /\ sent[l] \in Nat
    BY OnceTypes
  <2> QED BY <1>1, <1>4, <2>2, <2>4, <2>5, <2>6
<1> QED BY <1>6, <1>7

(* Nothing is reported: the lines become fewer, or one that the modem      *)
(* printed is added. *)
LEMMA OthersOnce ==
  ASSUME Inv, OnceInv, source' = source,
         \A l \in Requests :
           /\ sent'[l] \in Nat /\ Unread(wire', l) \in Nat /\ Kept(readErr', l) \in Nat
           /\ Unread(wire', l) + Kept(readErr', l) + sent[l]
                <= Unread(wire, l) + Kept(readErr, l) + sent'[l]
  PROVE  OnceInv'
<1> SUFFICES ASSUME NEW l \in Requests
             PROVE  /\ IsFiniteSet(Reported(l)')
                    /\ Cardinality(Reported(l)') + Unread(wire', l) + Kept(readErr', l)
                         <= sent'[l]
  BY DEF OnceInv
<1>1. Reported(l)' = Reported(l)
  BY DEF Reported
<1>2. IsFiniteSet(Reported(l))
      /\ Cardinality(Reported(l)) + Unread(wire, l) + Kept(readErr, l) <= sent[l]
  BY DEF OnceInv
<1> QED BY <1>1, <1>2, OnceTypes

LEMMA FallBackOnce ==
  ASSUME Inv, OnceInv, sending \in Requests, NEW value, NEW kept \in Results,
         NEW unread \in Seq(Lines),
         \A l \in Requests :
           /\ Unread(unread, l) + From(value, l) <= Unread(wire, l) + Kept(readErr, l)
           /\ Unread(unread, l) + Kept(kept, l) <= Unread(wire, l) + Kept(readErr, l),
         FallBack(value, kept, unread)
  PROVE  OnceInv'
<1>1. CASE Return(value, unread)
  BY <1>1, ReturnOnce
<1>2. CASE readErr' = kept /\ wire' = unread /\ sent' = sent /\ source' = source
  <2>1. ASSUME NEW l \in Requests
        PROVE  /\ sent'[l] \in Nat /\ Unread(wire', l) \in Nat /\ Kept(readErr', l) \in Nat
               /\ Unread(wire', l) + Kept(readErr', l) + sent[l]
                    <= Unread(wire, l) + Kept(readErr, l) + sent'[l]
    <3>1. Unread(unread, l) \in Nat /\ Kept(kept, l) \in Nat
      BY PlacesFinite DEF Kept
    <3>2. Unread(wire, l) \in Nat /\ Kept(readErr, l) \in Nat /\ sent[l] \in Nat
      BY OnceTypes
    <3>3. Unread(unread, l) + Kept(kept, l) <= Unread(wire, l) + Kept(readErr, l)
      OBVIOUS
    <3> QED BY <1>2, <3>1, <3>2, <3>3
  <2> QED BY <1>2, <2>1, OthersOnce
<1> QED BY <1>1, <1>2 DEF FallBack

(* A result counts as the line it is of. *)
LEMMA ResultCounts ==
  ASSUME NEW l \in Requests
  PROVE  /\ From(Failure, l) = 0 /\ Kept(Failure, l) = 0 /\ Kept(NoResult, l) = 0
         /\ \A x \in Lines : From(Answer(x), l) = (IF x = l THEN 1 ELSE 0)
                             /\ Kept(Answer(x), l) = (IF x = l THEN 1 ELSE 0)
  BY NamesAssumption DEF From, Kept, Failure, NoResult, Answer

(* What the fallback's failure returns was kept. *)
LEMMA CliErrorCounts ==
  ASSUME Inv, NEW l \in Requests PROVE From(CliError, l) <= Kept(readErr, l)
<1>1. readErr \in {NoResult, Failure} \cup {Answer(x) : x \in Lines}
  BY DEF Inv, TypeOK
<1>2. CASE readErr \in {NoResult, Failure}
  BY <1>2, ResultCounts DEF CliError
<1>3. ASSUME NEW x \in Lines, readErr = Answer(x) PROVE From(CliError, l) <= Kept(readErr, l)
  BY <1>3, ResultCounts, ResultKinds DEF CliError
<1> QED BY <1>1, <1>2, <1>3

(* A command is written: one line is printed for it. *)
LEMMA WrittenOnce ==
  ASSUME Inv, OnceInv, sending \in Requests,
         sent' = [sent EXCEPT ![sending] = @ + 1], wire' = Append(wire, sending),
         UNCHANGED <<readErr, source>>
  PROVE  OnceInv'
<1>1. wire \in Seq(Lines) /\ sent \in [Requests -> 0..2] /\ sending \in Lines
  BY DEF Inv, TypeOK, Lines
<1>2. ASSUME NEW l \in Requests
      PROVE  /\ sent'[l] \in Nat /\ Unread(wire', l) \in Nat /\ Kept(readErr', l) \in Nat
             /\ Unread(wire', l) + Kept(readErr', l) + sent[l]
                  <= Unread(wire, l) + Kept(readErr, l) + sent'[l]
  <2>1. Unread(wire', l) = Unread(wire, l) + (IF sending = l THEN 1 ELSE 0)
    BY <1>1, UnreadAppend
  <2>2. sent'[l] = sent[l] + (IF sending = l THEN 1 ELSE 0)
    BY <1>1
  <2>3. Unread(wire, l) \in Nat /\ Kept(readErr, l) \in Nat /\ sent[l] \in Nat
    BY OnceTypes
  <2> QED BY <2>1, <2>2, <2>3
<1> QED BY <1>2, OthersOnce

(* Every step keeps the count. *)
LEMMA OnceNext == ASSUME Inv, OnceInv, [Next]_vars PROVE OnceInv'
<1>t. /\ wire \in Seq(Lines)
      /\ pc # "idle" => sending \in Requests
      /\ \A l \in Requests : /\ Unread(wire, l) \in Nat /\ Kept(readErr, l) \in Nat
                             /\ sent[l] \in Nat
  <2>1. wire \in Seq(Lines) /\ (pc # "idle" => sending \in Requests)
    BY DEF Inv, TypeOK, SendInv
  <2>2. ASSUME NEW l \in Requests
        PROVE  Unread(wire, l) \in Nat /\ Kept(readErr, l) \in Nat /\ sent[l] \in Nat
    BY OnceTypes
  <2> QED BY <2>1, <2>2
<1>s. \A l \in Requests : Unread(wire, l) + 0 <= Unread(wire, l) + Kept(readErr, l)
  BY <1>t
<1>1. CASE UNCHANGED <<wire, readErr, sent, source>>
  BY <1>t, <1>1, OthersOnce
<1>2. CASE OtherUnlocks
  <2>1. wire' \in Suffixes(wire) /\ UNCHANGED <<readErr, sent, source>>
    BY <1>2 DEF OtherUnlocks
  <2>2. \A l \in Requests : Unread(wire', l) <= Unread(wire, l) /\ Unread(wire', l) \in Nat
    BY <1>t, <2>1, UnreadSuffix, PlacesFinite
  <2> QED BY <1>t, <2>1, <2>2, OthersOnce
<1>3. CASE Urc
  <2>1. wire' = Append(wire, Unsolicited) /\ UNCHANGED <<readErr, sent, source>>
    BY <1>3 DEF Urc
  <2>2. \A l \in Requests : Unread(wire', l) = Unread(wire, l)
    <3> SUFFICES ASSUME NEW l \in Requests PROVE Unread(wire', l) = Unread(wire, l)
      OBVIOUS
    <3>1. Unsolicited \in Lines /\ Unsolicited # l
      BY NamesAssumption DEF Lines
    <3>2. Unread(wire', l) = Unread(wire, l) + 0
      BY <1>t, <2>1, <3>1, UnreadAppend
    <3> QED BY <1>t, <3>2
  <2> QED BY <1>t, <2>1, <2>2, OthersOnce
<1>4. CASE pc # "idle" /\ Return(Failure, wire)
  BY <1>t, <1>s, <1>4, ResultCounts, ReturnOnce
<1>5. CASE pc # "idle" /\ (FallBack(Failure, NoResult, wire) \/ FallBack(Failure, Failure, wire))
  BY <1>t, <1>s, <1>5, ResultCounts, FallBackOnce DEF Results
<1>6. CASE pc # "idle" /\ Return(CliError, wire)
  <2>1. \A l \in Requests : From(CliError, l) \in Nat
    BY DEF From
  <2>2. \A l \in Requests : Unread(wire, l) + From(CliError, l) <= Unread(wire, l) + Kept(readErr, l)
    BY <1>t, <2>1, CliErrorCounts
  <2> QED BY <1>t, <1>6, <2>2, ReturnOnce
<1>7. ASSUME pc # "idle", NEW unread \in Suffixes(wire), Return(CliError, unread) PROVE OnceInv'
  <2>1. \A l \in Requests : From(CliError, l) \in Nat
    BY DEF From
  <2>2. unread \in Seq(Lines)
        /\ \A l \in Requests : Unread(unread, l) <= Unread(wire, l) /\ Unread(unread, l) \in Nat
    BY <1>t, UnreadSuffix, PlacesFinite
  <2>3. \A l \in Requests : Unread(unread, l) + From(CliError, l) <= Unread(wire, l) + Kept(readErr, l)
    BY <1>t, <2>1, <2>2, CliErrorCounts
  <2> QED BY <1>t, <1>7, <2>2, <2>3, ReturnOnce
<1>8. CASE pc # "idle" /\ wire # <<>> /\ Return(Answer(Head(wire)), Tail(wire))
  <2>1. Head(wire) \in Lines /\ Tail(wire) \in Seq(Lines)
    BY <1>t, <1>8, UnreadHead
  <2>2. \A l \in Requests : Unread(Tail(wire), l) + From(Answer(Head(wire)), l)
                              <= Unread(wire, l) + Kept(readErr, l)
    <3> SUFFICES ASSUME NEW l \in Requests
                 PROVE  Unread(Tail(wire), l) + From(Answer(Head(wire)), l)
                          <= Unread(wire, l) + Kept(readErr, l)
      OBVIOUS
    <3>1. Unread(Tail(wire), l) + From(Answer(Head(wire)), l) <= Unread(wire, l)
      BY <1>t, <1>8, <2>1, UnreadHead, ResultCounts
    <3>2. Unread(Tail(wire), l) \in Nat /\ From(Answer(Head(wire)), l) \in Nat
      BY <2>1, PlacesFinite DEF From
    <3> QED BY <1>t, <3>1, <3>2
  <2> QED BY <1>t, <1>8, <2>1, <2>2, ReturnOnce
<1>9. ASSUME pc # "idle", wire # <<>>, NEW unread \in Suffixes(Tail(wire)),
             FallBack(Answer(Head(wire)), Answer(Head(wire)), unread)
      PROVE  OnceInv'
  <2>1. Head(wire) \in Lines /\ Tail(wire) \in Seq(Lines) /\ unread \in Seq(Lines)
    BY <1>t, <1>9, UnreadHead, UnreadSuffix
  <2>2. Answer(Head(wire)) \in Results
    BY <2>1 DEF Results
  <2>3. ASSUME NEW l \in Requests
        PROVE  /\ Unread(unread, l) + From(Answer(Head(wire)), l) <= Unread(wire, l) + Kept(readErr, l)
               /\ Unread(unread, l) + Kept(Answer(Head(wire)), l) <= Unread(wire, l) + Kept(readErr, l)
    <3> DEFINE one == IF Head(wire) = l THEN 1 ELSE 0
    <3>1. From(Answer(Head(wire)), l) = one /\ Kept(Answer(Head(wire)), l) = one
      BY <2>1, ResultCounts
    <3>2. Unread(Tail(wire), l) + one <= Unread(wire, l)
      BY <1>t, <1>9, UnreadHead
    <3>3. Unread(unread, l) <= Unread(Tail(wire), l)
      BY <2>1, UnreadSuffix
    <3>4. Unread(unread, l) \in Nat /\ Unread(Tail(wire), l) \in Nat /\ one \in Nat
      BY <2>1, PlacesFinite
    <3>5. Unread(unread, l) + one <= Unread(wire, l) + Kept(readErr, l)
      <4> HIDE DEF one
      <4> QED BY <1>t, <3>2, <3>3, <3>4
    <3> HIDE DEF one
    <3> QED BY <3>1, <3>5
  <2> QED BY <1>t, <1>9, <2>1, <2>2, <2>3, FallBackOnce
<1>10. CASE WriteDevice
  BY <1>t, <1>1, <1>5, <1>10, WrittenOnce DEF WriteDevice, Retry
<1>11. CASE CliWrites
  BY <1>t, <1>11, WrittenOnce DEF CliWrites
<1>12. CASE \E r \in Requests : Begin(r)
  BY <1>1, <1>12 DEF Begin
<1>13. CASE Expire \/ AcquireLock \/ OtherLocks \/ CliStarts \/ UNCHANGED vars
  BY <1>1, <1>13 DEF Expire, AcquireLock, OtherLocks, CliStarts, vars
<1>14. CASE LockFails \/ OpenDevice \/ CheckContext
  BY <1>1, <1>4, <1>5, <1>14 DEF LockFails, OpenDevice, CheckContext, Retry, Proceed
<1>15. CASE ReadAnswer \/ ReadFails
  BY <1>5, <1>8, <1>9, <1>15 DEF ReadAnswer, ReadFails
<1>16. CASE CliFails
  BY <1>6, <1>16 DEF CliFails
<1>17. CASE CliReturns
  BY <1>7, <1>8, <1>17 DEF CliReturns
<1> QED
  BY <1>2, <1>3, <1>10, <1>11, <1>12, <1>13, <1>14, <1>15, <1>16, <1>17 DEF Next, Step

LEMMA OnceInit == Init => OnceInv
<1> SUFFICES ASSUME Init, NEW l \in Requests
             PROVE  /\ IsFiniteSet(Reported(l))
                    /\ Cardinality(Reported(l)) + Unread(wire, l) + Kept(readErr, l) <= sent[l]
  BY DEF OnceInv
<1>1. Reported(l) = {} /\ Places(wire, l) = {} /\ sent[l] = 0
  BY NamesAssumption DEF Init, Reported, Places
<1>2. Kept(readErr, l) = 0
  BY ResultCounts DEF Init
<1> QED BY <1>1, <1>2, FS_EmptySet DEF Unread

(* Whatever is read late, kept for the fallback or thrown away, Send does  *)
(* not report one result line twice.                                       *)
THEOREM TransportAnswersOnce == Spec => []AnswerUsedOnce
<1>1. Inv /\ OnceInv => AnswerUsedOnce
  <2> SUFFICES ASSUME Inv, OnceInv, NEW l \in Requests
               PROVE  Cardinality({r \in Requests : source[r] = l}) <= sent[l]
    BY DEF AnswerUsedOnce
  <2>1. Cardinality(Reported(l)) + Unread(wire, l) + Kept(readErr, l) <= sent[l]
    BY DEF OnceInv
  <2>2. Cardinality(Reported(l)) \in Nat /\ Unread(wire, l) \in Nat /\ Kept(readErr, l) \in Nat
        /\ sent[l] \in Nat
    BY OnceTypes
  <2>3. Cardinality(Reported(l)) <= sent[l]
    BY <2>1, <2>2
  <2> QED BY <2>3 DEF Reported
<1> QED
  BY <1>1, Invariant, OnceInit, OnceNext, PTL DEF Spec

-----------------------------------------------------------------------------
(* While nothing fails, nothing is repeated and the modem is quiet, the    *)
(* only line that can be unread is the one that answers the command in     *)
(* Send; what a read has kept for the fallback is that line.               *)

Calm == ~noisy /\ \A r \in Requests : outcome[r] # "fail" /\ sent[r] <= 1

InStep ==
  /\ \A r \in Requests : source[r] \in {r, NoReq}
  /\ wire # <<>> => sending # NoReq /\ sent[sending] = 1 /\ wire = <<sending>>
  /\ readErr \in {NoResult, Failure, Answer(sending)}
  /\ readErr = Answer(sending) => wire = <<>>

StepInv == Calm => InStep

LEMMA SuffixesOfShort ==
  /\ Suffixes(<<>>) = {<<>>}
  /\ \A x \in Lines : Suffixes(<<x>>) = {<<>>, <<x>>}
<1>1. Suffixes(<<>>) = {<<>>}
  <2>1. Len(<<>>) = 0 /\ 0..0 = {0}
    OBVIOUS
  <2>2. SubSeq(<<>>, 0 + 1, 0) = <<>>
    BY SubSeqEmpty
  <2> QED BY <2>1, <2>2 DEF Suffixes
<1>2. ASSUME NEW x \in Lines PROVE Suffixes(<<x>>) = {<<>>, <<x>>}
  <2>1. <<x>> \in Seq(Lines) /\ Len(<<x>>) = 1 /\ 0..1 = {0, 1}
    OBVIOUS
  <2>2. SubSeq(<<x>>, 0 + 1, 1) = <<x>>
    <3>1. SubSeq(<<x>>, 1, Len(<<x>>)) = <<x>>
      BY <2>1, SubSeqFull, Zenon
    <3>2. 0 + 1 = 1
      OBVIOUS
    <3> QED BY <2>1, <3>1, <3>2, Zenon
  <2>3. SubSeq(<<x>>, 1 + 1, 1) = <<>>
    BY SubSeqEmpty
  <2> QED BY <2>1, <2>2, <2>3 DEF Suffixes
<1> QED BY <1>1, <1>2

(* Send returns a line only if it is its own, and leaves none. *)
LEMMA ReturnInStep ==
  ASSUME Inv, StepInv, sending \in Requests, NEW value, NEW unread,
         Calm /\ value.kind # "fail" => value.from = sending /\ unread = <<>>,
         Return(value, unread)
  PROVE  StepInv'
<1> SUFFICES ASSUME Calm' PROVE InStep'
  BY DEF StepInv
<1>1. /\ outcome \in [Requests -> {"none", "answer", "fail"}] /\ outcome[sending] = "none"
      /\ source \in [Requests -> Lines \cup {NoReq}]
  BY NamesAssumption DEF Inv, TypeOK, SendInv
<1>2. /\ outcome' = [outcome EXCEPT ![sending] = value.kind]
      /\ source' = [source EXCEPT ![sending] = value.from]
      /\ wire' \in {unread} \cup Suffixes(unread) /\ sending' = NoReq /\ readErr' = NoResult
      /\ UNCHANGED <<sent, noisy>>
  BY DEF Return
<1>3. value.kind # "fail" /\ Calm
  BY <1>1, <1>2 DEF Calm
<1>4. value.from = sending /\ unread = <<>> /\ InStep
  BY <1>3 DEF StepInv
<1>5. wire' = <<>>
  BY <1>2, <1>4, SuffixesOfShort
<1>6. \A r \in Requests : source'[r] \in {r, NoReq}
  BY <1>1, <1>2, <1>4 DEF InStep
<1> QED BY <1>2, <1>5, <1>6 DEF InStep

LEMMA FallBackInStep ==
  ASSUME Inv, StepInv, sending \in Requests, NEW value, NEW kept, NEW unread,
         Calm /\ value.kind # "fail" => value.from = sending /\ unread = <<>>,
         Calm => /\ unread # <<>> => sent[sending] = 1 /\ unread = <<sending>>
                 /\ kept \in {NoResult, Failure, Answer(sending)}
                 /\ kept = Answer(sending) => unread = <<>>,
         FallBack(value, kept, unread)
  PROVE  StepInv'
<1>1. CASE Return(value, unread)
  BY <1>1, ReturnInStep
<1>2. CASE /\ readErr' = kept /\ wire' = unread
           /\ UNCHANGED <<sending, sent, outcome, source, noisy>>
  BY <1>2, NamesAssumption DEF StepInv, Calm, InStep
<1> QED BY <1>1, <1>2 DEF FallBack

(* A command is written: after a first time it is the only unread line,    *)
(* and a second time ends the calm.                                        *)
LEMMA WrittenInStep ==
  ASSUME Inv, StepInv, sending \in Requests, pc \in {"writing", "clirun"},
         sent' = [sent EXCEPT ![sending] = @ + 1], wire' = Append(wire, sending),
         UNCHANGED <<sending, outcome, readErr, source, noisy>>
  PROVE  StepInv'
<1> SUFFICES ASSUME Calm' PROVE InStep'
  BY DEF StepInv
<1>1. /\ sent \in [Requests -> 0..2] /\ sending # NoReq
      /\ sent[sending] = IF readErr = NoResult THEN 0 ELSE 1
  BY NamesAssumption DEF Inv, TypeOK, SendInv, Device, Cli
<1>2. sent'[sending] = sent[sending] + 1 /\ \A r \in Requests : r # sending => sent'[r] = sent[r]
  BY <1>1
<1>3. sent'[sending] <= 1
  BY DEF Calm
<1>4. sent[sending] = 0 /\ readErr = NoResult
  BY <1>1, <1>2, <1>3
<1>5. Calm
  BY <1>2, <1>4 DEF Calm
<1>6. InStep /\ wire = <<>>
  BY <1>4, <1>5 DEF StepInv, InStep
<1>7. wire' = <<sending>>
  BY <1>6
<1>8. readErr # Answer(sending)
  BY <1>4, ResultKinds DEF Lines
<1> QED BY <1>1, <1>2, <1>4, <1>6, <1>7, <1>8 DEF InStep

(* Every step keeps it. *)
LEMMA InStepNext == ASSUME Inv, StepInv, [Next]_vars PROVE StepInv'
<1>t. /\ wire \in Seq(Lines) /\ (pc # "idle" => sending \in Requests /\ sending \in Lines)
      /\ sent \in [Requests -> 0..2]
      /\ (pc \in {"open", "write", "writing", "flock"} => sent[sending] = 0)
      /\ (pc = "read" => sent[sending] = 1)
      /\ Failure.kind = "fail"
  BY DEF Inv, TypeOK, SendInv, Device, Lines, Failure
<1>w. Calm /\ wire # <<>> /\ pc # "idle" => sent[sending] = 1 /\ wire = <<sending>>
  BY DEF StepInv, InStep
<1>1. CASE UNCHANGED <<sending, wire, readErr, sent, outcome, source, noisy>>
  BY <1>1 DEF StepInv, Calm, InStep
<1>2. ASSUME NEW r \in Requests, Begin(r) PROVE StepInv'
  <2>1. /\ sending = NoReq /\ readErr = NoResult
        /\ UNCHANGED <<wire, readErr, sent, outcome, source, noisy>>
    BY <1>2 DEF Begin, Inv, SendInv, Cli
  <2>2. NoResult # Answer(sending')
    BY DEF NoResult, Answer
  <2> QED BY <2>1, <2>2 DEF StepInv, Calm, InStep
<1>3. CASE OtherUnlocks
  <2> SUFFICES ASSUME Calm' PROVE InStep'
    BY DEF StepInv
  <2>1. wire' \in Suffixes(wire)
        /\ UNCHANGED <<sending, readErr, sent, outcome, source, noisy>>
    BY <1>3 DEF OtherUnlocks
  <2>2. InStep
    BY <2>1 DEF StepInv, Calm
  <2>3. wire = <<>> \/ (wire = <<sending>> /\ sending \in Lines)
    BY <1>t, <2>2 DEF InStep, Inv, TypeOK, Lines
  <2>4. wire' \in {<<>>, wire}
    BY <2>1, <2>3, SuffixesOfShort
  <2> QED BY <2>1, <2>2, <2>4 DEF InStep
<1>4. CASE Urc
  BY <1>4 DEF Urc, StepInv, Calm
<1>5. CASE pc # "idle" /\ Return(Failure, wire)
  BY <1>t, <1>5, ReturnInStep
<1>6. CASE pc # "idle" /\ (FallBack(Failure, NoResult, wire) \/ FallBack(Failure, Failure, wire))
  <2>1. NoResult # Answer(sending) /\ Failure # Answer(sending)
    BY DEF NoResult, Failure, Answer
  <2> QED BY <1>t, <1>w, <1>6, <2>1, FallBackInStep
<1>7. ASSUME pc \in {"cli", "clirun", "cliread"}, NEW unread \in Suffixes(wire),
             Return(CliError, unread)
      PROVE  StepInv'
  <2>1. Calm /\ CliError.kind # "fail" => CliError.from = sending /\ unread = <<>>
    <3> SUFFICES ASSUME Calm, CliError.kind # "fail" PROVE CliError.from = sending /\ unread = <<>>
      OBVIOUS
    <3>1. InStep
      BY DEF StepInv
    <3>2. readErr = Answer(sending) /\ CliError = readErr
      BY <1>t, <3>1 DEF InStep, CliError
    <3>3. wire = <<>>
      BY <3>1, <3>2 DEF InStep
    <3> QED BY <1>7, <3>2, <3>3, SuffixesOfShort DEF Answer
  <2> QED BY <1>t, <1>7, <2>1, ReturnInStep
<1>8. ASSUME pc # "idle", wire # <<>> PROVE Calm => Head(wire) = sending /\ Tail(wire) = <<>>
  <2>1. Head(<<sending>>) = sending /\ Tail(<<sending>>) = <<>>
    OBVIOUS
  <2> QED BY <1>w, <1>8, <2>1
<1>9. CASE pc # "idle" /\ wire # <<>> /\ Return(Answer(Head(wire)), Tail(wire))
  BY <1>t, <1>8, <1>9, ReturnInStep DEF Answer
<1>10. ASSUME pc # "idle", wire # <<>>, NEW unread \in Suffixes(Tail(wire)),
              FallBack(Answer(Head(wire)), Answer(Head(wire)), unread)
       PROVE  StepInv'
  <2>1. Calm => Head(wire) = sending /\ unread = <<>>
    BY <1>8, <1>10, SuffixesOfShort
  <2>2. Answer(Head(wire)).from = Head(wire)
    BY DEF Answer
  <2> QED BY <1>t, <1>10, <2>1, <2>2, FallBackInStep
<1>11. CASE WriteDevice
  BY <1>t, <1>1, <1>6, <1>11, WrittenInStep DEF WriteDevice, Retry
<1>12. CASE CliWrites
  BY <1>t, <1>12, WrittenInStep DEF CliWrites
<1>13. CASE Expire \/ AcquireLock \/ OtherLocks \/ CliStarts \/ UNCHANGED vars
  BY <1>1, <1>13 DEF Expire, AcquireLock, OtherLocks, CliStarts, vars
<1>14. CASE LockFails \/ OpenDevice \/ CheckContext
  BY <1>1, <1>5, <1>6, <1>14 DEF LockFails, OpenDevice, CheckContext, Retry, Proceed
<1>15. CASE ReadAnswer \/ ReadFails
  BY <1>6, <1>9, <1>10, <1>15 DEF ReadAnswer, ReadFails
<1>16. CASE CliFails
  <2>1. wire \in Suffixes(wire)
    <3>1. 0 \in 0..Len(wire) /\ SubSeq(wire, 0 + 1, Len(wire)) = wire
      BY <1>t
    <3> QED BY <3>1 DEF Suffixes
  <2> QED BY <1>7, <1>16, <2>1 DEF CliFails
<1>17. CASE CliReturns
  BY <1>7, <1>9, <1>17 DEF CliReturns
<1> QED
  BY <1>2, <1>3, <1>4, <1>11, <1>12, <1>13, <1>14, <1>15, <1>16, <1>17 DEF Next, Step

(* As long as no Send failed, none was repeated and the modem printed      *)
(* nothing of its own accord, each command got its own answer.             *)
THEOREM TransportAnswersInStep == Spec => []AnswersInStep
<1>1. Init => StepInv
  BY DEF Init, StepInv, InStep
<1>2. StepInv => AnswersInStep
  BY DEF StepInv, Calm, InStep, AnswersInStep
<1> QED
  BY <1>1, <1>2, Invariant, InStepNext, PTL DEF Spec

-----------------------------------------------------------------------------
(* A Send that reports an answer reports a line of the modem.              *)

Sourced == \A r \in Requests : outcome[r] = "answer" => source[r] \in Lines

LEMMA SourcedInit == Init => Sourced
  BY DEF Init, Sourced

(* Send returns a line, or nothing that it calls an answer. *)
LEMMA ReturnSourced ==
  ASSUME Inv, Sourced, sending \in Requests, NEW value, NEW unread,
         value.kind = "answer" => value.from \in Lines, Return(value, unread)
  PROVE  Sourced'
  BY DEF Inv, TypeOK, Sourced, Return

LEMMA SourcedNext == ASSUME Inv, Sourced, [Next]_vars PROVE Sourced'
<1>t. /\ wire \in Seq(Lines) /\ (pc # "idle" => sending \in Requests)
      /\ readErr \in {NoResult, Failure} \cup {Answer(l) : l \in Lines}
  BY DEF Inv, TypeOK, SendInv
<1>1. CASE UNCHANGED <<outcome, source>>
  BY <1>1 DEF Sourced
<1>2. ASSUME pc # "idle", NEW unread, Return(Failure, unread) PROVE Sourced'
  BY <1>t, <1>2, ResultKinds, ReturnSourced
<1>3. ASSUME pc # "idle", wire # <<>>, NEW unread, Return(Answer(Head(wire)), unread)
      PROVE  Sourced'
  <2>1. Head(wire) \in Lines
    BY <1>t, <1>3
  <2> QED BY <1>t, <1>3, <2>1, ResultKinds, ReturnSourced
<1>4. ASSUME pc # "idle", NEW unread, Return(CliError, unread) PROVE Sourced'
  <2>1. CliError.kind = "answer" => CliError.from \in Lines
    BY <1>t, ResultKinds DEF CliError
  <2> QED BY <1>t, <1>4, <2>1, ReturnSourced
<1>5. CASE Expire \/ AcquireLock \/ OtherLocks \/ OtherUnlocks \/ Urc \/ CliStarts \/ CliWrites
           \/ UNCHANGED vars \/ \E r \in Requests : Begin(r)
  BY <1>1, <1>5 DEF Expire, AcquireLock, OtherLocks, OtherUnlocks, Urc, CliStarts, CliWrites,
                    Begin, vars
<1>6. CASE LockFails \/ OpenDevice \/ CheckContext \/ WriteDevice
  BY <1>1, <1>2, <1>6 DEF LockFails, OpenDevice, CheckContext, WriteDevice, Retry, Proceed,
                          FallBack
<1>7. CASE ReadAnswer \/ ReadFails
  BY <1>1, <1>2, <1>3, <1>7 DEF ReadAnswer, ReadFails, FallBack
<1>8. CASE CliFails \/ CliReturns
  BY <1>3, <1>4, <1>8 DEF CliFails, CliReturns
<1> QED
  BY <1>5, <1>6, <1>7, <1>8 DEF Next, Step

-----------------------------------------------------------------------------
(* How long a Send can take: the safety half of SendReturns.               *)

(* The steps that Send can still take by itself: three times around each   *)
(* of the two loops, and then the fallback.                                *)
StepsLeft ==
  CASE pc = "idle"    -> 0
    [] pc = "flock"   -> 14
    [] pc = "open"    -> 13 - attempt
    [] pc = "write"   -> 10 - 2 * attempt
    [] pc = "writing" -> 9 - 2 * attempt
    [] pc = "read"    -> 4
    [] pc = "cli"     -> 3
    [] pc = "clirun"  -> 2
    [] pc = "cliread" -> 1

Elsewhere == Expire \/ OtherLocks \/ OtherUnlocks \/ Urc

(* While a command is in Send, a step is one of the others and leaves Send *)
(* where it is, or it brings Send nearer to its return.                    *)
SendIsShort ==
  [][sending # NoReq =>
       \/ StepsLeft' < StepsLeft
       \/ Elsewhere /\ UNCHANGED <<pc, attempt, sending, StepsLeft>>]_vars

(* The attempts are counted in the two loops only, each from 0.            *)
CountInv == pc \notin {"open", "write", "writing"} => attempt = 0

LEMMA CountNext == ASSUME Inv, CountInv, [Next]_vars PROVE CountInv'
<1>1. CASE Elsewhere \/ AcquireLock \/ CliStarts \/ CliWrites \/ UNCHANGED vars
           \/ \E r \in Requests : Begin(r)
  BY <1>1 DEF Elsewhere, Expire, OtherLocks, OtherUnlocks, Urc, AcquireLock, CliStarts, CliWrites,
              Begin, Inv, SendInv, CountInv, vars
<1>2. CASE LockFails \/ OpenDevice \/ CheckContext \/ WriteDevice
  BY <1>2 DEF LockFails, OpenDevice, CheckContext, WriteDevice, Retry, Proceed, FallBack, Return,
              CountInv
<1>3. CASE ReadAnswer \/ ReadFails \/ CliFails \/ CliReturns
  BY <1>3 DEF ReadAnswer, ReadFails, CliFails, CliReturns, FallBack, Return, CountInv
<1> QED
  BY <1>1, <1>2, <1>3 DEF Next, Step, Elsewhere

LEMMA StepsLeftBounds ==
  ASSUME Inv
  PROVE  /\ StepsLeft \in 0..14
         /\ pc # "idle" => StepsLeft > 0
         /\ pc \in Device \ {"flock"} => StepsLeft > 3
<1>1. pc \in Locations /\ attempt \in 0..2
  BY DEF Inv, TypeOK
<1> QED
  BY <1>1 DEF StepsLeft, Locations, Device

(* Send returns. *)
LEMMA ReturnShorter ==
  ASSUME Inv, pc # "idle", NEW value, NEW unread, Return(value, unread)
  PROVE  StepsLeft' < StepsLeft
<1>1. StepsLeft' = 0
  BY DEF Return, StepsLeft
<1> QED
  BY <1>1, StepsLeftBounds

(* Send returns or goes on to the fallback. *)
LEMMA FallBackShorter ==
  ASSUME Inv, pc \in Device \ {"flock"}, NEW value, NEW kept, NEW unread,
         FallBack(value, kept, unread)
  PROVE  StepsLeft' < StepsLeft
<1>1. CASE pc' = "cli"
  BY <1>1, StepsLeftBounds DEF StepsLeft
<1> QED
  BY <1>1, ReturnShorter DEF FallBack, Device

(* However the device fails and whatever the modem prints, Send takes at   *)
(* most fourteen steps of its own: the retries over EBUSY and the fallback *)
(* never begin anew.                                                       *)
THEOREM SendTakesFewSteps == Spec => [](StepsLeft \in 0..14) /\ SendIsShort
<1>1. Init => CountInv
  BY DEF Init, CountInv
<1>2. Inv => StepsLeft \in 0..14
  BY StepsLeftBounds
<1>3. ASSUME Inv, CountInv, Next, sending # NoReq
      PROVE  \/ StepsLeft' < StepsLeft
             \/ Elsewhere /\ UNCHANGED <<pc, attempt, sending, StepsLeft>>
  <2>1. pc \in Locations \ {"idle"} /\ attempt \in 0..2
    BY <1>3 DEF Inv, TypeOK, SendInv
  <2>2. ASSUME NEW r \in Requests, Begin(r) PROVE FALSE
    BY <1>3, <2>2 DEF Begin
  <2>3. CASE Elsewhere
    <3>1. UNCHANGED <<pc, attempt, sending>>
      BY <2>3 DEF Elsewhere, Expire, OtherLocks, OtherUnlocks, Urc
    <3> QED BY <2>3, <3>1 DEF StepsLeft
  <2>4. CASE AcquireLock \/ CliStarts \/ CliWrites
    BY <1>3, <2>4 DEF AcquireLock, CliStarts, CliWrites, CountInv, StepsLeft
  <2>5. CASE LockFails \/ OpenDevice \/ CheckContext \/ WriteDevice
    <3>1. ASSUME pc = "open", Retry("open") \/ Proceed("write") PROVE StepsLeft' < StepsLeft
      BY <2>1, <3>1 DEF Retry, Proceed, StepsLeft
    <3>2. ASSUME pc = "write", pc' = "writing", attempt' = attempt PROVE StepsLeft' < StepsLeft
      BY <2>1, <3>2 DEF StepsLeft
    <3>3. ASSUME pc = "writing", Retry("write") \/ (pc' = "read" /\ attempt' = 0)
          PROVE  StepsLeft' < StepsLeft
      BY <2>1, <3>3 DEF Retry, StepsLeft
    <3> QED
      BY <1>3, <2>1, <2>5, <3>1, <3>2, <3>3, ReturnShorter, FallBackShorter
         DEF LockFails, OpenDevice, CheckContext, WriteDevice, Device
  <2>6. CASE ReadAnswer \/ ReadFails \/ CliFails \/ CliReturns
    BY <1>3, <2>1, <2>6, ReturnShorter, FallBackShorter DEF ReadAnswer, ReadFails, CliFails, CliReturns, Device
  <2> QED
    BY <1>3, <2>2, <2>3, <2>4, <2>5, <2>6 DEF Next, Step, Elsewhere
<1>4. Inv /\ CountInv /\ [Next]_vars
      => [sending # NoReq =>
            \/ StepsLeft' < StepsLeft
            \/ Elsewhere /\ UNCHANGED <<pc, attempt, sending, StepsLeft>>]_vars
  BY <1>3
<1> QED
  BY <1>1, <1>2, <1>4, Invariant, CountNext, PTL DEF Spec, SendIsShort
=============================================================================
