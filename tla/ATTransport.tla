---------------------------- MODULE ATTransport ----------------------------
(***************************************************************************)
(* The transports under the AT engine: DeviceTransport and CliTransport of *)
(* src/backend/internal/atengine/transport.go, with the lock file and the  *)
(* raw read of transport_lock_posix.go.                                    *)
(*                                                                         *)
(* The engine's worker sends one command at a time.  Send takes the lock   *)
(* file it shares with other programs, opens the device, writes the        *)
(* command and reads the first result line; when the device fails, or the  *)
(* modem answers with an error, the command goes to the CLI utility too.   *)
(* The modem's result lines reach whoever reads next: nothing ties a line  *)
(* to its command.                                                         *)
(*                                                                         *)
(* source and noisy are history variables: no guard reads them.            *)
(***************************************************************************)
EXTENDS Naturals, Sequences, FiniteSets

CONSTANTS
  Requests,     (* the commands sent                                       *)
  NoReq,        (* no command                                              *)
  Unsolicited   (* a result line the modem was not asked for (RING, ...)   *)

ASSUME NamesAssumption ==
  NoReq \notin Requests /\ Unsolicited \notin Requests /\ NoReq # Unsolicited

VARIABLES
  mode,       (* what AutoDetectTransport found                            *)
  pc,         (* where Send is                                             *)
  sending,    (* the command in Send                                       *)
  expired,    (* the context of that command is done                       *)
  attempt,    (* the attempt of the open or write loop                     *)
  readErr,    (* what a failed read returned, kept while the fallback runs *)
  lock,       (* who holds the lock file                                   *)
  wire,       (* result lines nobody has read, in the order of the modem   *)
  sent,       (* how often the modem received each command                 *)
  outcome,    (* what Send returned for each command                       *)
  source,     (* whose result line that was                                *)
  noisy       (* the modem has printed an unsolicited line                 *)

vars == <<mode, pc, sending, expired, attempt, readErr, lock, wire, sent, outcome,
          source, noisy>>

Modes     == {"device", "device+cli", "cli"}
Locations == {"idle", "flock", "open", "write", "writing", "read",
              "cli", "clirun", "cliread"}
Lines     == Requests \cup {Unsolicited}

(* What Send has to return: a result line, or none. *)
NoResult     == [kind |-> "none", from |-> NoReq]
Failure      == [kind |-> "fail", from |-> NoReq]
Answer(line) == [kind |-> "answer", from |-> line]

(* What may be left of the unread lines: closing the device and reading    *)
(* take from the front.                                                    *)
Suffixes(s) == {SubSeq(s, k + 1, Len(s)) : k \in 0..Len(s)}

-----------------------------------------------------------------------------

(* Send is called: mu is never contended, the engine has one worker. *)
Begin(r) ==
  /\ sending = NoReq
  /\ outcome[r] = "none"
  /\ sending' = r
  /\ expired' = FALSE
  /\ pc' = IF mode = "cli" THEN "cli" ELSE "flock"
  /\ UNCHANGED <<mode, attempt, readErr, lock, wire, sent, outcome, source, noisy>>

(* The context's deadline passes while the command is in Send. *)
Expire ==
  /\ sending # NoReq
  /\ ~expired
  /\ expired' = TRUE
  /\ UNCHANGED <<mode, pc, sending, attempt, readErr, lock, wire, sent, outcome, source, noisy>>

(* Fault: the lock file is not released. *)
ReturnLocked(value, unread) ==
  /\ outcome' = [outcome EXCEPT ![sending] = value.kind]
  /\ source' = [source EXCEPT ![sending] = value.from]
  /\ wire' \in IF mode = "cli" THEN {unread} ELSE Suffixes(unread)
  /\ sending' = NoReq
  /\ attempt' = 0
  /\ readErr' = NoResult
  /\ pc' = "idle"
  /\ UNCHANGED <<mode, expired, lock, sent, noisy>>

(* Send returns; its deferred calls close the device, which may discard    *)
(* unread lines, and release the lock file.                                *)
Return(value, unread) ==
  /\ outcome' = [outcome EXCEPT ![sending] = value.kind]
  /\ source' = [source EXCEPT ![sending] = value.from]
  /\ wire' \in IF mode = "cli" THEN {unread} ELSE Suffixes(unread)
  /\ lock' = IF lock = "engine" THEN "free" ELSE lock
  /\ sending' = NoReq
  /\ attempt' = 0
  /\ readErr' = NoResult
  /\ pc' = "idle"
  /\ UNCHANGED <<mode, expired, sent, noisy>>

(* Hand the command to the fallback, or return value if there is none. *)
FallBack(value, kept, unread) ==
  \/ /\ mode = "device+cli"
     /\ pc' = "cli"
     /\ readErr' = kept
     /\ wire' = unread
     /\ attempt' = 0
     /\ UNCHANGED <<mode, sending, expired, lock, sent, outcome, source, noisy>>
  \/ mode = "device" /\ Return(value, unread)

-----------------------------------------------------------------------------
(* DeviceTransport.Send.                                                   *)

(* flock(LOCK_EX) blocks without looking at the context. *)
AcquireLock ==
  /\ pc = "flock"
  /\ lock = "free"
  /\ lock' = "engine"
  /\ pc' = "open"
  /\ UNCHANGED <<mode, sending, expired, attempt, readErr, wire, sent, outcome, source, noisy>>

LockFails ==
  /\ pc = "flock"
  /\ Return(Failure, wire)

(* The device said EBUSY: twice the loop sleeps and tries again. *)
Retry(location) ==
  /\ attempt < 2
  /\ attempt' = attempt + 1
  /\ pc' = location
  /\ UNCHANGED <<mode, sending, expired, readErr, lock, wire, sent, outcome, source, noisy>>

Proceed(location) ==
  /\ pc' = location
  /\ attempt' = 0
  /\ UNCHANGED <<mode, sending, expired, readErr, lock, wire, sent, outcome, source, noisy>>

OpenDevice ==
  /\ pc = "open"
  /\ \/ expired /\ Return(Failure, wire)
     \/ ~expired /\ Retry("open")
     \/ ~expired /\ FallBack(Failure, NoResult, wire)
     \/ ~expired /\ Proceed("write")

(* The write loop looks at the context, and then writes. *)
CheckContext ==
  /\ pc = "write"
  /\ \/ expired /\ Return(Failure, wire)
     \/ /\ ~expired
        /\ pc' = "writing"
        /\ UNCHANGED <<mode, sending, expired, attempt, readErr, lock, wire, sent, outcome,
                       source, noisy>>

(* Fault: the write loop is not left after a success. *)
WriteDeviceAgain ==
  /\ pc = "writing"
  /\ sent' = [sent EXCEPT ![sending] = @ + 1]
  /\ wire' = Append(wire, sending)
  /\ pc' = IF attempt < 2 THEN "write" ELSE "read"
  /\ attempt' = IF attempt < 2 THEN attempt + 1 ELSE 0
  /\ UNCHANGED <<mode, sending, expired, readErr, lock, outcome, source, noisy>>

WriteDevice ==
  /\ pc = "writing"
  /\ \/ Retry("write")
     \/ FallBack(Failure, NoResult, wire)
     \/ /\ sent' = [sent EXCEPT ![sending] = @ + 1]
        /\ wire' = Append(wire, sending)
        /\ pc' = "read"
        /\ attempt' = 0
        /\ UNCHANGED <<mode, sending, expired, readErr, lock, outcome, source, noisy>>

(* Faults: the line stays in the buffer; a read that failed is reported as *)
(* an empty answer; the read looks at its errors only.                     *)
ReadAnswerKept ==
  /\ pc = "read"
  /\ wire # <<>>
  /\ Return(Answer(Head(wire)), wire)

ReadFailsAsAnswered ==
  /\ pc = "read"
  /\ FallBack(Answer(NoReq), Failure, wire)

ReadFailsOnError ==
  /\ pc = "read"
  /\ ~expired
  /\ FallBack(Failure, Failure, wire)

(* readDeviceRawResponse stops at the first result line; OK, CONNECT and   *)
(* RING are success.  An error line is an error of the read, so that the   *)
(* command goes to the fallback as well.                                   *)
ReadAnswer ==
  /\ pc = "read"
  /\ wire # <<>>
  /\ LET value == Answer(Head(wire))
     IN  \/ Return(value, Tail(wire))
         \/ \E unread \in Suffixes(Tail(wire)) : FallBack(value, value, unread)

(* The context is done, or select or read failed. *)
ReadFails ==
  /\ pc = "read"
  /\ FallBack(Failure, Failure, wire)

-----------------------------------------------------------------------------
(* CliTransport.Send, alone or as the fallback.                            *)

(* Fault: a utility that is missing counts as an empty answer. *)
CliErrorAsAnswered == IF readErr = NoResult THEN Answer(NoReq) ELSE readErr

(* When the fallback fails after a failed read, Send returns what the read *)
(* returned.                                                               *)
CliError == IF readErr = NoResult THEN Failure ELSE readErr

(* The utility is missing, is not started because the context is done, or  *)
(* fails before it writes.                                                 *)
CliFails ==
  /\ pc \in {"cli", "clirun"}
  /\ Return(CliError, wire)

CliStarts ==
  /\ pc = "cli"
  /\ ~expired
  /\ pc' = "clirun"
  /\ UNCHANGED <<mode, sending, expired, attempt, readErr, lock, wire, sent, outcome, source,
                 noisy>>

(* The context may have ended, but has not killed the utility yet. *)
CliWrites ==
  /\ pc = "clirun"
  /\ sent' = [sent EXCEPT ![sending] = @ + 1]
  /\ wire' = Append(wire, sending)
  /\ pc' = "cliread"
  /\ UNCHANGED <<mode, sending, expired, attempt, readErr, lock, outcome, source, noisy>>

(* It prints what it read up to a result line; or it fails or is killed,   *)
(* with lines read or not.                                                 *)
CliReturns ==
  /\ pc = "cliread"
  /\ \/ wire # <<>> /\ Return(Answer(Head(wire)), Tail(wire))
     \/ \E unread \in Suffixes(wire) : Return(CliError, unread)

-----------------------------------------------------------------------------
(* Other programs and the modem.                                           *)

(* Another program takes the lock file and talks to the modem. *)
OtherLocks ==
  /\ lock = "free"
  /\ lock' = "other"
  /\ UNCHANGED <<mode, pc, sending, expired, attempt, readErr, wire, sent, outcome, source, noisy>>

OtherUnlocks ==
  /\ lock = "other"
  /\ lock' = "free"
  /\ wire' \in Suffixes(wire)
  /\ UNCHANGED <<mode, pc, sending, expired, attempt, readErr, sent, outcome, source, noisy>>

(* RING, BUSY, NO CARRIER, CONNECT of the modem's own accord.  Bound: one  *)
(* such line unread at a time.                                             *)
Urc ==
  /\ \A i \in 1..Len(wire) : wire[i] # Unsolicited
  /\ wire' = Append(wire, Unsolicited)
  /\ noisy' = TRUE
  /\ UNCHANGED <<mode, pc, sending, expired, attempt, readErr, lock, sent, outcome, source>>

-----------------------------------------------------------------------------

Init ==
  /\ mode \in Modes
  /\ pc = "idle"
  /\ sending = NoReq
  /\ expired = FALSE
  /\ attempt = 0
  /\ readErr = NoResult
  /\ lock = "free"
  /\ wire = <<>>
  /\ sent = [r \in Requests |-> 0]
  /\ outcome = [r \in Requests |-> "none"]
  /\ source = [r \in Requests |-> NoReq]
  /\ noisy = FALSE

Step == \/ LockFails \/ OpenDevice \/ CheckContext \/ WriteDevice
        \/ ReadAnswer \/ ReadFails \/ CliFails \/ CliStarts \/ CliWrites \/ CliReturns

Next ==
  \/ \E r \in Requests : Begin(r)
  \/ Expire \/ AcquireLock \/ Step
  \/ OtherLocks \/ OtherUnlocks \/ Urc

(* The worker runs and the deadline comes; other programs let go of the    *)
(* lock file, and the kernel wakes a waiter for it sooner or later.        *)
Fairness ==
  /\ WF_vars(Expire)
  /\ SF_vars(AcquireLock)
  /\ WF_vars(OpenDevice) /\ WF_vars(CheckContext) /\ WF_vars(WriteDevice)
  /\ WF_vars(ReadFails /\ expired)
  /\ WF_vars(CliFails /\ expired) /\ WF_vars(CliReturns /\ expired)
  /\ WF_vars(OtherUnlocks)

Spec == Init /\ [][Next]_vars
FairSpec == Spec /\ Fairness

-----------------------------------------------------------------------------
(* Properties.                                                             *)

TypeOK ==
  /\ mode \in Modes
  /\ pc \in Locations
  /\ sending \in Requests \cup {NoReq}
  /\ expired \in BOOLEAN
  /\ attempt \in 0..2
  /\ readErr \in {NoResult, Failure} \cup {Answer(l) : l \in Lines}
  /\ lock \in {"free", "engine", "other"}
  /\ wire \in Seq(Lines)
  /\ sent \in [Requests -> 0..2]
  /\ outcome \in [Requests -> {"none", "answer", "fail"}]
  /\ source \in [Requests -> Lines \cup {NoReq}]
  /\ noisy \in BOOLEAN

(* Whatever path Send takes, it uses the modem only while it holds the     *)
(* lock file, and it has let go of it when it returns.                     *)
LockDiscipline ==
  lock = "engine" <=>
    \/ pc \in {"open", "write", "writing", "read"}
    \/ pc \in {"cli", "clirun", "cliread"} /\ mode = "device+cli"

(* Without a fallback the modem receives a command at most once: the EBUSY *)
(* retries never repeat a write that succeeded.                            *)
OneWriteWithoutFallback ==
  \A r \in Requests : mode # "device+cli" => sent[r] <= 1

(* No result line is reported for two commands more often than the modem   *)
(* received the command that it answers.                                   *)
AnswerUsedOnce ==
  \A s \in Requests : Cardinality({r \in Requests : source[r] = s}) <= sent[s]

(* As long as every Send ended with a result line, none was repeated by    *)
(* the fallback and the modem printed nothing of its own accord, each      *)
(* command got the line that answers it.  One timeout is enough to shift   *)
(* every later answer.                                                     *)
AnswersInStep ==
  (~noisy /\ \A r \in Requests : outcome[r] # "fail" /\ sent[r] <= 1)
    => \A r \in Requests : source[r] \in {r, NoReq}

(* The interface the engine relies on. *)
Contract == INSTANCE ATSend WITH MaxWrites <- 2
ImplementsSend == Contract!Spec

(* Send returns: the context bounds every wait but the one for the lock    *)
(* file, and that ends when the other program lets go.                     *)
SendReturns == sending # NoReq ~> sending = NoReq
=============================================================================
