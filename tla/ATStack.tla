------------------------------ MODULE ATStack ------------------------------
(***************************************************************************)
(* The AT engine over its real transport: NewEngine of                     *)
(* src/backend/internal/atengine/engine.go with what AutoDetectTransport   *)
(* of transport.go returns.                                                *)
(*                                                                         *)
(* ATEngine leaves open what happens between the call of Transport.Send    *)
(* and its return (ATSend).  Here the worker goes through the steps of     *)
(* ATTransport instead, and the transport serves nobody else.  The context *)
(* that Send gets is that of the request.                                  *)
(***************************************************************************)
EXTENDS ATEngine

CONSTANT Unsolicited   (* as in ATTransport *)

VARIABLES
  mode, attempt, readErr, lock, wire, source, noisy,   (* as in ATTransport *)
  at,         (* where Send is                                             *)
  late        (* the context that Send was called with is done             *)

deviceVars == <<mode, at, late, attempt, readErr, lock, wire, source, noisy>>
engineVars == <<callerVars, queue, resp, workerVars, closeVars, bypassed>>
stackVars  == <<vars, deviceVars>>

(* The device writes a command once, and the fallback once more. *)
ASSUME WritesAssumption == MaxWrites >= 2
ASSUME UnsolicitedAssumption == Unsolicited \notin Requests \cup {NoReq}

Device == INSTANCE ATTransport WITH pc <- at, expired <- late

-----------------------------------------------------------------------------

(* The callers, Close, and the worker before and after Send. *)
Beside(A) == A /\ UNCHANGED deviceVars

(* The context of a request ends for Send at the same moment. *)
InContext(A) ==
  /\ A
  /\ \/ sending \in expired' /\ Device!Expire
     \/ ~(sending \in expired' /\ ~late) /\ UNCHANGED deviceVars

Waits == \/ SkipHigh \/ SkipNormal \/ WorkerExit \/ SkipExpired \/ Debounced
         \/ \E t \in Tiers : Receive(t)

CallSend == StartSend /\ Device!Begin(cur)

(* A step inside Send.  With the last one the worker has the result, which *)
(* it puts on the reply channel of the request.                            *)
InSend(A) ==
  /\ pc = "sending"
  /\ A
  /\ \/ sending' # NoReq /\ UNCHANGED engineVars
     \/ /\ sending' = NoReq
        /\ Reply(outcome'[cur])
        /\ pc' = "debounce"
        /\ UNCHANGED <<callerVars, queue, closeVars, bypassed>>

(* Other programs and the modem. *)
Outside(A) == A /\ UNCHANGED engineVars

-----------------------------------------------------------------------------

StackInit == Init /\ Device!Init

StackWorker == Beside(Waits) \/ CallSend \/ InSend(Device!AcquireLock) \/ InSend(Device!Step)

StackNext ==
  \/ \E r \in Requests : InContext(Caller(r) \/ Expire(r))
  \/ StackWorker
  \/ Beside(CloseBegin \/ CloseReturn)
  \/ Outside(Device!OtherLocks \/ Device!OtherUnlocks \/ Device!Urc)

(* What the worker does not put off for ever.  A read and a run of the     *)
(* utility may last as long as their context.                              *)
Advances ==
  \/ Beside(Waits) \/ CallSend
  \/ InSend(\/ Device!OpenDevice \/ Device!CheckContext \/ Device!WriteDevice
            \/ late /\ (Device!ReadFails \/ Device!CliFails \/ Device!CliReturns))

(* The scheduler runs the worker and the callers; every context ends (the  *)
(* engine gives a call without a deadline one of its own); other programs  *)
(* let go of the lock file, and the kernel wakes a waiter for it sooner or *)
(* later.  Nobody has to call the engine or close it.                      *)
StackFairness ==
  /\ WF_stackVars(Advances)
  /\ SF_stackVars(InSend(Device!AcquireLock))
  /\ \A r \in Requests :
       /\ WF_stackVars(InContext(Enqueue(r) \/ Reject(r) \/ TakeResponse(r) \/ StopWaiting(r)))
       /\ WF_stackVars(InContext(Expire(r)))
  /\ WF_stackVars(Beside(CloseReturn))
  /\ WF_stackVars(Outside(Device!OtherUnlocks))

StackSpec == StackInit /\ [][StackNext]_stackVars

-----------------------------------------------------------------------------
(* Properties; the liveness properties are those of ATEngine.              *)

Calm == ~noisy /\ \A r \in Requests : outcome[r] # "fail" /\ sent[r] <= 1

(* A caller that is told of an answer is told of one to a command that the *)
(* modem received; and as long as no Send failed, none was repeated and    *)
(* the modem printed nothing by itself, it is the answer to its own        *)
(* command, although the caller, the worker and the transport each know    *)
(* nothing of what the others have left behind.                            *)
OwnAnswer ==
  \A r \in Requests : result[r] = "answer" => sent[r] > 0 /\ (Calm => source[r] = r)
=============================================================================
