------------------------------ MODULE ATEngine ------------------------------
(***************************************************************************)
(* The AT command engine: src/backend/internal/atengine/engine.go.         *)
(*                                                                         *)
(* Any number of goroutines call ExecContextWithPriority.  A call puts one *)
(* request on the buffered channel of its tier and waits for the reply,    *)
(* for its context to end, or for the engine to close.  A single worker    *)
(* takes requests off the three channels, sends each through the transport *)
(* (ATSend: what ATTransport is shown to implement), replies on the        *)
(* request's own one-place channel and pauses for the debounce.            *)
(*                                                                         *)
(* A request stands for one call; its command text does not matter here.   *)
(* bypassed is a history variable: no guard reads it.                      *)
(***************************************************************************)
EXTENDS Naturals, Sequences, FiniteSets

CONSTANTS
  Requests,     (* the calls made to the engine                            *)
  Prio,         (* the tier each call asks for                             *)
  Cap,          (* the buffer size of each tier's channel                  *)
  MaxWrites,    (* how often the transport may write one command           *)
  NoReq         (* no request: an idle worker                              *)

Tiers == {"high", "norm", "low"}

ASSUME CapAssumption == Cap \in [Tiers -> Nat \ {0}]
ASSUME PrioAssumption == Prio \in [Requests -> Tiers]
ASSUME MaxWritesAssumption == MaxWrites \in Nat \ {0}
ASSUME NoReqAssumption == NoReq \notin Requests

VARIABLES
  call,       (* where each caller is in ExecContextWithPriority           *)
  result,     (* what each call returned                                   *)
  expired,    (* the requests whose context is done                        *)
  queue,      (* highChan, normChan, lowChan                               *)
  resp,       (* each request's respChan, of capacity one                  *)
  pc,         (* where the worker is                                       *)
  cur,        (* the request the worker took and has not replied to        *)
  sending,    (* the request in transport.Send                             *)
  sent,       (* how often each command was written to the modem           *)
  outcome,    (* what Send returned for each command                       *)
  stopping,   (* stopChan is closed                                        *)
  closer,     (* where Close is                                            *)
  bypassed    (* lower-tier requests taken while this one was queued       *)

callerVars == <<call, result, expired>>
workerVars == <<pc, cur>>
transportVars == <<sending, sent, outcome>>
closeVars  == <<stopping, closer>>
vars == <<callerVars, queue, resp, workerVars, transportVars, closeVars, bypassed>>

(* The transport the worker calls. *)
Transport == INSTANCE ATSend

-----------------------------------------------------------------------------
(* A call returns the reply it got (a result of the modem, OK or error, or *)
(* a failure of the transport), or it returns because its context ended,   *)
(* the engine closed, or the low tier was full.                            *)

Replies == Transport!Kinds
Returns == Replies \cup {"ctx", "closed", "full"}

Phases    == {"idle", "submitting", "waiting", "returned", "rejected"}
Locations == {"sel1", "sel2", "sel3", "check", "sending", "debounce", "exited"}

Full(t)   == Len(queue[t]) >= Cap[t]
Queued(r) == \E i \in 1..Len(queue[Prio[r]]) : queue[Prio[r]][i] = r

(* The tiers that the worker should serve before tier t. *)
Above(t) == CASE t = "high" -> {}
              [] t = "norm" -> {"high"}
              [] t = "low"  -> {"high", "norm"}

-----------------------------------------------------------------------------
(* The caller: ExecContextWithPriority.                                    *)

Call(r) ==
  /\ call[r] = "idle"
  /\ call' = [call EXCEPT ![r] = "submitting"]
  /\ UNCHANGED <<result, expired, queue, resp, workerVars, transportVars, closeVars, bypassed>>

(* The deadline passes, or the caller's own context is cancelled. *)
Expire(r) ==
  /\ call[r] # "idle"
  /\ r \notin expired
  /\ expired' = expired \cup {r}
  /\ UNCHANGED <<call, result, queue, resp, workerVars, transportVars, closeVars, bypassed>>

Enqueue(r) ==
  /\ call[r] = "submitting"
  /\ ~Full(Prio[r])
  /\ queue' = [queue EXCEPT ![Prio[r]] = Append(@, r)]
  /\ call' = [call EXCEPT ![r] = "waiting"]
  /\ UNCHANGED <<result, expired, resp, workerVars, transportVars, closeVars, bypassed>>

(* The call returns.  The deferred cancel ends the context at once when    *)
(* the engine made it; a context with its own deadline lives on.           *)
Return(r, phase, value) ==
  /\ call' = [call EXCEPT ![r] = phase]
  /\ result' = [result EXCEPT ![r] = value]
  /\ expired' \in {expired, expired \cup {r}}

(* Fault: a call is refused although its request is already queued. *)
RejectLate(r) ==
  /\ call[r] \in {"submitting", "waiting"}
  /\ r \in expired
  /\ Return(r, "rejected", "ctx")
  /\ UNCHANGED <<queue, resp, workerVars, transportVars, closeVars, bypassed>>

(* The submitting select took another branch than the send; only the low   *)
(* tier has a default branch, taken when no other is ready.                *)
Reject(r) ==
  /\ call[r] = "submitting"
  /\ \/ stopping /\ Return(r, "rejected", "closed")
     \/ r \in expired /\ Return(r, "rejected", "ctx")
     \/ /\ Prio[r] = "low"
        /\ Full("low")
        /\ ~stopping
        /\ r \notin expired
        /\ Return(r, "rejected", "full")
  /\ UNCHANGED <<queue, resp, workerVars, transportVars, closeVars, bypassed>>

TakeResponse(r) ==
  /\ call[r] = "waiting"
  /\ resp[r] # "none"
  /\ Return(r, "returned", resp[r])
  /\ resp' = [resp EXCEPT ![r] = "none"]
  /\ UNCHANGED <<queue, workerVars, transportVars, closeVars, bypassed>>

(* Fault: the caller looks at its context only once it has a reply. *)
StopWaitingLate(r) ==
  /\ call[r] = "waiting"
  /\ resp[r] # "none"
  /\ r \in expired
  /\ Return(r, "returned", "ctx")
  /\ UNCHANGED <<queue, resp, workerVars, transportVars, closeVars, bypassed>>

(* The caller leaves; its request stays where it is. *)
StopWaiting(r) ==
  /\ call[r] = "waiting"
  /\ \/ stopping /\ Return(r, "returned", "closed")
     \/ r \in expired /\ Return(r, "returned", "ctx")
  /\ UNCHANGED <<queue, resp, workerVars, transportVars, closeVars, bypassed>>

Caller(r) == Call(r) \/ Enqueue(r) \/ Reject(r) \/ TakeResponse(r) \/ StopWaiting(r)

-----------------------------------------------------------------------------
(* The worker: workerLoop's three selects.                                 *)

Selects == {"sel1", "sel2", "sel3"}

(* Fault: one select over all the channels. *)
OfferedAtOnce(l) == Tiers

(* The tiers whose channels the select at location l receives from. *)
Offered(l) == CASE l = "sel1" -> {"high"}
                [] l = "sel2" -> {"high", "norm"}
                [] l = "sel3" -> Tiers

(* No branch of a non-blocking select is ready: its default. *)
FallThrough(l, next) ==
  /\ pc = l
  /\ ~stopping
  /\ \A t \in Offered(l) : queue[t] = <<>>
  /\ pc' = next
  /\ UNCHANGED <<callerVars, queue, resp, cur, transportVars, closeVars, bypassed>>

(* Fault: with the two upper tiers empty, the worker starts over. *)
SkipNormalToTop == FallThrough("sel2", "sel1")

SkipHigh   == FallThrough("sel1", "sel2")
SkipNormal == FallThrough("sel2", "sel3")

(* A select picks at random among the ready channels it offers. *)
Receive(t) ==
  /\ pc \in Selects
  /\ t \in Offered(pc)
  /\ queue[t] # <<>>
  /\ cur' = Head(queue[t])
  /\ queue' = [queue EXCEPT ![t] = Tail(@)]
  /\ bypassed' = [r \in Requests |->
                    IF Prio[r] \in Above(t) /\ Queued(r) THEN bypassed[r] + 1
                                                         ELSE bypassed[r]]
  /\ pc' = "check"
  /\ UNCHANGED <<callerVars, resp, transportVars, closeVars>>

(* Fault: stopChan is only in the last select. *)
WorkerExitLast ==
  /\ pc = "sel3"
  /\ stopping
  /\ pc' = "exited"
  /\ UNCHANGED <<callerVars, queue, resp, cur, transportVars, closeVars, bypassed>>

(* stopChan is in every select, and picked at random with the others. *)
WorkerExit ==
  /\ pc \in Selects
  /\ stopping
  /\ pc' = "exited"
  /\ UNCHANGED <<callerVars, queue, resp, cur, transportVars, closeVars, bypassed>>

-----------------------------------------------------------------------------
(* The worker: processRequest.                                             *)

(* The reply is dropped when the one-place channel is occupied. *)
Reply(kind) ==
  /\ resp' = IF resp[cur] = "none" THEN [resp EXCEPT ![cur] = kind] ELSE resp
  /\ cur' = NoReq

(* Faults: an expired request gets no reply, is sent after the reply all   *)
(* the same, or is reported as answered.                                   *)
SkipExpiredSilently ==
  /\ pc = "check"
  /\ cur \in expired
  /\ cur' = NoReq
  /\ pc' = "sel1"
  /\ UNCHANGED <<callerVars, queue, resp, transportVars, closeVars, bypassed>>

SkipExpiredAndSend ==
  /\ pc = "check"
  /\ cur \in expired
  /\ resp' = [resp EXCEPT ![cur] = "fail"]
  /\ Transport!Begin(cur)
  /\ pc' = "sending"
  /\ UNCHANGED <<callerVars, queue, cur, closeVars, bypassed>>

SkipExpiredAsAnswered ==
  /\ pc = "check"
  /\ cur \in expired
  /\ Reply("answer")
  /\ pc' = "sel1"
  /\ UNCHANGED <<callerVars, queue, transportVars, closeVars, bypassed>>

(* Expired before it was sent: reply without sending, and no debounce. *)
SkipExpired ==
  /\ pc = "check"
  /\ cur \in expired
  /\ Reply("fail")
  /\ pc' = "sel1"
  /\ UNCHANGED <<callerVars, queue, transportVars, closeVars, bypassed>>

StartSend ==
  /\ pc = "check"
  /\ cur \notin expired
  /\ Transport!Begin(cur)
  /\ pc' = "sending"
  /\ UNCHANGED <<callerVars, queue, resp, cur, closeVars, bypassed>>

(* Inside Send the modem receives the command. *)
SendWrites ==
  /\ pc = "sending"
  /\ Transport!Write
  /\ UNCHANGED <<callerVars, queue, resp, workerVars, closeVars, bypassed>>

SendReturns(kind) ==
  /\ pc = "sending"
  /\ Transport!End(kind)
  /\ Reply(kind)
  /\ pc' = "debounce"
  /\ UNCHANGED <<callerVars, queue, closeVars, bypassed>>

(* The debounce timer fires, or stopChan cuts it short. *)
Debounced ==
  /\ pc = "debounce"
  /\ pc' = "sel1"
  /\ UNCHANGED <<callerVars, queue, resp, cur, transportVars, closeVars, bypassed>>

Worker == \/ SkipHigh \/ SkipNormal \/ WorkerExit
          \/ \E t \in Tiers : Receive(t)
          \/ SkipExpired \/ StartSend \/ SendWrites \/ Debounced
          \/ \E kind \in Replies : SendReturns(kind)

-----------------------------------------------------------------------------
(* Close: the first call closes stopChan and waits for the worker.         *)

CloseBegin ==
  /\ closer = "open"
  /\ closer' = "waiting"
  /\ stopping' = TRUE
  /\ UNCHANGED <<callerVars, queue, resp, workerVars, transportVars, bypassed>>

(* Fault: Close does not wait for the worker. *)
CloseReturnAtOnce ==
  /\ closer = "waiting"
  /\ closer' = "closed"
  /\ UNCHANGED <<callerVars, queue, resp, workerVars, transportVars, stopping, bypassed>>

(* wg.Wait has returned. *)
CloseReturn ==
  /\ closer = "waiting"
  /\ pc = "exited"
  /\ closer' = "closed"
  /\ UNCHANGED <<callerVars, queue, resp, workerVars, transportVars, stopping, bypassed>>

-----------------------------------------------------------------------------

Init ==
  /\ call = [r \in Requests |-> "idle"]
  /\ result = [r \in Requests |-> "none"]
  /\ expired = {}
  /\ queue = [t \in Tiers |-> <<>>]
  /\ resp = [r \in Requests |-> "none"]
  /\ pc = "sel1"
  /\ cur = NoReq
  /\ Transport!Init
  /\ stopping = FALSE
  /\ closer = "open"
  /\ bypassed = [r \in Requests |-> 0]

Next ==
  \/ \E r \in Requests : Caller(r) \/ Expire(r)
  \/ Worker
  \/ CloseBegin \/ CloseReturn

Spec == Init /\ [][Next]_vars

-----------------------------------------------------------------------------
(* Properties.                                                             *)

TypeOK ==
  /\ call \in [Requests -> Phases]
  /\ result \in [Requests -> Returns \cup {"none"}]
  /\ expired \subseteq Requests
  /\ queue \in [Tiers -> Seq(Requests)]
  /\ resp \in [Requests -> Replies \cup {"none"}]
  /\ pc \in Locations
  /\ cur \in Requests \cup {NoReq}
  /\ Transport!TypeOK
  /\ stopping \in BOOLEAN
  /\ closer \in {"open", "waiting", "closed"}
  /\ bypassed \in [Requests -> Nat]

(* Every caller that waits can still be woken: its request is queued, is   *)
(* in the worker's hands, or has its reply in the channel.  Once the       *)
(* worker has exited the caller is woken by stopChan instead.              *)
NoLostRequest ==
  \A r \in Requests :
    call[r] = "waiting" =>
      Queued(r) \/ cur = r \/ resp[r] # "none" \/ (pc = "exited" /\ stopping)

(* The default branch of the worker's reply never drops an answer: when it *)
(* has a request in hand, that request has had no reply and no result of   *)
(* a reply yet, although the caller may be long gone.                      *)
ReplyNeverDropped ==
  cur # NoReq => resp[cur] = "none" /\ result[cur] \notin Replies

(* However the selects race with the callers, a queued request sees at     *)
(* most one request of a lower tier go ahead of it ("by more than 1 queue  *)
(* tick", docs/plan/coveragetest.md).                                      *)
BoundedInversion == \A r \in Requests : bypassed[r] <= 1

(* A call refused while submitting (tier full, context done, engine        *)
(* closed) has no effect: its command never reaches the modem.             *)
RejectedNeverSent ==
  \A r \in Requests : call[r] = "rejected" => sent[r] = 0 /\ ~Queued(r) /\ cur # r

(* A caller told that the modem answered is told so of a command the modem *)
(* received.                                                               *)
AnswerMeansSent ==
  \A r \in Requests : result[r] = "answer" => sent[r] > 0

(* Once Close has returned the engine writes nothing more to the modem.    *)
NoCommandAfterClose == [][closer = "closed" => sent' = sent]_vars

(* What a caller knows of its command, from where it is in the call and    *)
(* what that returned.                                                     *)
Knows(phase, value) ==
  CASE phase = "idle"                       -> "idle"
    [] phase \in {"submitting", "waiting"} -> "asked"
    [] phase = "rejected"                   -> "refused"
    [] phase = "returned" /\ value \in Replies    -> value
    [] phase = "returned" /\ value \notin Replies -> "left"

Known == [r \in Requests |-> Knows(call[r], result[r])]

(* What a caller may conclude from its result, whatever the other calls,   *)
(* the worker and Close do at the same time: a refused command never       *)
(* reaches the modem, one with a verdict does not reach it again, and none *)
(* reaches it after Close.                                                 *)
Service == INSTANCE ATService
  WITH Calls <- Requests, phase <- Known, received <- sent, closed <- (closer = "closed")
ImplementsService == Service!Spec

(* What the documents say and the selects do not do: a queued high request *)
(* "takes immediate precedence over all pending requests".                 *)
ImmediatePrecedence == \A r \in Requests : Prio[r] = "high" => bypassed[r] = 0

(* Every call returns: no worker, lock or modem can hang a caller.         *)
EveryCallReturns ==
  \A r \in Requests : call[r] \in {"submitting", "waiting"} ~> call[r] \in {"returned", "rejected"}

(* No request is left in its channel while the worker runs: neither the    *)
(* higher tiers nor a caller that left can keep it there.                  *)
EveryRequestTaken ==
  \A r \in Requests : Queued(r) ~> (~Queued(r) \/ pc = "exited")

(* Close returns.                                                          *)
CloseReturns == stopping ~> closer = "closed"
=============================================================================
