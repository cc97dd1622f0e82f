--------------------------- MODULE ATEngineProofs ---------------------------
(***************************************************************************)
(* Proofs about the AT command engine, for any set of calls, any tiers,    *)
(* any channel sizes and any number of writes per command.                 *)
(***************************************************************************)
EXTENDS ATStack, TLAPS

-----------------------------------------------------------------------------
(* Type correctness.                                                       *)

(* Where the worker holds a request and where the transport does. *)
HandOver ==
  /\ pc \in {"check", "sending"} => cur \in Requests
  /\ pc \notin {"check", "sending"} => cur = NoReq
  /\ pc = "sending" => sending = cur
  /\ pc # "sending" => sending = NoReq

TypeInv == TypeOK /\ HandOver

(* The engine is created in a typed state, with no request handed over. *)
LEMMA TypeInit == Init => TypeInv
<1> SUFFICES ASSUME Init PROVE TypeInv
  OBVIOUS
<1>1. Transport!TypeOK
  BY MaxWritesAssumption DEF Init, Transport!Init, Transport!TypeOK
<1>2. queue \in [Tiers -> Seq(Requests)] /\ bypassed \in [Requests -> Nat]
  BY DEF Init
<1> QED
  BY <1>1, <1>2 DEF Init, TypeInv, TypeOK, HandOver, Phases, Locations, Transport!Init

(* Every step of a caller, of the worker and of Close keeps the types and  *)
(* the hand-over.                                                          *)
LEMMA TypeNext == TypeInv /\ [Next]_vars => TypeInv'
<1> SUFFICES ASSUME TypeInv, [Next]_vars PROVE TypeInv'
  OBVIOUS
<1> USE DEF TypeInv, HandOver, Phases, Locations, Returns, Replies, Transport!Kinds
<1>1. ASSUME NEW r \in Requests, Call(r) PROVE TypeInv'
  BY <1>1 DEF Call, TypeOK, Transport!TypeOK, workerVars, transportVars, closeVars
<1>2. ASSUME NEW r \in Requests, Expire(r) PROVE TypeInv'
  BY <1>2 DEF Expire, TypeOK, Transport!TypeOK, workerVars, transportVars, closeVars
<1>3. ASSUME NEW r \in Requests, Enqueue(r) PROVE TypeInv'
  <2> DEFINE q == queue[Prio[r]]
  <2>1. Append(q, r) \in Seq(Requests)
    BY PrioAssumption DEF TypeOK
  <2>2. queue' = [queue EXCEPT ![Prio[r]] = Append(q, r)]
    BY <1>3 DEF Enqueue
  <2> HIDE DEF q
  <2>3. queue' \in [Tiers -> Seq(Requests)]
    BY <2>1, <2>2 DEF TypeOK
  <2> QED
    BY <1>3, <2>3 DEF Enqueue, TypeOK, Transport!TypeOK, workerVars, transportVars, closeVars
<1>4. ASSUME NEW r \in Requests, Reject(r) PROVE TypeInv'
  BY <1>4 DEF Reject, Return, TypeOK, Transport!TypeOK, workerVars, transportVars, closeVars
<1>5. ASSUME NEW r \in Requests, TakeResponse(r) PROVE TypeInv'
  BY <1>5 DEF TakeResponse, Return, TypeOK, Transport!TypeOK, workerVars, transportVars, closeVars
<1>6. ASSUME NEW r \in Requests, StopWaiting(r) PROVE TypeInv'
  BY <1>6 DEF StopWaiting, Return, TypeOK, Transport!TypeOK, workerVars, transportVars, closeVars
<1>7. CASE SkipHigh \/ SkipNormal
  BY <1>7 DEF SkipHigh, SkipNormal, FallThrough, TypeOK, Transport!TypeOK, callerVars,
              transportVars, closeVars
<1>8. ASSUME NEW t \in Tiers, Receive(t) PROVE TypeInv'
  BY <1>8 DEF Receive, Selects, TypeOK, Transport!TypeOK, callerVars, transportVars, closeVars
<1>9. CASE WorkerExit
  BY <1>9 DEF WorkerExit, Selects, TypeOK, Transport!TypeOK, callerVars, transportVars, closeVars
<1>10. CASE SkipExpired
  BY <1>10 DEF SkipExpired, Reply, TypeOK, Transport!TypeOK, callerVars, transportVars, closeVars
<1>11. CASE StartSend
  BY <1>11 DEF StartSend, Transport!Begin, TypeOK, Transport!TypeOK, callerVars, closeVars
<1>12. CASE SendWrites
  <2>1. sent' \in [Requests -> 0..MaxWrites]
    BY <1>12, MaxWritesAssumption DEF SendWrites, Transport!Write, TypeOK, Transport!TypeOK
  <2> QED
    BY <1>12, <2>1 DEF SendWrites, Transport!Write, TypeOK, Transport!TypeOK, callerVars,
                       workerVars, closeVars
<1>13. ASSUME NEW kind \in Replies, SendReturns(kind) PROVE TypeInv'
  BY <1>13 DEF SendReturns, Transport!End, Reply, TypeOK, Transport!TypeOK, callerVars, closeVars
<1>14. CASE Debounced
  BY <1>14 DEF Debounced, TypeOK, Transport!TypeOK, callerVars, transportVars, closeVars
<1>15. CASE CloseBegin
  BY <1>15 DEF CloseBegin, TypeOK, Transport!TypeOK, callerVars, workerVars, transportVars
<1>16. CASE CloseReturn
  BY <1>16 DEF CloseReturn, TypeOK, Transport!TypeOK, callerVars, workerVars, transportVars
<1>17. CASE UNCHANGED vars
  BY <1>17 DEF vars, TypeOK, Transport!TypeOK, callerVars, workerVars, transportVars, closeVars
<1> QED
  BY <1>1, <1>2, <1>3, <1>4, <1>5, <1>6, <1>7, <1>8, <1>9, <1>10, <1>11, <1>12, <1>13, <1>14,
     <1>15, <1>16, <1>17 DEF Next, Caller, Worker

(* The two facts before, for every reachable state. *)
LEMMA TypeInvariant == Spec => []TypeInv
  BY TypeInit, TypeNext, PTL DEF Spec

(* Every variable has its type in every reachable state; in particular the *)
(* modem never receives a command more than MaxWrites times.               *)
THEOREM TypeCorrect == Spec => []TypeOK
<1>1. TypeInv => TypeOK
  BY DEF TypeInv
<1> QED
  BY <1>1, TypeInvariant, PTL

-----------------------------------------------------------------------------
(* The channels.                                                           *)

(* Enqueue adds its request and nothing else. *)
LEMMA EnqueueAdds ==
  ASSUME TypeInv, NEW r \in Requests, Enqueue(r)
  PROVE  \A s \in Requests : Queued(s)' <=> Queued(s) \/ s = r
<1> DEFINE q == queue[Prio[r]]
<1>1. q \in Seq(Requests) /\ Prio[r] \in Tiers
  BY PrioAssumption DEF TypeInv, TypeOK
<1>2. /\ queue'[Prio[r]] = Append(q, r)
      /\ \A t \in Tiers \ {Prio[r]} : queue'[t] = queue[t]
  BY <1>1 DEF Enqueue, TypeInv, TypeOK
<1>3. TAKE s \in Requests
<1>4. Prio[s] \in Tiers
  BY PrioAssumption
<1>5. CASE Prio[s] # Prio[r]
  BY <1>2, <1>4, <1>5 DEF Queued
<1>6. CASE Prio[s] = Prio[r]
  <2>1. /\ Len(Append(q, r)) = Len(q) + 1
        /\ Append(q, r)[Len(q) + 1] = r
        /\ \A i \in 1..Len(q) : Append(q, r)[i] = q[i]
        /\ Len(q) \in Nat
    BY <1>1
  <2> HIDE DEF q
  <2>2. Queued(s)' <=> \E i \in 1..(Len(q) + 1) : Append(q, r)[i] = s
    BY <1>2, <1>6, <2>1 DEF Queued
  <2>3. Queued(s) <=> \E i \in 1..Len(q) : q[i] = s
    BY <1>6 DEF Queued, q
  <2> QED
    BY <2>1, <2>2, <2>3
<1> QED
  BY <1>5, <1>6

(* Receive takes one request from the head of one channel and leaves every *)
(* other request where it is.                                              *)
LEMMA ReceiveTakes ==
  ASSUME TypeInv, NEW t \in Tiers, Receive(t)
  PROVE  /\ cur' \in Requests
         /\ \A s \in Requests : Queued(s)' => Queued(s)
         /\ \A s \in Requests : Queued(s) => Queued(s)' \/ cur' = s
<1> DEFINE q == queue[t]
<1>1. q \in Seq(Requests) /\ q # <<>> /\ cur' = Head(q)
  BY DEF Receive, TypeInv, TypeOK
<1>2. /\ queue'[t] = Tail(q)
      /\ \A u \in Tiers \ {t} : queue'[u] = queue[u]
  BY DEF Receive, TypeInv, TypeOK
<1>3. /\ Len(q) \in Nat \ {0}
      /\ Head(q) = q[1] /\ q[1] \in Requests
      /\ Len(Tail(q)) = Len(q) - 1
      /\ \A i \in 1..(Len(q) - 1) : Tail(q)[i] = q[i + 1]
  BY <1>1
<1> HIDE DEF q
<1>4. ASSUME NEW s \in Requests
      PROVE  (Queued(s)' => Queued(s)) /\ (Queued(s) => Queued(s)' \/ cur' = s)
  <2>1. Prio[s] \in Tiers
    BY PrioAssumption
  <2>2. CASE Prio[s] # t
    BY <1>2, <2>1, <2>2 DEF Queued
  <2>3. CASE Prio[s] = t
    <3>1. Queued(s) <=> \E i \in 1..Len(q) : q[i] = s
      BY <2>3 DEF Queued, q
    <3>2. Queued(s)' <=> \E i \in 1..(Len(q) - 1) : q[i + 1] = s
      BY <1>2, <1>3, <2>3 DEF Queued
    <3>3. Queued(s)' => Queued(s)
      BY <1>3, <3>1, <3>2
    <3>4. ASSUME Queued(s) PROVE Queued(s)' \/ cur' = s
      <4>1. PICK i \in 1..Len(q) : q[i] = s
        BY <3>1, <3>4
      <4>2. CASE i = 1
        BY <1>1, <1>3, <4>1, <4>2
      <4>3. CASE i # 1
        <5>1. i - 1 \in 1..(Len(q) - 1) /\ q[(i - 1) + 1] = s
          BY <1>3, <4>1, <4>3
        <5> QED
          BY <3>2, <5>1
      <4> QED
        BY <4>2, <4>3
    <3> QED
      BY <3>3, <3>4
  <2> QED
    BY <2>2, <2>3
<1> QED
  BY <1>1, <1>3, <1>4

(* The steps of callers and of the transport that leave the channels and   *)
(* the worker's request alone.                                             *)
Elsewhere ==
  \/ \E r \in Requests : Call(r) \/ Expire(r) \/ Reject(r) \/ TakeResponse(r) \/ StopWaiting(r)
  \/ SkipHigh \/ SkipNormal \/ WorkerExit \/ StartSend \/ SendWrites \/ Debounced
  \/ CloseBegin \/ CloseReturn
  \/ UNCHANGED vars

(* A step enqueues, receives, ends a request, or leaves the channels and   *)
(* the worker's request alone.                                             *)
LEMMA StepCases ==
  ASSUME [Next]_vars
  PROVE  \/ Elsewhere \/ SkipExpired
         \/ \E r \in Requests : Enqueue(r)
         \/ \E t \in Tiers : Receive(t)
         \/ \E kind \in Replies : SendReturns(kind)
  BY DEF Next, Caller, Worker, Elsewhere

(* What the steps that neither receive nor enqueue leave alone. *)
LEMMA ElsewhereKeeps == Elsewhere => UNCHANGED <<queue, cur, bypassed>>
  BY DEF Elsewhere, Call, Expire, Reject, TakeResponse, StopWaiting, SkipHigh, SkipNormal,
         FallThrough, WorkerExit, StartSend, SendWrites, Debounced, CloseBegin, CloseReturn,
         vars, workerVars

-----------------------------------------------------------------------------
(* Bounded inversion.                                                      *)

(* The locations of the worker from which it may take a request of a tier  *)
(* below r's.                                                              *)
Exposed(r) == \/ Prio[r] = "high" /\ pc \in {"sel2", "sel3"}
              \/ Prio[r] = "norm" /\ pc = "sel3"

(* A request that was passed by once is still queued when the worker comes *)
(* back to its first select, and that select does not let it by again.     *)
InversionInv ==
  \A r \in Requests :
    /\ bypassed[r] <= 1
    /\ call[r] \in {"idle", "submitting"} => bypassed[r] = 0
    /\ Queued(r) => call[r] \notin {"idle", "submitting"}
    /\ Queued(r) /\ Exposed(r) => bypassed[r] = 0

(* No request is queued when the engine is created. *)
LEMMA InversionInit == Init => InversionInv
  BY PrioAssumption DEF Init, InversionInv, Exposed, Queued

(* A request that was passed once is not passed again: the worker starts   *)
(* over at a select that offers its channel, or a higher one, first.       *)
LEMMA InversionNext == TypeInv /\ InversionInv /\ [Next]_vars => InversionInv'
<1> SUFFICES ASSUME TypeInv, InversionInv, [Next]_vars PROVE InversionInv'
  OBVIOUS
<1> USE DEF InversionInv, Exposed
<1>1. CASE Elsewhere
  <2>1. \A r \in Requests : Queued(r)' <=> Queued(r)
    BY <1>1, ElsewhereKeeps DEF Queued
  <2>2. \A r \in Requests :
          call'[r] \in {"idle", "submitting"} => call[r] \in {"idle", "submitting"}
    BY <1>1 DEF Elsewhere, Call, Expire, Reject, TakeResponse, StopWaiting, Return, SkipHigh,
                SkipNormal, FallThrough, WorkerExit, StartSend, SendWrites, Debounced, CloseBegin,
                CloseReturn, vars, callerVars, TypeInv, TypeOK
  <2>3. ASSUME NEW r \in Requests, Queued(r), Exposed(r)' PROVE Exposed(r)
    <3>1. CASE SkipHigh
      BY <2>3, <3>1 DEF SkipHigh, FallThrough, Offered, Queued
    <3>2. CASE SkipNormal
      BY <2>3, <3>2 DEF SkipNormal, FallThrough, Offered, Queued
    <3>3. CASE ~SkipHigh /\ ~SkipNormal
      BY <1>1, <2>3, <3>3 DEF Elsewhere, Call, Expire, Reject, TakeResponse, StopWaiting,
                WorkerExit, StartSend, SendWrites, Debounced, CloseBegin, CloseReturn, vars,
                workerVars
    <3> QED
      BY <3>1, <3>2, <3>3
  <2> QED
    BY <1>1, <2>1, <2>2, <2>3, ElsewhereKeeps
<1>2. CASE SkipExpired
  BY <1>2 DEF SkipExpired, Reply, callerVars, Queued
<1>3. ASSUME NEW r \in Requests, Enqueue(r) PROVE InversionInv'
  <2>1. bypassed' = bypassed /\ bypassed[r] = 0 /\ pc' = pc
    BY <1>3 DEF Enqueue, workerVars
  <2>2. call'[r] = "waiting" /\ \A s \in Requests \ {r} : call'[s] = call[s]
    BY <1>3 DEF Enqueue, TypeInv, TypeOK
  <2> QED
    BY <1>3, <2>1, <2>2, EnqueueAdds
<1>4. ASSUME NEW t \in Tiers, Receive(t) PROVE InversionInv'
  <2>1. call' = call /\ pc' = "check"
    BY <1>4 DEF Receive, callerVars
  <2>2. ASSUME NEW r \in Requests PROVE
          bypassed'[r] <= 1 /\ (call[r] \in {"idle", "submitting"} => bypassed'[r] = 0)
    <3>1. CASE Prio[r] \in Above(t) /\ Queued(r)
      <4>1. Exposed(r)
        BY <1>4, <3>1 DEF Receive, Selects, Offered, Above, Tiers
      <4>2. bypassed'[r] = bypassed[r] + 1
        BY <1>4, <3>1 DEF Receive
      <4> QED
        BY <3>1, <4>1, <4>2
    <3>2. CASE ~(Prio[r] \in Above(t) /\ Queued(r))
      BY <1>4, <3>2 DEF Receive
    <3> QED
      BY <3>1, <3>2
  <2> QED
    BY <1>4, <2>1, <2>2, ReceiveTakes
<1>5. ASSUME NEW kind \in Replies, SendReturns(kind) PROVE InversionInv'
  BY <1>5 DEF SendReturns, callerVars, Queued
<1> QED
  BY <1>1, <1>2, <1>3, <1>4, <1>5, StepCases

(* A queued request is passed by at most one request of a lower tier,      *)
(* however many callers keep the lower tiers full and however the selects  *)
(* choose.                                                                 *)
THEOREM InversionBounded == Spec => []BoundedInversion
<1>1. InversionInv => BoundedInversion
  BY DEF InversionInv, BoundedInversion
<1>2. Spec => []InversionInv
  BY TypeInvariant, InversionInit, InversionNext, PTL DEF Spec
<1> QED
  BY <1>1, <1>2, PTL

-----------------------------------------------------------------------------
(* A request is in one place at a time.                                    *)

Unsubmitted(r) == call[r] \in {"idle", "submitting", "rejected"}
Fresh(r) == resp[r] = "none" /\ result[r] \notin Replies

(* A channel holds requests of its tier, and each of them once. *)
Orderly(q, t) ==
  /\ \A i \in 1..Len(q) : Prio[q[i]] = t
  /\ \A i, j \in 1..Len(q) : q[i] = q[j] => i = j

ChannelInv == \A t \in Tiers : Orderly(queue[t], t)

(* A request that was not submitted is nowhere, a queued one is not the    *)
(* worker's, and until the worker is done with it there is no reply.       *)
PlaceInv ==
  \A r \in Requests :
    /\ Queued(r) => cur # r
    /\ Unsubmitted(r) => ~Queued(r) /\ cur # r /\ sent[r] = 0
    /\ Queued(r) \/ cur = r \/ Unsubmitted(r) => Fresh(r)

(* When the engine is created, no request is anywhere. *)
LEMMA PlaceInit == Init => ChannelInv /\ PlaceInv
<1> SUFFICES ASSUME Init PROVE ChannelInv /\ PlaceInv
  OBVIOUS
<1>1. \A t \in Tiers : Len(queue[t]) = 0
  BY DEF Init
<1>2. \A r \in Requests : ~Queued(r)
  BY <1>1, PrioAssumption DEF Queued
<1> QED
  BY <1>1, <1>2, NoReqAssumption DEF Init, Transport!Init, ChannelInv, Orderly, PlaceInv, Fresh, Replies,
                                     Transport!Kinds

(* Receive takes the only copy of its request. *)
LEMMA ReceiveTakesOnly ==
  ASSUME TypeInv, ChannelInv, NEW t \in Tiers, Receive(t)
  PROVE  ChannelInv' /\ Queued(cur') /\ \A s \in Requests : s = cur' => ~Queued(s)'
<1> DEFINE q == queue[t]
<1>1. q \in Seq(Requests) /\ q # <<>> /\ cur' = Head(q)
  BY DEF Receive, TypeInv, TypeOK
<1>2. /\ queue'[t] = Tail(q)
      /\ \A u \in Tiers \ {t} : queue'[u] = queue[u]
  BY DEF Receive, TypeInv, TypeOK
<1>3. /\ Len(q) \in Nat \ {0}
      /\ Head(q) = q[1]
      /\ Len(Tail(q)) = Len(q) - 1
      /\ \A i \in 1..(Len(q) - 1) : Tail(q)[i] = q[i + 1]
  BY <1>1
<1>4. /\ \A i \in 1..Len(q) : Prio[q[i]] = t
      /\ \A i, j \in 1..Len(q) : q[i] = q[j] => i = j
  BY DEF ChannelInv, Orderly
<1> HIDE DEF q
<1>5. \A i \in 1..(Len(q) - 1) : i + 1 \in 1..Len(q)
  BY <1>3
<1>6. Orderly(Tail(q), t)
  <2>1. \A i \in 1..Len(Tail(q)) : Prio[Tail(q)[i]] = t
    BY <1>3, <1>4, <1>5
  <2>2. ASSUME NEW i \in 1..(Len(q) - 1), NEW j \in 1..(Len(q) - 1), Tail(q)[i] = Tail(q)[j]
        PROVE  i = j
    <3>1. q[i + 1] = q[j + 1] /\ i + 1 \in 1..Len(q) /\ j + 1 \in 1..Len(q)
      BY <1>3, <1>5, <2>2
    <3>2. i + 1 = j + 1
      BY <1>4, <3>1
    <3> QED
      BY <3>2
  <2> QED
    BY <1>3, <2>1, <2>2 DEF Orderly
<1>7. ChannelInv'
  BY <1>2, <1>6 DEF ChannelInv
<1>8. 1 \in 1..Len(q) /\ Prio[cur'] = t /\ cur' = q[1]
  BY <1>1, <1>3, <1>4
<1>9. Queued(cur')
  BY <1>8 DEF Queued, q
<1>10. ASSUME NEW s \in Requests, s = cur', Queued(s)' PROVE FALSE
  <2>1. PICK i \in 1..(Len(q) - 1) : Tail(q)[i] = cur'
    BY <1>2, <1>3, <1>8, <1>10 DEF Queued
  <2>2. q[i + 1] = q[1] /\ i + 1 \in 1..Len(q) /\ i + 1 # 1
    BY <1>3, <1>5, <1>8, <2>1
  <2> QED
    BY <1>4, <1>8, <2>2
<1> QED
  BY <1>7, <1>9, <1>10

(* Enqueue adds its request to its own channel, where it was not. *)
LEMMA EnqueueAddsOnce ==
  ASSUME TypeInv, ChannelInv, NEW r \in Requests, ~Queued(r), Enqueue(r)
  PROVE  ChannelInv'
<1> DEFINE q == queue[Prio[r]]
<1>1. q \in Seq(Requests) /\ Prio[r] \in Tiers
  BY PrioAssumption DEF TypeInv, TypeOK
<1>2. /\ queue'[Prio[r]] = Append(q, r)
      /\ \A t \in Tiers \ {Prio[r]} : queue'[t] = queue[t]
  BY <1>1 DEF Enqueue, TypeInv, TypeOK
<1>3. /\ Len(Append(q, r)) = Len(q) + 1
      /\ Append(q, r)[Len(q) + 1] = r
      /\ \A i \in 1..Len(q) : Append(q, r)[i] = q[i]
      /\ Len(q) \in Nat
  BY <1>1
<1>4. /\ \A i \in 1..Len(q) : Prio[q[i]] = Prio[r] /\ q[i] # r
      /\ \A i, j \in 1..Len(q) : q[i] = q[j] => i = j
  BY <1>1 DEF ChannelInv, Orderly, Queued
<1> HIDE DEF q
<1>5. Orderly(Append(q, r), Prio[r])
  BY <1>3, <1>4 DEF Orderly
<1> QED
  BY <1>2, <1>5 DEF ChannelInv

(* Every step moves a request from its caller to one channel, from there to *)
(* the worker, and from there to its reply, and never back.                *)
LEMMA PlaceNext ==
  TypeInv /\ ChannelInv /\ PlaceInv /\ [Next]_vars => ChannelInv' /\ PlaceInv'
<1> SUFFICES ASSUME TypeInv, ChannelInv, PlaceInv, [Next]_vars PROVE ChannelInv' /\ PlaceInv'
  OBVIOUS
<1> USE DEF PlaceInv, Unsubmitted, Fresh
<1>1. CASE Elsewhere
  <2>1. cur' = cur /\ ChannelInv' /\ \A s \in Requests : Queued(s)' <=> Queued(s)
    BY <1>1, ElsewhereKeeps DEF Queued, ChannelInv
  <2>2. ASSUME NEW r \in Requests, Call(r) \/ Expire(r) PROVE PlaceInv'
    BY <2>1, <2>2 DEF Call, Expire, transportVars, TypeInv, TypeOK
  <2>3. ASSUME NEW r \in Requests, Reject(r) PROVE PlaceInv'
    BY <2>1, <2>3 DEF Reject, Return, transportVars, TypeInv, TypeOK, Replies, Transport!Kinds
  <2>4. ASSUME NEW r \in Requests, TakeResponse(r) PROVE PlaceInv'
    BY <2>1, <2>4 DEF TakeResponse, Return, transportVars, TypeInv, TypeOK
  <2>5. ASSUME NEW r \in Requests, StopWaiting(r) PROVE PlaceInv'
    BY <2>1, <2>5 DEF StopWaiting, Return, transportVars, TypeInv, TypeOK, Replies,
                      Transport!Kinds
  <2>6. CASE SkipHigh \/ SkipNormal \/ WorkerExit \/ Debounced \/ StartSend
    BY <2>1, <2>6 DEF SkipHigh, SkipNormal, FallThrough, WorkerExit, Debounced, StartSend,
                      Transport!Begin, callerVars, transportVars
  <2>7. CASE SendWrites
    BY <2>1, <2>7 DEF SendWrites, Transport!Write, callerVars, TypeInv, HandOver, TypeOK,
                      Transport!TypeOK
  <2>8. CASE CloseBegin \/ CloseReturn \/ UNCHANGED vars
    BY <2>1, <2>8 DEF CloseBegin, CloseReturn, vars, callerVars, transportVars
  <2> QED
    BY <1>1, <2>1, <2>2, <2>3, <2>4, <2>5, <2>6, <2>7, <2>8 DEF Elsewhere
<1>2. CASE SkipExpired
  BY <1>2, NoReqAssumption DEF SkipExpired, Reply, callerVars, transportVars, Queued, ChannelInv,
           TypeInv, HandOver, TypeOK
<1>3. ASSUME NEW r \in Requests, Enqueue(r) PROVE ChannelInv' /\ PlaceInv'
  <2>1. ~Queued(r) /\ cur # r /\ Fresh(r)
    BY <1>3 DEF Enqueue
  <2>2. /\ call'[r] = "waiting" /\ \A s \in Requests \ {r} : call'[s] = call[s]
        /\ UNCHANGED <<resp, result, cur, sent>>
    BY <1>3 DEF Enqueue, workerVars, transportVars, TypeInv, TypeOK
  <2> QED
    BY <1>3, <2>1, <2>2, EnqueueAdds, EnqueueAddsOnce
<1>4. ASSUME NEW t \in Tiers, Receive(t) PROVE ChannelInv' /\ PlaceInv'
  <2>1. UNCHANGED <<call, resp, result, sent>>
    BY <1>4 DEF Receive, callerVars, transportVars
  <2>2. ChannelInv' /\ Queued(cur') /\ \A s \in Requests : s = cur' => ~Queued(s)'
    BY <1>4, ReceiveTakesOnly
  <2>3. cur' \in Requests /\ \A s \in Requests : Queued(s)' => Queued(s)
    BY <1>4, ReceiveTakes
  <2> QED
    BY <2>1, <2>2, <2>3
<1>5. ASSUME NEW kind \in Replies, SendReturns(kind) PROVE ChannelInv' /\ PlaceInv'
  BY <1>5, NoReqAssumption DEF SendReturns, Transport!End, Reply, callerVars, Queued, ChannelInv,
           TypeInv, HandOver, TypeOK
<1> QED
  BY <1>1, <1>2, <1>3, <1>4, <1>5, StepCases

(* The places of the requests, for every reachable state. *)
LEMMA PlaceInvariant == Spec => [](TypeInv /\ ChannelInv /\ PlaceInv)
  BY TypeInit, TypeNext, PlaceInit, PlaceNext, PTL DEF Spec

(* A refused call has no effect on the modem, now or later. *)
THEOREM RejectedHasNoEffect == Spec => []RejectedNeverSent
<1>1. PlaceInv => RejectedNeverSent
  BY DEF PlaceInv, Unsubmitted, RejectedNeverSent
<1> QED
  BY <1>1, PlaceInvariant, PTL

(* The worker's reply always finds its channel empty: the default branch   *)
(* of its select drops nothing.                                            *)
THEOREM ReplyFits == Spec => []ReplyNeverDropped
<1>1. TypeInv /\ PlaceInv => ReplyNeverDropped
  BY DEF TypeInv, TypeOK, PlaceInv, Fresh, ReplyNeverDropped
<1> QED
  BY <1>1, PlaceInvariant, PTL

-----------------------------------------------------------------------------
(* Answers.                                                                *)

(* An answer on its way to the caller is one of a command that was sent. *)
AnswerInv ==
  \A r \in Requests : resp[r] = "answer" \/ result[r] = "answer" => sent[r] > 0

(* When the engine is created nobody was told of an answer. *)
LEMMA AnswerInit == Init => AnswerInv
  BY DEF Init, AnswerInv

(* Replies and results of an answer come from Send alone, which reports one *)
(* only for a command it wrote.                                            *)
LEMMA AnswerNext == TypeInv /\ AnswerInv /\ [Next]_vars => AnswerInv'
<1> SUFFICES ASSUME TypeInv, AnswerInv, [Next]_vars PROVE AnswerInv'
  OBVIOUS
<1> USE DEF AnswerInv
<1>1. CASE Elsewhere
  <2>1. ASSUME NEW r \in Requests, Call(r) \/ Expire(r) PROVE AnswerInv'
    BY <2>1 DEF Call, Expire, transportVars
  <2>2. ASSUME NEW r \in Requests, Reject(r) \/ TakeResponse(r) \/ StopWaiting(r)
        PROVE  AnswerInv'
    BY <2>2 DEF Reject, TakeResponse, StopWaiting, Return, transportVars, TypeInv, TypeOK
  <2>3. CASE SkipHigh \/ SkipNormal \/ WorkerExit \/ Debounced \/ StartSend
    BY <2>3 DEF SkipHigh, SkipNormal, FallThrough, WorkerExit, Debounced, StartSend,
                Transport!Begin, callerVars, transportVars
  <2>4. CASE SendWrites
    <3>1. sending \in Requests /\ \A r \in Requests : sent[r] \in Nat
      BY <2>4, MaxWritesAssumption DEF SendWrites, Transport!Write, TypeInv, TypeOK,
                                       Transport!TypeOK
    <3>2. \A r \in Requests : sent'[r] = IF r = sending THEN sent[r] + 1 ELSE sent[r]
      BY <2>4, <3>1 DEF SendWrites, Transport!Write, TypeInv, TypeOK, Transport!TypeOK
    <3> QED
      BY <2>4, <3>1, <3>2 DEF SendWrites, callerVars
  <2>5. CASE CloseBegin \/ CloseReturn \/ UNCHANGED vars
    BY <2>5 DEF CloseBegin, CloseReturn, vars, callerVars, transportVars
  <2> QED
    BY <1>1, <2>1, <2>2, <2>3, <2>4, <2>5 DEF Elsewhere
<1>2. CASE SkipExpired
  BY <1>2 DEF SkipExpired, Reply, callerVars, transportVars, TypeInv, HandOver, TypeOK
<1>3. ASSUME NEW r \in Requests, Enqueue(r) PROVE AnswerInv'
  BY <1>3 DEF Enqueue, transportVars
<1>4. ASSUME NEW t \in Tiers, Receive(t) PROVE AnswerInv'
  BY <1>4 DEF Receive, callerVars, transportVars
<1>5. ASSUME NEW kind \in Replies, SendReturns(kind) PROVE AnswerInv'
  BY <1>5 DEF SendReturns, Transport!End, Reply, callerVars, TypeInv, HandOver, TypeOK
<1> QED
  BY <1>1, <1>2, <1>3, <1>4, <1>5, StepCases

(* A caller is told of an answer only if the modem received its command. *)
THEOREM AnswersAreOfSentCommands == Spec => []AnswerMeansSent
<1>1. AnswerInv => AnswerMeansSent
  BY DEF AnswerInv, AnswerMeansSent
<1> QED
  BY <1>1, TypeInvariant, AnswerInit, AnswerNext, PTL DEF Spec

-----------------------------------------------------------------------------
(* No caller is forgotten.                                                 *)

(* When the engine is created nobody waits. *)
LEMMA LostInit == Init => NoLostRequest
  BY DEF Init, NoLostRequest

(* Every step that takes a waiting caller's request out of one place puts  *)
(* it into the next, or closes the engine.                                 *)
LEMMA LostNext == TypeInv /\ NoLostRequest /\ [Next]_vars => NoLostRequest'
<1> SUFFICES ASSUME TypeInv, NoLostRequest, [Next]_vars PROVE NoLostRequest'
  OBVIOUS
<1> USE DEF NoLostRequest
<1>1. CASE Elsewhere
  <2>1. cur' = cur /\ \A s \in Requests : Queued(s)' <=> Queued(s)
    BY <1>1, ElsewhereKeeps DEF Queued
  <2>2. ASSUME NEW r \in Requests,
               Call(r) \/ Expire(r) \/ Reject(r) \/ TakeResponse(r) \/ StopWaiting(r)
        PROVE  NoLostRequest'
    BY <2>1, <2>2 DEF Call, Expire, Reject, TakeResponse, StopWaiting, Return, workerVars,
                      closeVars, TypeInv, TypeOK
  <2>3. CASE SkipHigh \/ SkipNormal \/ WorkerExit \/ Debounced \/ StartSend \/ SendWrites
    BY <2>1, <2>3 DEF SkipHigh, SkipNormal, FallThrough, WorkerExit, Selects, Debounced,
                      StartSend, SendWrites, callerVars, workerVars, closeVars
  <2>4. CASE CloseBegin \/ CloseReturn \/ UNCHANGED vars
    BY <2>1, <2>4 DEF CloseBegin, CloseReturn, vars, callerVars, workerVars, closeVars
  <2> QED
    BY <1>1, <2>2, <2>3, <2>4 DEF Elsewhere
<1>2. CASE SkipExpired
  BY <1>2 DEF SkipExpired, Reply, callerVars, closeVars, Queued, TypeInv, TypeOK, Replies,
              Transport!Kinds
<1>3. ASSUME NEW r \in Requests, Enqueue(r) PROVE NoLostRequest'
  <2>1. UNCHANGED <<cur, pc, resp, stopping>> /\ \A s \in Requests \ {r} : call'[s] = call[s]
    BY <1>3 DEF Enqueue, workerVars, closeVars, TypeInv, TypeOK
  <2> QED
    BY <1>3, <2>1, EnqueueAdds
<1>4. ASSUME NEW t \in Tiers, Receive(t) PROVE NoLostRequest'
  <2>1. cur = NoReq /\ pc # "exited" /\ UNCHANGED <<call, resp>>
    BY <1>4 DEF Receive, Selects, callerVars, TypeInv, HandOver
  <2> QED
    BY <1>4, <2>1, ReceiveTakes, NoReqAssumption
<1>5. ASSUME NEW kind \in Replies, SendReturns(kind) PROVE NoLostRequest'
  BY <1>5 DEF SendReturns, Reply, callerVars, closeVars, Queued, TypeInv, TypeOK, Replies,
              Transport!Kinds
<1> QED
  BY <1>1, <1>2, <1>3, <1>4, <1>5, StepCases

(* No wake-up is lost: a waiting caller's request is still somewhere, or   *)
(* its reply is, or stopChan is closed.                                    *)
THEOREM NoRequestLost == Spec => []NoLostRequest
  BY TypeInvariant, LostInit, LostNext, PTL DEF Spec

-----------------------------------------------------------------------------
(* Close.                                                                  *)

CloseInv == closer = "closed" => pc = "exited"

(* The worker has ended when Close returns, and never writes again. *)
LEMMA CloseNext == CloseInv /\ [Next]_vars => CloseInv' /\ (closer = "closed" => sent' = sent)
<1> SUFFICES ASSUME CloseInv, [Next]_vars
             PROVE  CloseInv' /\ (closer = "closed" => sent' = sent)
  OBVIOUS
<1> USE DEF CloseInv
<1>1. CASE Elsewhere
  <2>1. ASSUME NEW r \in Requests,
               Call(r) \/ Expire(r) \/ Reject(r) \/ TakeResponse(r) \/ StopWaiting(r)
        PROVE  CloseInv' /\ sent' = sent
    BY <2>1 DEF Call, Expire, Reject, TakeResponse, StopWaiting, workerVars, closeVars,
                transportVars
  <2>2. CASE SkipHigh \/ SkipNormal \/ WorkerExit \/ Debounced \/ StartSend \/ SendWrites
    BY <2>2 DEF SkipHigh, SkipNormal, FallThrough, WorkerExit, Selects, Debounced, StartSend,
                SendWrites, workerVars, closeVars, transportVars, Transport!Begin
  <2>3. CASE CloseBegin \/ CloseReturn \/ UNCHANGED vars
    BY <2>3 DEF CloseBegin, CloseReturn, vars, workerVars, closeVars, transportVars
  <2> QED
    BY <1>1, <2>1, <2>2, <2>3 DEF Elsewhere
<1>2. CASE SkipExpired
  BY <1>2 DEF SkipExpired, closeVars, transportVars
<1>3. ASSUME NEW r \in Requests, Enqueue(r)
      PROVE  CloseInv' /\ (closer = "closed" => sent' = sent)
  BY <1>3 DEF Enqueue, workerVars, closeVars, transportVars
<1>4. ASSUME NEW t \in Tiers, Receive(t)
      PROVE  CloseInv' /\ (closer = "closed" => sent' = sent)
  BY <1>4 DEF Receive, Selects, closeVars, transportVars
<1>5. ASSUME NEW kind \in Replies, SendReturns(kind)
      PROVE  CloseInv' /\ (closer = "closed" => sent' = sent)
  BY <1>5 DEF SendReturns, closeVars
<1> QED
  BY <1>1, <1>2, <1>3, <1>4, <1>5, StepCases

(* After Close has returned nothing reaches the modem any more. *)
THEOREM SilentAfterClose == Spec => NoCommandAfterClose
<1>1. Init => CloseInv
  BY DEF Init, CloseInv
<1>2. CloseInv /\ [Next]_vars => [closer = "closed" => sent' = sent]_vars
  BY CloseNext
<1> QED
  BY <1>1, <1>2, CloseNext, PTL DEF Spec, NoCommandAfterClose

-----------------------------------------------------------------------------
(* The engine implements its service.                                      *)

ServiceStep == [Service!Next]_(Service!serviceVars)

(* A step of one caller changes what that caller knows, and nothing else.  *)
LEMMA KnownChanges ==
  ASSUME TypeInv, TypeInv', NEW r \in Requests,
         \A s \in Requests \ {r} : call'[s] = call[s] /\ result'[s] = result[s]
  PROVE  Known' = [Known EXCEPT ![r] = Known'[r]]
<1>1. \A s \in Requests \ {r} : Known'[s] = Known[s]
  BY DEF Known
<1>2. Known = [s \in Requests |-> Known[s]] /\ Known' = [s \in Requests |-> Known'[s]]
  BY DEF Known
<1> QED
  BY <1>1, <1>2

(* Every step of a caller is one of the service, or none.                  *)
LEMMA CallerServes ==
  ASSUME TypeInv, TypeInv', PlaceInv, AnswerInv, NEW r \in Requests, Caller(r)
  PROVE  ServiceStep
<1> DEFINE To(phase) == Known' = [Known EXCEPT ![r] = phase]
<1>1. /\ \A s \in Requests \ {r} : call'[s] = call[s] /\ result'[s] = result[s]
      /\ UNCHANGED <<sent, closer>>
  BY DEF Caller, Call, Enqueue, Reject, TakeResponse, StopWaiting, Return, transportVars,
         closeVars, TypeInv, TypeOK
<1>2. To(Known'[r])
  BY <1>1, KnownChanges
<1>3. CASE Call(r)
  <2>1. Known[r] = "idle" /\ Known'[r] = "asked"
    BY <1>3 DEF Call, Known, Knows, TypeInv, TypeOK
  <2>2. Service!Ask(r)
    BY <1>1, <1>2, <2>1 DEF Service!Ask
  <2> QED
    BY <2>2 DEF ServiceStep, Service!Next
<1>4. CASE Enqueue(r)
  <2>1. Known' = Known
    BY <1>1, <1>2, <1>4 DEF Enqueue, Known, Knows, TypeInv, TypeOK
  <2> QED
    BY <1>1, <2>1 DEF ServiceStep, Service!serviceVars
<1>5. CASE Reject(r)
  <2>1. Known[r] = "asked" /\ Known'[r] = "refused"
    BY <1>5 DEF Reject, Return, Known, Knows, TypeInv, TypeOK
  <2>2. sent[r] = 0
    BY <1>5 DEF Reject, PlaceInv, Unsubmitted
  <2>3. Service!Refuse(r)
    BY <1>1, <1>2, <2>1, <2>2 DEF Service!Refuse
  <2> QED
    BY <2>3 DEF ServiceStep, Service!Next
<1>6. CASE TakeResponse(r)
  <2>1. resp[r] \in Replies /\ Known[r] = "asked" /\ Known'[r] = resp[r]
    BY <1>6 DEF TakeResponse, Return, Known, Knows, TypeInv, TypeOK
  <2>2. resp[r] = "answer" => sent[r] > 0
    BY DEF AnswerInv
  <2>3. Service!Tell(r, resp[r])
    BY <1>1, <1>2, <2>1, <2>2 DEF Service!Tell
  <2>4. resp[r] \in Service!Verdicts
    BY <2>1 DEF Replies, Transport!Kinds, Service!Verdicts
  <2> QED
    BY <2>3, <2>4 DEF ServiceStep, Service!Next
<1>7. CASE StopWaiting(r)
  <2>1. Known[r] = "asked" /\ Known'[r] = "left"
    BY <1>7 DEF StopWaiting, Return, Known, Knows, TypeInv, TypeOK, Replies, Transport!Kinds
  <2>2. Service!Leave(r)
    BY <1>1, <1>2, <2>1 DEF Service!Leave
  <2> QED
    BY <2>2 DEF ServiceStep, Service!Next
<1> QED
  BY <1>3, <1>4, <1>5, <1>6, <1>7 DEF Caller

(* The modem receives only commands whose callers wait or have left.       *)
LEMMA WriteServes ==
  ASSUME TypeInv, PlaceInv, CloseInv, SendWrites PROVE ServiceStep
<1>1. /\ cur \in Requests /\ sending = cur /\ sent[cur] < MaxWrites
      /\ sent' = [sent EXCEPT ![cur] = @ + 1]
      /\ UNCHANGED <<call, result, closer>>
  BY DEF SendWrites, Transport!Write, TypeInv, HandOver, callerVars, closeVars
<1>2. Known' = Known
  BY <1>1 DEF Known
<1>3. call[cur] \in {"waiting", "returned"} /\ result[cur] \notin Replies
  BY <1>1 DEF PlaceInv, Unsubmitted, Fresh, TypeInv, TypeOK, Phases
<1>4. Known[cur] \in {"asked", "left"}
  BY <1>1, <1>3 DEF Known, Knows
<1>5. closer # "closed"
  BY DEF SendWrites, CloseInv
<1>6. Service!Deliver(cur)
  BY <1>1, <1>2, <1>4, <1>5 DEF Service!Deliver
<1> QED
  BY <1>1, <1>6 DEF ServiceStep, Service!Next

LEMMA StepServes ==
  ASSUME TypeInv, TypeInv', PlaceInv, AnswerInv, CloseInv, [Next]_vars PROVE ServiceStep
<1>1. CASE UNCHANGED <<call, result, sent, closer>>
  <2>1. Known' = Known
    BY <1>1 DEF Known
  <2> QED
    BY <1>1, <2>1 DEF ServiceStep, Service!serviceVars
<1>2. ASSUME NEW r \in Requests, Caller(r) \/ Expire(r) PROVE ServiceStep
  BY <1>1, <1>2, CallerServes DEF Expire, transportVars, closeVars
<1>3. CASE Worker
  <2>1. SendWrites \/ UNCHANGED <<call, result, sent, closer>>
    BY <1>3 DEF Worker, SkipHigh, SkipNormal, FallThrough, WorkerExit, Receive, SkipExpired,
                StartSend, Debounced, SendReturns, Transport!Begin, Transport!End, callerVars,
                transportVars, closeVars
  <2> QED
    BY <1>1, <2>1, WriteServes
<1>4. CASE CloseBegin \/ UNCHANGED vars
  <2>1. CASE UNCHANGED vars
    BY <1>1, <2>1 DEF vars, callerVars, transportVars, closeVars
  <2>2. CASE CloseBegin
    <3>1. Known' = Known /\ sent' = sent /\ closer # "closed" /\ closer' # "closed"
      BY <2>2 DEF CloseBegin, Known, callerVars, transportVars
    <3> QED
      BY <3>1 DEF ServiceStep, Service!serviceVars
  <2> QED
    BY <1>4, <2>1, <2>2
<1>5. CASE CloseReturn
  <2>1. Known' = Known /\ sent' = sent /\ closer # "closed" /\ closer' = "closed"
    BY <1>5 DEF CloseReturn, Known, callerVars, transportVars
  <2>2. Service!Close
    BY <2>1 DEF Service!Close
  <2> QED
    BY <2>2 DEF ServiceStep, Service!Next
<1> QED
  BY <1>2, <1>3, <1>4, <1>5 DEF Next

(* To its callers the engine is the service: a caller that is refused, or  *)
(* told how its command ended, knows all that will ever become of it.      *)
THEOREM EngineServes == Spec => ImplementsService
<1>1. Init => Service!Init
  <2> SUFFICES ASSUME Init PROVE Service!Init
    OBVIOUS
  <2>1. Known = [r \in Requests |-> "idle"]
    BY DEF Init, Known, Knows
  <2>2. sent = [r \in Requests |-> 0] /\ closer # "closed"
    BY DEF Init, Transport!Init
  <2> QED
    BY <2>1, <2>2 DEF Service!Init
<1>2. Init => CloseInv
  BY DEF Init, CloseInv
<1>3. TypeInv /\ TypeInv' /\ PlaceInv /\ AnswerInv /\ CloseInv /\ [Next]_vars
      => [Service!Next]_(Service!serviceVars)
  BY StepServes DEF ServiceStep
<1> QED
  BY <1>1, <1>2, <1>3, PlaceInvariant, AnswerInit, AnswerNext, CloseNext, PTL
     DEF Spec, ImplementsService, Service!Spec

-----------------------------------------------------------------------------
(* The stack: the engine over the real transport.                          *)

DeviceProofs == INSTANCE ATTransportProofs WITH pc <- at, expired <- late

(* The transport's proofs are about the same transport. *)
LEMMA SameDevice ==
  /\ Device!Init <=> DeviceProofs!Init
  /\ \A r : Device!Begin(r) <=> DeviceProofs!Begin(r)
  /\ Device!Expire <=> DeviceProofs!Expire
  /\ Device!AcquireLock <=> DeviceProofs!AcquireLock
  /\ Device!Step <=> DeviceProofs!Step
  /\ Device!OtherLocks <=> DeviceProofs!OtherLocks
  /\ Device!OtherUnlocks <=> DeviceProofs!OtherUnlocks
  /\ Device!Urc <=> DeviceProofs!Urc
<1>1. Device!Init <=> DeviceProofs!Init
  BY DEF Device!Init, DeviceProofs!Init, Device!Modes, DeviceProofs!Modes, Device!NoResult,
         DeviceProofs!NoResult
<1>2. Device!Step <=> DeviceProofs!Step
  <2>1. /\ Device!NoResult = DeviceProofs!NoResult /\ Device!Failure = DeviceProofs!Failure
        /\ Device!CliError = DeviceProofs!CliError
        /\ \A l : Device!Answer(l) = DeviceProofs!Answer(l)
        /\ \A q : Device!Suffixes(q) = DeviceProofs!Suffixes(q)
    BY DEF Device!NoResult, DeviceProofs!NoResult, Device!Failure, DeviceProofs!Failure,
           Device!CliError, DeviceProofs!CliError, Device!Answer, DeviceProofs!Answer,
           Device!Suffixes, DeviceProofs!Suffixes
  <2>2. \A value, unread : Device!Return(value, unread) <=> DeviceProofs!Return(value, unread)
    BY <2>1 DEF Device!Return, DeviceProofs!Return
  <2>3. \A value, kept, unread :
          Device!FallBack(value, kept, unread) <=> DeviceProofs!FallBack(value, kept, unread)
    BY <2>2 DEF Device!FallBack, DeviceProofs!FallBack
  <2>4. \A location : /\ Device!Retry(location) <=> DeviceProofs!Retry(location)
                      /\ Device!Proceed(location) <=> DeviceProofs!Proceed(location)
    BY DEF Device!Retry, DeviceProofs!Retry, Device!Proceed, DeviceProofs!Proceed
  <2>5. /\ Device!LockFails <=> DeviceProofs!LockFails
        /\ Device!OpenDevice <=> DeviceProofs!OpenDevice
        /\ Device!CheckContext <=> DeviceProofs!CheckContext
        /\ Device!WriteDevice <=> DeviceProofs!WriteDevice
    BY <2>1, <2>2, <2>3, <2>4
       DEF Device!LockFails, DeviceProofs!LockFails, Device!OpenDevice, DeviceProofs!OpenDevice,
           Device!CheckContext, DeviceProofs!CheckContext, Device!WriteDevice,
           DeviceProofs!WriteDevice
  <2>6. Device!ReadAnswer <=> DeviceProofs!ReadAnswer
    BY <2>1, <2>2, <2>3 DEF Device!ReadAnswer, DeviceProofs!ReadAnswer
  <2>7. /\ Device!ReadFails <=> DeviceProofs!ReadFails
        /\ Device!CliFails <=> DeviceProofs!CliFails
        /\ Device!CliStarts <=> DeviceProofs!CliStarts
        /\ Device!CliWrites <=> DeviceProofs!CliWrites
    BY <2>1, <2>2, <2>3
       DEF Device!ReadFails, DeviceProofs!ReadFails, Device!CliFails, DeviceProofs!CliFails,
           Device!CliStarts, DeviceProofs!CliStarts, Device!CliWrites, DeviceProofs!CliWrites
  <2>8. Device!CliReturns <=> DeviceProofs!CliReturns
    BY <2>1, <2>2 DEF Device!CliReturns, DeviceProofs!CliReturns
  <2> QED
    BY <2>5, <2>6, <2>7, <2>8 DEF Device!Step, DeviceProofs!Step
<1>3. /\ \A r : Device!Begin(r) <=> DeviceProofs!Begin(r)
      /\ Device!Expire <=> DeviceProofs!Expire
      /\ Device!AcquireLock <=> DeviceProofs!AcquireLock
  BY DEF Device!Begin, DeviceProofs!Begin, Device!Expire, DeviceProofs!Expire,
         Device!AcquireLock, DeviceProofs!AcquireLock
<1>4. /\ Device!OtherLocks <=> DeviceProofs!OtherLocks
      /\ Device!OtherUnlocks <=> DeviceProofs!OtherUnlocks
      /\ Device!Urc <=> DeviceProofs!Urc
  BY DEF Device!OtherLocks, DeviceProofs!OtherLocks, Device!OtherUnlocks,
         DeviceProofs!OtherUnlocks, Device!Urc, DeviceProofs!Urc, Device!Suffixes,
         DeviceProofs!Suffixes
<1> QED
  BY <1>1, <1>2, <1>3, <1>4

(* Every place is typed, and the transport is where its own proofs say. *)
StackInv == TypeInv /\ DeviceProofs!Inv

LEMMA StackInvInit == StackInit => StackInv /\ DeviceProofs!Init
<1>1. DeviceProofs!Init => DeviceProofs!Inv
  BY UnsolicitedAssumption, NoReqAssumption, DeviceProofs!InvInit
<1> QED
  BY <1>1, TypeInit, SameDevice DEF StackInit, StackInv

(* What the callers, Close and the worker outside Send leave alone. *)
LEMMA BesideKeeps ==
  ASSUME \/ Waits \/ CloseBegin \/ CloseReturn
         \/ \E r \in Requests : Caller(r) \/ Expire(r)
  PROVE  UNCHANGED <<sending, sent, outcome>>
<1>1. ASSUME NEW r \in Requests, Caller(r) \/ Expire(r) PROVE UNCHANGED <<sending, sent, outcome>>
  BY <1>1 DEF Caller, Call, Expire, Enqueue, Reject, TakeResponse, StopWaiting, transportVars
<1>2. CASE Waits
  BY <1>2 DEF Waits, SkipHigh, SkipNormal, FallThrough, WorkerExit, SkipExpired, Debounced,
              Receive, transportVars
<1>3. CASE CloseBegin \/ CloseReturn
  BY <1>3 DEF CloseBegin, CloseReturn, transportVars
<1> QED
  BY <1>1, <1>2, <1>3

(* Whoever moves, the transport sees one of its own steps or none: the     *)
(* engine calls it from one place, and nothing else touches its state.     *)
LEMMA StackMovesDevice ==
  ASSUME TypeInv, [StackNext]_stackVars PROVE [DeviceProofs!Next]_(DeviceProofs!vars)
<1>1. ASSUME UNCHANGED deviceVars, UNCHANGED <<sending, sent, outcome>>
      PROVE  UNCHANGED DeviceProofs!vars
  BY <1>1 DEF deviceVars, DeviceProofs!vars
<1>2. CASE UNCHANGED stackVars
  BY <1>1, <1>2 DEF stackVars, vars, transportVars
<1>3. CASE Beside(Waits) \/ Beside(CloseBegin \/ CloseReturn)
  BY <1>1, <1>3, BesideKeeps DEF Beside
<1>4. ASSUME NEW r \in Requests, InContext(Caller(r) \/ Expire(r))
      PROVE  [DeviceProofs!Next]_(DeviceProofs!vars)
  <2>1. Device!Expire \/ UNCHANGED deviceVars
    BY <1>4 DEF InContext
  <2>2. UNCHANGED <<sending, sent, outcome>>
    BY <1>4, BesideKeeps DEF InContext
  <2> QED
    BY <1>1, <2>1, <2>2, SameDevice DEF DeviceProofs!Next
<1>5. CASE CallSend
  <2>1. cur \in Requests /\ DeviceProofs!Begin(cur)
    BY <1>5, SameDevice DEF CallSend, StartSend, TypeInv, HandOver
  <2> QED
    BY <2>1 DEF DeviceProofs!Next
<1>6. CASE InSend(Device!AcquireLock) \/ InSend(Device!Step)
  BY <1>6, SameDevice DEF InSend, DeviceProofs!Next
<1>7. CASE Outside(Device!OtherLocks \/ Device!OtherUnlocks \/ Device!Urc)
  BY <1>7, SameDevice DEF Outside, DeviceProofs!Next
<1> QED
  BY <1>2, <1>3, <1>4, <1>5, <1>6, <1>7 DEF StackNext, StackWorker

(* Inside Send the engine sees a write, the return, or nothing.            *)
LEMMA InSendRefines ==
  ASSUME TypeInv, NEW ACTION A, InSend(A), DeviceProofs!ContractStep
  PROVE  [Next]_vars
<1>1. sending = cur /\ cur \in Requests /\ sending # NoReq /\ pc = "sending"
  BY NoReqAssumption DEF InSend, TypeInv, HandOver
<1>2. \/ DeviceProofs!Contract!Write
      \/ \E kind \in Replies : DeviceProofs!Contract!End(kind)
      \/ UNCHANGED <<sending, sent, outcome>>
  BY <1>1 DEF DeviceProofs!ContractStep, DeviceProofs!Contract!Next, DeviceProofs!Contract!Begin,
              DeviceProofs!Contract!sendVars, DeviceProofs!Contract!Kinds, Replies, Transport!Kinds
<1>3. CASE UNCHANGED <<sending, sent, outcome>>
  BY <1>1, <1>3 DEF InSend, engineVars, vars, transportVars
<1>4. CASE DeviceProofs!Contract!Write
  <2>1. Transport!Write
    BY <1>1, <1>4, WritesAssumption, MaxWritesAssumption
       DEF DeviceProofs!Contract!Write, Transport!Write, TypeInv, TypeOK, Transport!TypeOK
  <2>2. sending' = sending /\ UNCHANGED engineVars
    BY <1>1, <1>4 DEF DeviceProofs!Contract!Write, InSend
  <2>3. SendWrites
    BY <1>1, <2>1, <2>2 DEF SendWrites, engineVars
  <2> QED
    BY <2>3 DEF Next, Worker
<1>5. ASSUME NEW kind \in Replies, DeviceProofs!Contract!End(kind) PROVE [Next]_vars
  <2>1. Transport!End(kind) /\ sending' = NoReq /\ outcome'[cur] = kind
    BY <1>1, <1>5 DEF DeviceProofs!Contract!End, Transport!End, TypeInv, TypeOK,
                      Transport!TypeOK
  <2>2. /\ Reply(kind) /\ pc' = "debounce"
        /\ UNCHANGED <<callerVars, queue, closeVars, bypassed>>
    BY <2>1 DEF InSend
  <2>3. SendReturns(kind)
    BY <1>1, <2>1, <2>2 DEF SendReturns
  <2> QED
    BY <1>5, <2>3 DEF Next, Worker
<1> QED
  BY <1>2, <1>3, <1>4, <1>5

(* Every step of the stack is one of the engine, or none. *)
LEMMA StackRefines ==
  ASSUME StackInv, [StackNext]_stackVars
  PROVE  [Next]_vars /\ StackInv'
<1>1. DeviceProofs!Inv' /\ DeviceProofs!ContractStep
  <2>1. [DeviceProofs!Next]_(DeviceProofs!vars)
    BY StackMovesDevice DEF StackInv
  <2> QED
    BY <2>1, UnsolicitedAssumption, NoReqAssumption, DeviceProofs!InvNext DEF StackInv
<1>2. [Next]_vars
  <2>1. CASE UNCHANGED stackVars
    BY <2>1 DEF stackVars
  <2>2. CASE Beside(Waits) \/ Beside(CloseBegin \/ CloseReturn)
    BY <2>2 DEF Beside, Waits, Next, Worker
  <2>3. ASSUME NEW r \in Requests, InContext(Caller(r) \/ Expire(r)) PROVE [Next]_vars
    BY <2>3 DEF InContext, Next
  <2>4. CASE CallSend
    BY <2>4 DEF CallSend, Next, Worker
  <2>5. CASE InSend(Device!AcquireLock)
    BY <1>1, <2>5, InSendRefines DEF StackInv
  <2>6. CASE InSend(Device!Step)
    BY <1>1, <2>6, InSendRefines DEF StackInv
  <2>7. CASE Outside(Device!OtherLocks \/ Device!OtherUnlocks \/ Device!Urc)
    <3>1. UNCHANGED <<sending, sent, outcome>>
      BY <2>7 DEF Outside, Device!OtherLocks, Device!OtherUnlocks, Device!Urc
    <3> QED
      BY <2>7, <3>1 DEF Outside, engineVars, vars, transportVars
  <2> QED
    BY <2>1, <2>2, <2>3, <2>4, <2>5, <2>6, <2>7 DEF StackNext, StackWorker
<1> QED
  BY <1>1, <1>2, TypeNext DEF StackInv

(* The engine over the device, the utility or both behaves like the engine *)
(* over any transport that keeps the contract: what is proved of Spec,     *)
(* holds of the stack.                                                     *)
THEOREM StackImplementsEngine == StackSpec => Spec
<1>1. StackInit => Init
  BY DEF StackInit
<1> QED
  BY <1>1, StackInvInit, StackRefines, PTL DEF StackSpec, Spec

(* The transport, used in this way only, behaves as it does alone: what is *)
(* proved of ATTransport holds of the stack.                               *)
THEOREM StackUsesTransport == StackSpec => Device!Spec
<1>1. StackInit => Device!Init
  BY DEF StackInit
<1>2. ASSUME StackInv, [StackNext]_stackVars PROVE [Device!Next]_(Device!vars)
  <2>1. [DeviceProofs!Next]_(DeviceProofs!vars)
    BY <1>2, StackMovesDevice DEF StackInv
  <2>2. DeviceProofs!Next => Device!Next
    BY SameDevice DEF DeviceProofs!Next, Device!Next
  <2>3. Device!vars = DeviceProofs!vars /\ Device!vars' = DeviceProofs!vars'
    BY DEF Device!vars, DeviceProofs!vars
  <2> QED
    BY <2>1, <2>2, <2>3
<1> QED
  BY <1>1, <1>2, StackInvInit, StackRefines, PTL DEF StackSpec, Device!Spec

-----------------------------------------------------------------------------
(* From the result line to the caller.                                     *)

(* Nobody is told of an answer that Send did not return for that request.  *)
Told == \A r \in Requests : resp[r] = "answer" \/ result[r] = "answer" => outcome[r] = "answer"

(* When the engine is created nobody was told anything. *)
LEMMA ToldInit == Init => Told
  BY DEF Init, Told

(* The reply goes to the request that was in Send, whose channel is empty. *)
LEMMA ToldNext == TypeInv /\ PlaceInv /\ Told /\ [Next]_vars => Told'
<1> SUFFICES ASSUME TypeInv, PlaceInv, Told, [Next]_vars PROVE Told'
  OBVIOUS
<1> USE DEF Told
<1>1. CASE Elsewhere
  <2>1. ASSUME NEW r \in Requests, Call(r) \/ Expire(r) PROVE Told'
    BY <2>1 DEF Call, Expire, transportVars
  <2>2. ASSUME NEW r \in Requests, Reject(r) \/ TakeResponse(r) \/ StopWaiting(r) PROVE Told'
    BY <2>2 DEF Reject, TakeResponse, StopWaiting, Return, transportVars, TypeInv, TypeOK
  <2>3. CASE SkipHigh \/ SkipNormal \/ WorkerExit \/ Debounced \/ StartSend \/ SendWrites
    BY <2>3 DEF SkipHigh, SkipNormal, FallThrough, WorkerExit, Debounced, StartSend, SendWrites,
                Transport!Begin, Transport!Write, callerVars, transportVars
  <2>4. CASE CloseBegin \/ CloseReturn \/ UNCHANGED vars
    BY <2>4 DEF CloseBegin, CloseReturn, vars, callerVars, transportVars
  <2> QED
    BY <1>1, <2>1, <2>2, <2>3, <2>4 DEF Elsewhere
<1>2. CASE SkipExpired
  BY <1>2 DEF SkipExpired, Reply, callerVars, transportVars, TypeInv, HandOver, TypeOK
<1>3. ASSUME NEW r \in Requests, Enqueue(r) PROVE Told'
  BY <1>3 DEF Enqueue, transportVars
<1>4. ASSUME NEW t \in Tiers, Receive(t) PROVE Told'
  BY <1>4 DEF Receive, callerVars, transportVars
<1>5. ASSUME NEW kind \in Replies, SendReturns(kind) PROVE Told'
  <2>1. cur \in Requests /\ sending = cur /\ resp[cur] = "none" /\ result[cur] # "answer"
    BY <1>5 DEF SendReturns, TypeInv, HandOver, PlaceInv, Fresh, Replies, Transport!Kinds
  <2>2. /\ resp' = [resp EXCEPT ![cur] = kind] /\ outcome' = [outcome EXCEPT ![cur] = kind]
        /\ result' = result
    BY <1>5, <2>1 DEF SendReturns, Reply, Transport!End, callerVars
  <2> QED
    BY <2>1, <2>2 DEF TypeInv, TypeOK, Transport!TypeOK
<1> QED
  BY <1>1, <1>2, <1>3, <1>4, <1>5, StepCases

(* The transport's side: an answer is a line, and in the calm the right    *)
(* one.                                                                    *)
LineInv == StackInv /\ DeviceProofs!Sourced /\ DeviceProofs!StepInv

LEMMA LineInitNext ==
  /\ StackInit => LineInv
  /\ LineInv /\ [StackNext]_stackVars => LineInv'
<1>1. ASSUME StackInit PROVE LineInv
  <2>1. DeviceProofs!Init /\ StackInv
    BY <1>1, StackInvInit
  <2>2. DeviceProofs!Sourced
    BY <2>1, UnsolicitedAssumption, NoReqAssumption, DeviceProofs!SourcedInit
  <2>3. DeviceProofs!StepInv
    BY <2>1 DEF DeviceProofs!Init, DeviceProofs!StepInv, DeviceProofs!InStep
  <2> QED
    BY <2>1, <2>2, <2>3 DEF LineInv
<1>2. ASSUME LineInv, [StackNext]_stackVars PROVE LineInv'
  <2>1. StackInv /\ DeviceProofs!Inv /\ [DeviceProofs!Next]_(DeviceProofs!vars)
    BY <1>2, StackMovesDevice DEF LineInv, StackInv
  <2>2. DeviceProofs!Sourced'
    BY <1>2, <2>1, UnsolicitedAssumption, NoReqAssumption, DeviceProofs!SourcedNext DEF LineInv
  <2>3. DeviceProofs!StepInv'
    BY <1>2, <2>1, UnsolicitedAssumption, NoReqAssumption, DeviceProofs!InStepNext DEF LineInv
  <2> QED
    BY <1>2, <2>1, <2>2, <2>3, StackRefines DEF LineInv
<1> QED
  BY <1>1, <1>2

(* Through the caller's channel, the worker and the transport: an answer   *)
(* is one to a command that the modem received, and in the calm to the     *)
(* caller's own.                                                           *)
THEOREM StackAnswersOwn == StackSpec => []OwnAnswer
<1>1. ASSUME LineInv, Told, AnswerInv PROVE OwnAnswer
  <2> SUFFICES ASSUME NEW r \in Requests, result[r] = "answer"
               PROVE  sent[r] > 0 /\ (Calm => source[r] = r)
    BY DEF OwnAnswer
  <2>1. sent[r] > 0
    BY <1>1 DEF AnswerInv
  <2>2. source[r] \in DeviceProofs!Lines
    BY <1>1 DEF Told, LineInv, DeviceProofs!Sourced
  <2>3. source[r] # NoReq
    BY <2>2, UnsolicitedAssumption, NoReqAssumption DEF DeviceProofs!Lines
  <2>4. ASSUME Calm PROVE source[r] = r
    <3>1. DeviceProofs!InStep
      BY <1>1, <2>4 DEF Calm, LineInv, DeviceProofs!StepInv, DeviceProofs!Calm
    <3> QED
      BY <2>3, <3>1 DEF DeviceProofs!InStep
  <2> QED
    BY <2>1, <2>4
<1>2. StackSpec => []LineInv
  BY LineInitNext, PTL DEF StackSpec
<1>3. Spec => [](Told /\ AnswerInv)
  BY PlaceInvariant, ToldInit, ToldNext, TypeInvariant, AnswerInit, AnswerNext, PTL DEF Spec
<1> QED
  BY <1>1, <1>2, <1>3, StackImplementsEngine, PTL
=============================================================================
