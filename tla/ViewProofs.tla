----------------------------- MODULE ViewProofs -----------------------------
(***************************************************************************)
(* Proofs about the live views, for any hooks that ViewAssumption allows,  *)
(* any number of reads in flight, of measurements and of waiting messages, *)
(* about the console page, for any number of rapid failures, and about the *)
(* job pages, for any hooks that JobAssumption allows.                     *)
(***************************************************************************)
EXTENDS Tab, SettingsPageProofs, TLAPS

-----------------------------------------------------------------------------
(* The live views.  What Tended needs besides the types: only a chain has  *)
(* ticks, which do not outlive the page, and only a hook with a stream     *)
(* opens one.                                                              *)
OwnNews ==
  /\ \A l \in Lanes : reads[l].by = "tick" => view.timer = "chain" /\ mounted
  /\ stream # "none" => view.timer = "stream"

LiveInv == LiveTypeOK /\ OwnNews /\ Tended

-----------------------------------------------------------------------------
(* A read that starts, or is skipped: what is in flight afterwards was so  *)
(* before or is the new one, and an aborting hook starts it in any case.   *)
LEMMA FetchReads ==
  ASSUME LiveTypeOK, NEW by \in {"tick", "other"}, Fetch(by)
  PROVE  /\ reads' \in [Lanes -> Reads]
         /\ \A l \in Lanes : reads'[l].by = "tick" => reads[l].by = "tick" \/ by = "tick"
         /\ view.overlap = "abort" => \E l \in Lanes : reads'[l].by = by
<1> USE DEF LiveTypeOK, Reads, NewRead, Idle
<1>1. CASE view.overlap = "skip" /\ UnderWay # {} /\ UNCHANGED reads
  BY <1>1
<1>2. ASSUME view.overlap = "abort", NEW l \in Lanes,
             reads' = [k \in Lanes |-> IF k = l THEN NewRead(by) ELSE Idle]
      PROVE  /\ reads' \in [Lanes -> Reads]
             /\ \A k \in Lanes : reads'[k].by = "tick" => reads[k].by = "tick" \/ by = "tick"
             /\ \E k \in Lanes : reads'[k].by = by
  BY <1>2
<1>3. ASSUME view.overlap # "abort", NEW l \in Lanes \ UnderWay,
             reads' = [reads EXCEPT ![l] = NewRead(by)]
      PROVE  /\ reads' \in [Lanes -> Reads]
             /\ \A k \in Lanes : reads'[k].by = "tick" => reads[k].by = "tick" \/ by = "tick"
  BY <1>3
<1> QED BY <1>1, <1>2, <1>3 DEF Fetch

(* How a read by the timer is named.                                       *)
LEMMA ByIs == By \in {"tick", "other"} /\ (By = "tick" <=> view.timer = "chain")
BY DEF By

(* The flags stay flags.                                                   *)
LEMMA FlagsStay == LiveFlags /\ view \in ViewKinds /\ [LiveNext]_liveVars => LiveFlags'
<1> SUFFICES ASSUME LiveFlags, view \in ViewKinds, [LiveNext]_liveVars PROVE LiveFlags'
  OBVIOUS
<1>v. view.pauses \in BOOLEAN
  BY DEF ViewKinds
<1> USE DEF LiveFlags
<1>1. CASE Measure \/ Greet \/ SubscribeStream \/ TakeMessage
  BY <1>1, Zenon DEF Measure, Greet, SubscribeStream, TakeMessage
<1>2. CASE TickFires
  BY <1>2, Zenon DEF TickFires, ChainGoesOn, TickUnderWay
<1>3. CASE RefreshView
  BY <1>3, Zenon DEF RefreshView, ChainGoesOn, TickUnderWay
<1>4. CASE Hide
  BY <1>4, <1>v, Zenon DEF Hide
<1>5. CASE Show
  BY <1>5, Zenon DEF Show, Begins, ChainGoesOn, TickUnderWay
<1>6. CASE Leave
  BY <1>6, Zenon DEF Leave
<1>7. CASE Enter
  BY <1>7, Zenon DEF Enter, Begins, ChainGoesOn, TickUnderWay
<1>8. CASE StreamOpens \/ StreamFails
  BY <1>8, Zenon DEF StreamOpens, StreamFails
<1>9. ASSUME NEW l \in Lanes, AnswerFetch(l) \/ TakeFetched(l) PROVE LiveFlags'
  BY <1>9, Zenon DEF AnswerFetch, TakeFetched
<1>10. CASE UNCHANGED liveVars
  BY <1>10, Zenon DEF liveVars
<1> QED BY <1>1, <1>2, <1>3, <1>4, <1>5, <1>6, <1>7, <1>8, <1>9, <1>10 DEF LiveNext

-----------------------------------------------------------------------------
LEMMA LiveInitInv == LiveInit => LiveInv
<1> SUFFICES ASSUME NEW v \in Views, OpenView(v) PROVE LiveInv
  BY DEF LiveInit
<1> USE ViewAssumption, LiveBounds
<1>v. view \in Views /\ view \in ViewKinds /\ view.pauses \in BOOLEAN
  BY DEF OpenView, ViewKinds
<1>1. LiveFlags
  BY <1>v, Zenon DEF OpenView, LiveFlags
<1>2. PICK l \in Lanes :
        reads = [k \in Lanes |-> IF k = l /\ (hidden => view.eager)
                                 THEN NewRead(IF view.timer = "chain" THEN "tick" ELSE "other")
                                 ELSE Idle]
  BY DEF OpenView
<1>3. reads \in [Lanes -> Reads]
  BY <1>2 DEF Reads, NewRead, Idle
<1>4. LiveTypeOK
  BY <1>v, <1>1, <1>3 DEF OpenView, LiveTypeOK
<1>5. OwnNews
  BY <1>2 DEF OpenView, OwnNews, NewRead, Idle
<1>6. Tended
  <2>1. ~(ticking /\ stream = "open")
    BY DEF OpenView
  <2>2. ~mounted \/ (hidden /\ view.pauses) => ~ticking /\ stream = "none"
    BY DEF OpenView
  <2>3. Seen => Kept
    <3> SUFFICES ASSUME mounted, ~hidden, view.timer = "chain" PROVE TickUnderWay
      BY DEF OpenView, Seen, Kept
    <3> QED BY <1>2 DEF TickUnderWay, NewRead
  <2> QED BY <2>1, <2>2, <2>3 DEF Tended
<1> QED BY <1>4, <1>5, <1>6 DEF LiveInv

(* Steps of the device and of the stream, which leave the reads alone.     *)
LEMMA StreamStepInv ==
  ASSUME LiveInv, LiveFlags',
         Measure \/ Greet \/ SubscribeStream \/ StreamOpens \/ TakeMessage \/ StreamFails
  PROVE  LiveInv'
<1> USE LiveBounds DEF LiveInv, LiveTypeOK, OwnNews, Tended, Seen, Kept, TickUnderWay
<1>1. CASE Measure
  BY <1>1 DEF Measure
<1>2. CASE Greet
  BY <1>2 DEF Greet
<1>3. CASE SubscribeStream
  BY <1>3 DEF SubscribeStream
<1>4. CASE StreamOpens
  BY <1>4 DEF StreamOpens
<1>5. CASE TakeMessage
  BY <1>5 DEF TakeMessage
<1>6. CASE StreamFails
  BY <1>6 DEF StreamFails, Disconnected
<1> QED BY <1>1, <1>2, <1>3, <1>4, <1>5, <1>6

(* Answers.  That of a tick takes the place of the tick.                   *)
LEMMA AnswerStepInv ==
  ASSUME LiveInv, LiveFlags', NEW l \in Lanes, AnswerFetch(l) \/ TakeFetched(l)
  PROVE  LiveInv'
<1> USE LiveBounds DEF LiveInv, LiveTypeOK, OwnNews
<1>1. ASSUME AnswerFetch(l) PROVE LiveInv'
  <2>1. PICK got \in {"value", "failed"} :
          reads' = [reads EXCEPT ![l] = [by |-> reads[l].by, got |-> got,
                                         value |-> IF got = "value" THEN snapshot ELSE 0]]
    BY <1>1 DEF AnswerFetch
  <2>2. reads' \in [Lanes -> Reads] /\ \A k \in Lanes : reads'[k].by = reads[k].by
    BY <2>1 DEF Reads
  <2>3. TickUnderWay' = TickUnderWay
    BY <2>2 DEF TickUnderWay
  <2>4. UNCHANGED <<view, mounted, hidden, ticking, channel, snapshot, figure>>
    BY <1>1 DEF AnswerFetch
  <2>5. LiveTypeOK' /\ OwnNews'
    BY <2>2, <2>4 DEF channel
  <2>6. Tended'
    BY <2>3, <2>4 DEF channel, Tended, Seen, Kept
  <2> QED BY <2>5, <2>6
<1>2. ASSUME TakeFetched(l) PROVE LiveInv'
  <2>1. /\ reads' = [reads EXCEPT ![l] = Idle]
        /\ reads' \in [Lanes -> Reads]
    BY <1>2 DEF TakeFetched, Reads, Idle
  <2>2. \A k \in Lanes : reads'[k].by = "tick" => reads[k].by = "tick"
    BY <2>1 DEF Idle
  <2>3. figure' \in Nat
    BY <1>2 DEF TakeFetched, Reads
  <2>4. LiveTypeOK' /\ OwnNews'
    BY <1>2, <2>1, <2>2, <2>3 DEF TakeFetched, channel
  <2>5. Tended'
    <3>1. CASE reads[l].by = "tick"
      <4>1. mounted /\ stream = "none"
        BY <3>1
      <4> QED BY <1>2, <3>1, <4>1 DEF TakeFetched, channel, Tended, Seen, Kept
    <3>2. CASE reads[l].by # "tick"
      <4>1. TickUnderWay' = TickUnderWay
        BY <2>1, <2>2, <3>2 DEF TickUnderWay
      <4> QED BY <1>2, <3>2, <4>1 DEF TakeFetched, channel, Tended, Seen, Kept
    <3> QED BY <3>1, <3>2
  <2> QED BY <2>4, <2>5
<1> QED BY <1>1, <1>2

(* What the timer and the user do.                                         *)
LEMMA TickFiresInv ==
  ASSUME LiveInv, LiveFlags', TickFires
  PROVE  LiveInv'
<1> USE ViewAssumption, LiveBounds
<1>1. /\ ticking /\ Fetch(By)
      /\ ticking' = (view.timer # "chain" \/ ChainGoesOn)
      /\ UNCHANGED <<view, mounted, hidden, stream, link, messages, snapshot, figure>>
  BY DEF TickFires, channel
<1>2. mounted /\ ~(hidden /\ view.pauses) /\ stream # "open"
  BY <1>1 DEF LiveInv, Tended
<1>3. /\ reads' \in [Lanes -> Reads]
      /\ \A l \in Lanes : reads'[l].by = "tick" => view.timer = "chain"
      /\ view.timer = "chain" => TickUnderWay'
  BY <1>1, ByIs, FetchReads DEF LiveInv, OwnNews, TickUnderWay, LiveTypeOK
<1>4. LiveTypeOK' /\ OwnNews'
  BY <1>1, <1>2, <1>3 DEF LiveInv, LiveTypeOK, OwnNews
<1>5. Tended'
  BY <1>1, <1>2, <1>3 DEF Tended, Seen, Kept
<1> QED BY <1>4, <1>5 DEF LiveInv

LEMMA RefreshViewInv ==
  ASSUME LiveInv, LiveFlags', RefreshView
  PROVE  LiveInv'
<1> USE ViewAssumption, LiveBounds
<1>1. /\ mounted /\ ~hidden /\ Fetch("other")
      /\ ticking' = (ticking \/ view.refresh = "restart" \/ ChainGoesOn)
      /\ UNCHANGED <<view, mounted, hidden, stream, link, messages, snapshot, figure>>
  BY DEF RefreshView, channel
<1>2. /\ reads' \in [Lanes -> Reads]
      /\ \A l \in Lanes : reads'[l].by = "tick" => view.timer = "chain"
  BY <1>1, FetchReads DEF LiveInv, OwnNews
<1>3. TickUnderWay => ChainGoesOn
  BY DEF LiveInv, OwnNews, TickUnderWay, ChainGoesOn
<1>4. stream = "open" => ~ticking'
  BY <1>1 DEF LiveInv, LiveTypeOK, OwnNews, Tended, ChainGoesOn
<1>5. LiveTypeOK' /\ OwnNews'
  BY <1>1, <1>2 DEF LiveInv, LiveTypeOK, OwnNews
<1>6. Tended'
  BY <1>1, <1>3, <1>4 DEF LiveInv, Tended, Seen, Kept
<1> QED BY <1>5, <1>6 DEF LiveInv

LEMMA HideInv ==
  ASSUME LiveInv, LiveFlags', Hide
  PROVE  LiveInv'
<1> USE LiveBounds DEF Hide, Disconnected
<1>1. LiveTypeOK' /\ OwnNews'
  BY DEF LiveInv, LiveTypeOK, OwnNews
<1>2. Tended'
  BY DEF LiveInv, Tended, Seen
<1> QED BY <1>1, <1>2 DEF LiveInv

(* It comes on the screen: Show with a page, and Enter.                    *)
LEMMA BeginsInv ==
  ASSUME LiveInv, LiveFlags', Begins, mounted', ~hidden',
         UNCHANGED <<view, snapshot, figure>>,
         Fetch(By) \/ (UNCHANGED reads /\ mounted /\ view.timer # "chain")
  PROVE  LiveInv'
<1> USE ViewAssumption, LiveBounds
<1>1. /\ reads' \in [Lanes -> Reads]
      /\ \A l \in Lanes : reads'[l].by = "tick" => view.timer = "chain"
      /\ view.timer = "chain" => TickUnderWay'
  BY ByIs, FetchReads DEF LiveInv, OwnNews, TickUnderWay, LiveTypeOK
<1>2. stream' = "open" => ~ticking'
  BY DEF Begins
<1>3. LiveTypeOK' /\ OwnNews'
  BY <1>1 DEF LiveInv, LiveTypeOK, OwnNews, Begins
<1>4. Tended'
  BY <1>1, <1>2 DEF Tended, Seen, Kept, Begins
<1> QED BY <1>3, <1>4 DEF LiveInv

LEMMA ShowInv ==
  ASSUME LiveInv, LiveFlags', Show
  PROVE  LiveInv'
<1> USE ViewAssumption, LiveBounds
<1>1. CASE mounted
  <2>1. Begins /\ mounted' /\ ~hidden' /\ UNCHANGED <<view, snapshot, figure>>
    BY <1>1 DEF Show
  <2>2. Fetch(By) \/ (UNCHANGED reads /\ mounted /\ view.timer # "chain")
    BY <1>1 DEF Show, LiveInv, LiveTypeOK
  <2> QED BY <2>1, <2>2, BeginsInv
<1>2. CASE ~mounted
  <2>1. /\ ~hidden' /\ ~mounted'
        /\ UNCHANGED <<view, reads, ticking, stream, link, messages, snapshot, figure>>
    BY <1>2 DEF Show, channel
  <2>2. LiveTypeOK' /\ OwnNews'
    BY <1>2, <2>1 DEF LiveInv, LiveTypeOK, OwnNews
  <2>3. Tended'
    BY <1>2, <2>1 DEF LiveInv, Tended, Seen
  <2> QED BY <2>2, <2>3 DEF LiveInv
<1> QED BY <1>1, <1>2

LEMMA LeaveInv ==
  ASSUME LiveInv, LiveFlags', Leave
  PROVE  LiveInv'
<1> USE ViewAssumption, LiveBounds
<1>1. /\ ~mounted' /\ ~ticking' /\ stream' = "none" /\ link' = "none" /\ messages' = <<>>
      /\ reads' = IF view.overlap = "abort" THEN [l \in Lanes |-> Idle] ELSE reads
      /\ UNCHANGED <<view, hidden, snapshot, figure>>
  BY DEF Leave, Disconnected
<1>2. /\ reads' \in [Lanes -> Reads]
      /\ \A l \in Lanes : reads'[l].by # "tick"
  BY <1>1 DEF LiveInv, LiveTypeOK, OwnNews, Reads, Idle
<1>3. LiveTypeOK' /\ OwnNews'
  BY <1>1, <1>2 DEF LiveInv, LiveTypeOK, OwnNews
<1>4. Tended'
  BY <1>1 DEF Tended, Seen
<1> QED BY <1>3, <1>4 DEF LiveInv

LEMMA EnterInv ==
  ASSUME LiveInv, LiveFlags', Enter
  PROVE  LiveInv'
<1> USE LiveBounds
<1>1. CASE hidden
  <2>1. /\ ~mounted /\ mounted' /\ hidden'
        /\ UNCHANGED <<view, reads, ticking, stream, link, messages, snapshot, figure>>
    BY <1>1 DEF Enter, channel
  <2>2. LiveTypeOK' /\ OwnNews'
    BY <2>1 DEF LiveInv, LiveTypeOK, OwnNews
  <2>3. Tended'
    BY <1>1, <2>1 DEF LiveInv, Tended, Seen
  <2> QED BY <2>2, <2>3 DEF LiveInv
<1>2. CASE ~hidden
  <2>1. /\ Begins /\ mounted' /\ ~hidden' /\ Fetch(By)
        /\ UNCHANGED <<view, snapshot, figure>>
    BY <1>2 DEF Enter
  <2> QED BY <2>1, BeginsInv
<1> QED BY <1>1, <1>2

LEMMA LiveNextInv == LiveInv /\ [LiveNext]_liveVars => LiveInv'
<1> SUFFICES ASSUME LiveInv, [LiveNext]_liveVars PROVE LiveInv'
  OBVIOUS
<1>f. LiveFlags'
  BY ViewAssumption, FlagsStay DEF LiveInv, LiveTypeOK
<1>1. CASE Measure \/ Greet \/ SubscribeStream \/ StreamOpens \/ TakeMessage \/ StreamFails
  BY <1>1, <1>f, StreamStepInv
<1>2. CASE TickFires
  BY <1>2, <1>f, TickFiresInv
<1>3. CASE RefreshView
  BY <1>3, <1>f, RefreshViewInv
<1>4. CASE Hide
  BY <1>4, <1>f, HideInv
<1>5. CASE Show
  BY <1>5, <1>f, ShowInv
<1>6. CASE Leave
  BY <1>6, <1>f, LeaveInv
<1>7. CASE Enter
  BY <1>7, <1>f, EnterInv
<1>8. ASSUME NEW l \in Lanes, AnswerFetch(l) \/ TakeFetched(l) PROVE LiveInv'
  BY <1>8, <1>f, AnswerStepInv
<1>9. CASE UNCHANGED liveVars
  <2>1. LiveTypeOK' /\ OwnNews'
    BY <1>9 DEF liveVars, channel, LiveInv, LiveTypeOK, LiveFlags, OwnNews
  <2>2. Tended'
    BY <1>9 DEF liveVars, channel, LiveInv, Tended, Seen, Kept, TickUnderWay
  <2> QED BY <2>1, <2>2 DEF LiveInv
<1> QED BY <1>1, <1>2, <1>3, <1>4, <1>5, <1>6, <1>7, <1>8, <1>9 DEF LiveNext

-----------------------------------------------------------------------------
(* The types, which say too that no more messages wait than fit.           *)
THEOREM LiveTypes == LiveSpec => []LiveTypeOK
<1>1. LiveInv => LiveTypeOK
  BY DEF LiveInv
<1> QED BY <1>1, LiveInitInv, LiveNextInv, PTL DEF LiveSpec

(* What is seen has one source of news, and what is not seen has none: no  *)
(* order of hiding, showing, leaving, failing and coming back breaks it.   *)
THEOREM AlwaysTended == LiveSpec => []Tended
<1>1. LiveInv => Tended
  BY DEF LiveInv
<1> QED BY <1>1, LiveInitInv, LiveNextInv, PTL DEF LiveSpec

-----------------------------------------------------------------------------
(* Where reads do not overlap there is one in flight at most, and it knows *)
(* no less than what is shown.                                             *)
OneAtATime == \A k, l \in UnderWay : k = l
Newer ==
  /\ figure <= snapshot
  /\ \A l \in Lanes : reads[l].got = "value" => figure <= reads[l].value /\ reads[l].value <= snapshot
InOrder == view.overlap # "both" /\ view.timer # "stream" => OneAtATime /\ Newer

LEMMA FetchInOrder ==
  ASSUME LiveTypeOK, NEW by, Fetch(by), view.overlap # "both", OneAtATime, Newer,
         UNCHANGED <<snapshot, figure>>
  PROVE  OneAtATime' /\ Newer'
<1> USE DEF LiveTypeOK, OneAtATime, Newer, UnderWay, NewRead, Idle
<1>1. CASE UNCHANGED reads
  BY <1>1
<1>2. ASSUME NEW l \in Lanes,
             reads' = [k \in Lanes |-> IF k = l THEN NewRead(by) ELSE Idle]
      PROVE  OneAtATime' /\ Newer'
  BY <1>2
<1>3. ASSUME UnderWay = {}, NEW l \in Lanes, reads' = [reads EXCEPT ![l] = NewRead(by)]
      PROVE  OneAtATime' /\ Newer'
  BY <1>3
<1> QED BY <1>1, <1>2, <1>3 DEF Fetch

LEMMA InOrderNext ==
  ASSUME LiveInv, InOrder, [LiveNext]_liveVars
  PROVE  InOrder' /\ (view.overlap # "both" /\ view.timer # "stream" => figure' >= figure)
<1>v. view' = view
  BY DEF LiveNext, liveVars, Measure, Greet, SubscribeStream, StreamOpens, TakeMessage,
         StreamFails, TickFires, RefreshView, Hide, Show, Leave, Enter, AnswerFetch, TakeFetched
<1> SUFFICES ASSUME view.overlap # "both", view.timer # "stream"
             PROVE  OneAtATime' /\ Newer' /\ figure' >= figure
  BY <1>v DEF InOrder
<1>t. LiveTypeOK /\ OneAtATime /\ Newer /\ stream = "none"
  BY DEF LiveInv, LiveTypeOK, OwnNews, InOrder
<1>n. snapshot \in Nat /\ figure \in Nat /\ reads \in [Lanes -> Reads]
  BY <1>t, LiveBounds DEF LiveTypeOK
<1>s. ASSUME UNCHANGED <<reads, snapshot, figure>> PROVE OneAtATime' /\ Newer' /\ figure' >= figure
  BY <1>s, <1>t, <1>n DEF OneAtATime, Newer, UnderWay
<1>f. ASSUME NEW by, Fetch(by), UNCHANGED <<snapshot, figure>>
      PROVE  OneAtATime' /\ Newer' /\ figure' >= figure
  BY <1>f, <1>t, <1>n, FetchInOrder
<1>1. CASE Measure
  BY <1>1, <1>t, <1>n DEF Measure, OneAtATime, Newer, UnderWay, Reads
<1>2. CASE Greet \/ SubscribeStream \/ StreamOpens \/ StreamFails \/ Hide
  BY <1>2, <1>s DEF Greet, SubscribeStream, StreamOpens, StreamFails, Hide
<1>3. CASE TakeMessage
  BY <1>3, <1>t DEF TakeMessage
<1>4. CASE TickFires
  BY <1>4, <1>f DEF TickFires
<1>5. CASE RefreshView
  BY <1>5, <1>f DEF RefreshView
<1>6. CASE Show
  BY <1>6, <1>f, <1>s DEF Show
<1>7. CASE Enter
  BY <1>7, <1>f, <1>s DEF Enter
<1>8. CASE Leave
  BY <1>8, <1>t, <1>n DEF Leave, OneAtATime, Newer, UnderWay, Idle
<1>9. ASSUME NEW l \in Lanes, AnswerFetch(l) PROVE OneAtATime' /\ Newer' /\ figure' >= figure
  <2>1. PICK got \in {"value", "failed"} :
          reads' = [reads EXCEPT ![l] = [by |-> reads[l].by, got |-> got,
                                         value |-> IF got = "value" THEN snapshot ELSE 0]]
    BY <1>9 DEF AnswerFetch
  <2>2. UnderWay' \subseteq UnderWay
    BY <1>9, <1>n, <2>1 DEF AnswerFetch, UnderWay
  <2> QED BY <1>9, <1>t, <1>n, <2>1, <2>2 DEF AnswerFetch, OneAtATime, Newer
<1>10. ASSUME NEW l \in Lanes, TakeFetched(l) PROVE OneAtATime' /\ Newer' /\ figure' >= figure
  <2>1. /\ reads' = [reads EXCEPT ![l] = Idle]
        /\ UNCHANGED snapshot
        /\ figure' = figure \/ (reads[l].got = "value" /\ figure' = reads[l].value)
    BY <1>10 DEF TakeFetched
  <2>2. l \in UnderWay /\ UnderWay' \subseteq UnderWay
    BY <1>10, <1>n, <2>1 DEF TakeFetched, UnderWay, Idle
  <2>3. \A k \in Lanes : reads'[k].got # "value"
    BY <1>t, <1>n, <2>1, <2>2 DEF OneAtATime, UnderWay, Idle
  <2>4. figure' >= figure /\ figure' <= snapshot
    BY <1>t, <1>n, <2>1 DEF Newer, Reads
  <2> QED BY <1>t, <2>1, <2>2, <2>3, <2>4 DEF OneAtATime, Newer
<1>11. CASE UNCHANGED liveVars
  BY <1>11, <1>s DEF liveVars
<1> QED BY <1>1, <1>2, <1>3, <1>4, <1>5, <1>6, <1>7, <1>8, <1>9, <1>10, <1>11 DEF LiveNext

(* Figures do not go back where reads cannot overlap, whatever the order   *)
(* in which answers come, pages open and the tab is hidden and shown.      *)
THEOREM FiguresGoForward == LiveSpec => NeverGoesBack
<1>1. LiveInit => InOrder
  <2> SUFFICES ASSUME NEW v \in Views, OpenView(v) PROVE OneAtATime /\ Newer
    BY DEF LiveInit, InOrder
  <2> QED BY DEF OpenView, OneAtATime, Newer, UnderWay, NewRead, Idle
<1>2. LiveInv /\ InOrder /\ [LiveNext]_liveVars
        => InOrder' /\ [view.overlap # "both" /\ view.timer # "stream" => figure' >= figure]_liveVars
  BY InOrderNext
<1> QED BY <1>1, <1>2, LiveInitInv, LiveNextInv, PTL DEF LiveSpec, NeverGoesBack

-----------------------------------------------------------------------------
(* The console.  ConsoleIsTrue is not inductive: it needs that nothing     *)
(* else is on its way before the first attempt, and that the count of      *)
(* failures is at its limit only when no attempt follows.                  *)
BeforeFirst == starting => connection = "connecting" /\ socket = "none" /\ ~retrying
LimitEnds   == rapid = MaxRapidFailures => socket = "none" /\ ~retrying /\ ~starting

ConsoleInv == ConsoleTypeOK /\ ConsoleIsTrue /\ BeforeFirst /\ LimitEnds

LEMMA ConsoleInitInv == ConsoleInit => ConsoleInv
<1>1. ConsoleInit => ConsoleFlags
  BY Zenon DEF ConsoleInit, ConsoleFlags
<1> QED
  BY <1>1, RapidAssumption
     DEF ConsoleInit, ConsoleInv, ConsoleTypeOK, ConsoleIsTrue, BeforeFirst, LimitEnds

-----------------------------------------------------------------------------
(* A socket that closes: the one step with cases.  It ends for good, or    *)
(* the next attempt is on its way and the count below its limit.           *)
LEMMA ClosingInv ==
  ASSUME ConsoleInv,
         NEW code \in {"clean", "refusal", "other"}, NEW soon \in BOOLEAN,
         NEW linkIsDown \in BOOLEAN,
         SocketCloses(code, soon, linkIsDown)
  PROVE  ConsoleInv'
<1> USE RapidAssumption
<1>1. /\ socket # "none" /\ socket' = "none" /\ ~retrying /\ ~starting
      /\ open /\ rapid < MaxRapidFailures /\ rapid \in Nat
      /\ open' = open /\ starting' = starting /\ opened' = opened
  BY DEF ConsoleInv, ConsoleTypeOK, ConsoleIsTrue, BeforeFirst, LimitEnds, SocketCloses
<1>2. \/ /\ connection' \in {"disconnected", "unavailable"} /\ ~retrying'
         /\ retrying' = retrying
         /\ failure' \in {"ended", "refused", "dropped", "unreachable"}
         /\ rapid' \in 0..MaxRapidFailures
      \/ /\ connection' = "reconnecting" /\ retrying' = TRUE
         /\ failure' = failure
         /\ rapid' \in 0..(MaxRapidFailures - 1)
  <2>1. CASE code = "clean" /\ socket = "open" /\ Settle("ended", "unavailable")
    BY <1>1, <2>1 DEF Settle
  <2>2. CASE code = "refusal" /\ Settle("refused", "disconnected")
    BY <1>1, <2>2 DEF Settle
  <2>3. CASE CountClose(soon) /\ GivesUpAfter(soon) /\ GiveUp(linkIsDown)
    BY <1>1, <2>3 DEF CountClose, GivesUpAfter, GiveUp
  <2>4. CASE CountClose(soon) /\ ~GivesUpAfter(soon) /\ ScheduleReconnect
    BY <1>1, <2>4 DEF CountClose, GivesUpAfter, ScheduleReconnect
  <2> QED BY <2>1, <2>2, <2>3, <2>4 DEF SocketCloses
<1>3. ConsoleTypeOK'
  <2>1. ConsoleFlags'
    BY <1>1, <1>2, Zenon DEF ConsoleInv, ConsoleTypeOK, ConsoleFlags
  <2> QED BY <1>1, <1>2, <2>1 DEF ConsoleInv, ConsoleTypeOK
<1>4. ConsoleIsTrue' /\ BeforeFirst' /\ LimitEnds'
  BY <1>1, <1>2 DEF ConsoleIsTrue, BeforeFirst, LimitEnds
<1> QED BY <1>3, <1>4 DEF ConsoleInv

LEMMA ConsoleNextInv == ConsoleInv /\ [ConsoleNext]_consoleVars => ConsoleInv'
<1> SUFFICES ASSUME ConsoleInv, [ConsoleNext]_consoleVars PROVE ConsoleInv'
  OBVIOUS
<1>f. ConsoleFlags
  BY DEF ConsoleInv, ConsoleTypeOK
<1> USE RapidAssumption
        DEF ConsoleInv, ConsoleTypeOK, ConsoleIsTrue, BeforeFirst, LimitEnds, attempt
<1>1. CASE Starts
  <2>1. ConsoleFlags'
    BY <1>f, <1>1, Zenon DEF ConsoleFlags, Starts
  <2> QED BY <1>1, <2>1 DEF Starts, Connect
<1>2. CASE RetryFires
  <2>1. ConsoleFlags'
    BY <1>f, <1>2, Zenon DEF ConsoleFlags, RetryFires
  <2> QED BY <1>2, <2>1 DEF RetryFires, Connect
<1>3. CASE SocketOpens
  <2>1. ConsoleFlags'
    BY <1>f, <1>3, Zenon DEF ConsoleFlags, SocketOpens
  <2> QED BY <1>3, <2>1 DEF SocketOpens
<1>4. CASE Reconnect
  <2>1. ConsoleFlags'
    BY <1>f, <1>4, Zenon DEF ConsoleFlags, Reconnect
  <2> QED BY <1>4, <2>1 DEF Reconnect, Connect
<1>5. CASE Disconnect
  <2>1. ConsoleFlags'
    BY <1>f, <1>5, Zenon DEF ConsoleFlags, Disconnect
  <2> QED BY <1>5, <2>1 DEF Disconnect
<1>6. CASE CloseConsole
  <2>1. ConsoleFlags'
    BY <1>f, <1>6, Zenon DEF ConsoleFlags, CloseConsole
  <2> QED BY <1>6, <2>1 DEF CloseConsole
<1>7. CASE UNCHANGED consoleVars
  <2>1. ConsoleFlags'
    BY <1>f, <1>7, Zenon DEF ConsoleFlags, consoleVars
  <2> QED BY <1>7, <2>1 DEF consoleVars
<1>8. ASSUME NEW code \in {"clean", "refusal", "other"}, NEW soon \in BOOLEAN,
             NEW linkIsDown \in BOOLEAN, SocketCloses(code, soon, linkIsDown)
      PROVE  ConsoleInv'
  BY <1>8, ClosingInv
<1> QED BY <1>1, <1>2, <1>3, <1>4, <1>5, <1>6, <1>7, <1>8 DEF ConsoleNext

-----------------------------------------------------------------------------
(* The types.                                                              *)
THEOREM ConsoleTypes == ConsoleSpec => []ConsoleTypeOK
<1>1. ConsoleInv => ConsoleTypeOK
  BY DEF ConsoleInv
<1> QED BY <1>1, ConsoleInitInv, ConsoleNextInv, PTL DEF ConsoleSpec

(* What the console says of its connection is so, and nothing else is on   *)
(* its way.                                                                *)
THEOREM ConsoleSaysTheTruth == ConsoleSpec => []ConsoleIsTrue
<1>1. ConsoleInv => ConsoleIsTrue
  BY DEF ConsoleInv
<1> QED BY <1>1, ConsoleInitInv, ConsoleNextInv, PTL DEF ConsoleSpec

-----------------------------------------------------------------------------
(* The job pages. An answer in flight that is of the present version says  *)
(* what the device does; versions are bounded by starts and restarts.      *)
TruePolls ==
  \A s \in Slots :
    /\ polls[s].by = "none" => polls[s] = Free
    /\ polls[s].ver <= version
    /\ polls[s].got \in States /\ polls[s].ver = version => polls[s].got = job

TruePost ==
  /\ post.ver <= version
  /\ post.got = "accepted" /\ post.ver = version => job = "running"
  /\ own <= seen /\ seen <= version

Room(n) == version + n <= starts + starts + restarts + 1

StartsCount ==
  /\ Room(0)
  /\ job = "running" => Room(1)
  /\ post.got = "sent" => Room(2)
  /\ job = "running" /\ post.got = "sent" => Room(3)

(* What goes on while "running" is shown, by the kind of timer: an         *)
(* interval that is not stopped; a loop or the poll that keeps it up; a    *)
(* timeout or the poll that it has sent.                                   *)
OnTime == ~jobTold /\ post = NoPost

IntervalRuns ==
  jobHook.timer = "interval" /\ OnTime /\ (jobHook.rearms \/ ~misled) =>
    /\ panel = "running" => armed
    /\ ~jobHook.rearms /\ (\E s \in Slots : polls[s].by = "timer") => armed

LoopRuns ==
  Loop =>
    /\ panel = "running" => armed \/ \E s \in Slots : polls[s].by = "timer"
    /\ post # NoPost /\ ~misled => panel = "running"

EachRuns ==
  jobHook.timer = "each" /\ OnTime /\ panel = "running" =>
    armed \/ \E s \in Slots : polls[s] # Free /\ ~Opening(s)

(* The page's own job, while it runs.                                      *)
OwnIsShown ==
  OnTime /\ job = "running" /\ own > 0 /\ version = own /\ ~misled =>
    IF jobHook.timer = "interval" THEN armed ELSE panel = "running"

JobTruth == TruePolls /\ TruePost /\ StartsCount
JobRuns  == IntervalRuns /\ LoopRuns /\ EachRuns /\ OwnIsShown
JobInv   == JobTypeOK /\ JobTruth /\ JobRuns

JobBound == 2 * MaxStarts + MaxRestarts + 1

(* The types without the bounds that follow from the count of starts.      *)
JobTypes ==
  /\ jobHook \in JobHooks /\ job \in States /\ panel \in States
  /\ version \in Nat /\ starts \in 0..MaxStarts /\ restarts \in 0..MaxRestarts
  /\ post.ver \in Nat
  /\ post \in [got : {"no", "sent", "accepted", "already", "refused", "lost"}, ver : Nat]
  /\ polls \in [Slots -> [by : {"none", "open", "timer"}, got : States \cup {"none", "error"},
                          ver : Nat]]
  /\ failures \in 0..(MaxFailures - 1)
  /\ own \in Nat /\ seen \in Nat
  /\ armed \in BOOLEAN /\ misled \in BOOLEAN /\ jobTold \in BOOLEAN

LEMMA TypesAreBounded == JobTypes /\ JobTruth => JobTypeOK
<1> SUFFICES ASSUME JobTypes, JobTruth PROVE JobTypeOK
  OBVIOUS
<1>1. version <= JobBound /\ JobBound \in Nat
  BY JobAssumption DEF JobTypes, JobTruth, StartsCount, Room, JobBound
<1>2. post.ver <= version /\ own <= version /\ seen <= version
      /\ \A s \in Slots : polls[s].ver <= version
  BY DEF JobTypes, JobTruth, TruePost, TruePolls
<1>3. polls \in [Slots -> Polls]
  BY <1>1, <1>2 DEF JobTypes, Polls, JobBound
<1>4. post \in [got : {"no", "sent", "accepted", "already", "refused", "lost"}, ver : 0..JobBound]
  BY <1>1, <1>2 DEF JobTypes
<1> QED BY <1>1, <1>2, <1>3, <1>4 DEF JobTypes, JobTypeOK, JobBound

LEMMA TypesStayBounded == JobTypes' /\ JobTruth' => JobTypeOK'
BY TypesAreBounded, PTL

LEMMA BoundedAreTypes == JobTypeOK => JobTypes
BY JobAssumption DEF JobTypeOK, JobTypes, Polls

LEMMA HookIs ==
  ASSUME JobTypes PROVE
  /\ jobHook \in JobHookKinds
  /\ Loop => jobHook.rearms /\ jobHook.early /\ jobHook.idle = "live" /\ jobHook.fails = "ignore"
  /\ jobHook.timer = "each" => jobHook.rearms /\ jobHook.idle = "end" /\ jobHook.fails = "halt"
  /\ jobHook.opens = "poll" => jobHook.rearms
BY JobAssumption DEF JobTypes, Loop

-----------------------------------------------------------------------------
(* The device: jobs and answers.                                           *)
LEMMA DeviceTruth ==
  ASSUME JobTypes, JobTruth, JobEnds \/ DeviceForgets \/ OtherStarts \/ JobDevice
  PROVE  /\ JobTypes' /\ JobTruth'
         /\ UNCHANGED <<jobHook, panel, timer, learnt>>
         /\ post = NoPost <=> post' = NoPost
         /\ \A s \in Slots : polls'[s].by = polls[s].by /\ (polls'[s] = Free <=> polls[s] = Free)
         /\ version' = version => job' = job
<1>t. /\ version \in Nat /\ starts \in Nat /\ restarts \in Nat /\ job \in States
      /\ States = {"idle", "running", "done", "failed"}
  BY JobAssumption DEF JobTypes, States
<1>1. CASE JobEnds \/ DeviceForgets \/ OtherStarts
  <2>1. /\ version' = version + 1 /\ job' \in States
        /\ UNCHANGED <<jobHook, panel, timer, learnt, post, polls>>
        /\ starts' \in 0..MaxStarts /\ restarts' \in 0..MaxRestarts
    BY <1>1, <1>t, JobAssumption DEF JobEnds, DeviceForgets, OtherStarts, Becomes, JobTypes
  <2>2. StartsCount'
    <3>1. \/ job = "running" /\ job' # "running" /\ starts' = starts /\ restarts' = restarts
          \/ job' # "running" /\ starts' = starts /\ restarts' = restarts + 1
          \/ job # "running" /\ starts' = starts + 1 /\ restarts' = restarts
      BY <1>1 DEF JobEnds, DeviceForgets, OtherStarts, Becomes
    <3>2. /\ Room(0) /\ (job = "running" => Room(1))
          /\ post.got = "sent" => Room(2) /\ (job = "running" => Room(3))
      BY DEF JobTruth, StartsCount
    <3>3. post'.got = post.got /\ version' = version + 1
      BY <2>1
    <3>4. /\ Room(0)' /\ (job' = "running" => Room(1)')
          /\ post.got = "sent" => Room(2)' /\ (job' = "running" => Room(3)')
      BY <1>t, <3>1, <3>2, <3>3 DEF Room
    <3> QED BY <3>3, <3>4 DEF StartsCount
  <2>3. JobTypes'
    BY <1>t, <2>1 DEF JobTypes, timer, learnt
  <2>4. TruePolls' /\ TruePost'
    BY <1>t, <2>1 DEF JobTypes, JobTruth, TruePolls, TruePost, learnt
  <2> QED BY <1>t, <2>1, <2>2, <2>3, <2>4 DEF JobTruth
<1>2. CASE AnswerStart
  <2>1. /\ UNCHANGED <<jobHook, starts, restarts, panel, timer, polls, learnt>>
        /\ post.got = "sent"
        /\ post' \in [got : {"accepted", "already", "refused", "lost"}, ver : {version'}]
    BY <1>2 DEF AnswerStart, Reply
  <2>2. \/ job # "running" /\ job' = "running" /\ version' = version + 1
        \/ job' = job /\ version' = version /\ post'.got # "accepted"
    BY <1>2 DEF AnswerStart, Reply, Becomes
  <2>3. version' \in Nat /\ job' \in States /\ post'.ver = version' /\ post'.got # "no"
        /\ post'.got # "sent"
    BY <1>t, <2>1, <2>2
  <2>4. JobTypes'
    BY <2>1, <2>3 DEF JobTypes, timer, learnt
  <2>5. StartsCount'
    <3>1. starts' = starts /\ restarts' = restarts
      BY <2>1
    <3>2. Room(2) /\ (job = "running" => Room(3))
      BY <2>1 DEF JobTruth, StartsCount
    <3>3. Room(0)' /\ (job' = "running" => Room(1)')
      BY <1>t, <2>2, <3>1, <3>2 DEF Room
    <3> QED BY <2>3, <3>3 DEF StartsCount
  <2>6. TruePost'
    BY <1>t, <2>1, <2>2, <2>3 DEF JobTypes, JobTruth, TruePost, learnt
  <2>7. TruePolls'
    BY <1>t, <2>1, <2>2 DEF JobTypes, JobTruth, TruePolls
  <2>8. post # NoPost /\ post' # NoPost
    BY <2>1, <2>3 DEF NoPost
  <2> QED BY <1>t, <2>1, <2>2, <2>4, <2>5, <2>6, <2>7, <2>8 DEF JobTruth
<1>3. ASSUME NEW s \in Slots, AnswerPoll(s)
      PROVE  /\ JobTypes' /\ JobTruth'
             /\ UNCHANGED <<jobHook, panel, timer, learnt, post, job, version>>
             /\ \A r \in Slots : polls'[r].by = polls[r].by /\ (polls'[r] = Free <=> polls[r] = Free)
  <2>1. PICK got \in {job, "error"} :
          polls' = [polls EXCEPT ![s].got = got, ![s].ver = version]
    BY <1>3 DEF AnswerPoll
  <2>2. /\ UNCHANGED <<jobHook, job, version, starts, restarts, panel, timer, post, learnt>>
        /\ polls[s] # Free /\ polls[s].got = "none"
    BY <1>3 DEF AnswerPoll, deviceJob
  <2>3. polls \in [Slots -> [by : {"none", "open", "timer"}, got : States \cup {"none", "error"},
                             ver : Nat]]
    BY DEF JobTypes
  <2>4. /\ polls'[s].by = polls[s].by /\ polls'[s].got = got /\ polls'[s].ver = version
        /\ \A r \in Slots : r # s => polls'[r] = polls[r]
        /\ polls' \in [Slots -> [by : {"none", "open", "timer"}, got : States \cup {"none", "error"},
                                 ver : Nat]]
    BY <1>t, <2>1, <2>3
  <2>5. polls[s].by # "none" /\ polls'[s] # Free
    <3>1. polls[s].by # "none"
      BY <2>2 DEF JobTruth, TruePolls
    <3> QED BY <2>4, <3>1 DEF Free
  <2>6. JobTypes'
    BY <2>2, <2>4 DEF JobTypes, timer, learnt
  <2>7. TruePost' /\ StartsCount'
    BY <2>2 DEF JobTruth, TruePost, StartsCount, Room, learnt
  <2>8. TruePolls'
    BY <1>t, <2>1, <2>2, <2>4, <2>5 DEF JobTruth, TruePolls, States
  <2> QED BY <2>2, <2>4, <2>5, <2>6, <2>7, <2>8 DEF JobTruth
<1> QED BY <1>1, <1>2, <1>3 DEF JobDevice

(* So what goes on at the page goes on, and its own job that runs is the   *)
(* same as before.                                                         *)
LEMMA DeviceKeeps ==
  ASSUME JobInv, JobEnds \/ DeviceForgets \/ OtherStarts \/ JobDevice PROVE JobInv'
<1>1. JobTypes /\ JobTruth
  BY BoundedAreTypes DEF JobInv
<1>2. /\ JobTypes' /\ JobTruth'
      /\ UNCHANGED <<jobHook, panel, timer, learnt>>
      /\ post = NoPost <=> post' = NoPost
      /\ \A s \in Slots : polls'[s].by = polls[s].by /\ (polls'[s] = Free <=> polls[s] = Free)
      /\ version' = version => job' = job
  BY <1>1, DeviceTruth
<1>3. JobTypeOK'
  BY <1>2, TypesStayBounded
<1>4. IntervalRuns' /\ LoopRuns' /\ EachRuns'
  BY <1>2 DEF JobInv, JobRuns, IntervalRuns, LoopRuns, EachRuns, OnTime, Loop, Opening, timer, learnt
<1>5. version' = own => version' = version
  <2>1. own <= version /\ own \in Nat /\ version \in Nat /\ version' \in Nat
    BY <1>1, <1>2 DEF JobTypes, JobTruth, TruePost
  <2>2. version' = version \/ version' = version + 1
    BY DEF JobEnds, DeviceForgets, OtherStarts, JobDevice, AnswerStart, AnswerPoll, Becomes,
       deviceJob
  <2> QED BY <2>1, <2>2
<1>6. OwnIsShown'
  BY <1>2, <1>5 DEF JobInv, JobRuns, OwnIsShown, OnTime, timer, learnt
<1> QED BY <1>2, <1>3, <1>4, <1>6 DEF JobInv, JobRuns

-----------------------------------------------------------------------------
(* The page: its request to start a job.                                   *)
PollTypes == [Slots -> [by : {"none", "open", "timer"}, got : States \cup {"none", "error"},
                        ver : Nat]]

LEMMA StartKeeps ==
  ASSUME JobTypes, JobTruth, JobRuns, StartJob
  PROVE  JobTypes' /\ JobTruth' /\ JobRuns'
<1>1. /\ post.got = "no" /\ starts' = starts + 1 /\ starts < MaxStarts
      /\ post' = [got |-> "sent", ver |-> 0] /\ post' # NoPost
      /\ UNCHANGED <<jobHook, job, version, restarts, polls, own, seen>>
      /\ failures' = 0 /\ misled' = FALSE /\ jobTold' = FALSE
      /\ armed' \in BOOLEAN /\ panel' \in States
  BY DEF StartJob, NoPost, JobTypes, States
<1>2. JobTypes'
  <2>1. starts' \in 0..MaxStarts /\ failures' \in 0..(MaxFailures - 1)
    BY <1>1, JobAssumption DEF JobTypes
  <2> QED BY <1>1, <2>1 DEF JobTypes
<1>3. TruePolls' /\ TruePost'
  BY <1>1 DEF JobTypes, JobTruth, TruePolls, TruePost
<1>4. StartsCount'
  <2>1. /\ version \in Nat /\ starts \in Nat /\ restarts \in Nat
        /\ Room(0) /\ (job = "running" => Room(1))
    BY JobAssumption DEF JobTypes, JobTruth, StartsCount
  <2>2. /\ Room(0)' /\ Room(2)'
        /\ (job' = "running" => Room(1)') /\ (job' = "running" => Room(3)')
    BY <1>1, <2>1 DEF Room
  <2> QED BY <2>2 DEF StartsCount
<1>5. IntervalRuns' /\ EachRuns' /\ OwnIsShown'
  BY <1>1 DEF IntervalRuns, EachRuns, OwnIsShown, OnTime
<1>6. LoopRuns'
  <2>1. Loop => armed' /\ panel' = "running"
    BY HookIs DEF StartJob
  <2> QED BY <1>1, <2>1 DEF LoopRuns, Loop
<1> QED BY <1>2, <1>3, <1>4, <1>5, <1>6 DEF JobTruth, JobRuns

LEMMA StartedKeeps ==
  ASSUME JobTypes, JobTruth, JobRuns, TakeStarted
  PROVE  JobTypes' /\ JobTruth' /\ JobRuns'
<1>1. /\ post.got \in {"accepted", "already", "refused"}
      /\ post' = NoPost
      /\ UNCHANGED <<jobHook, job, version, starts, restarts, polls, failures, misled, jobTold>>
      /\ panel' \in {panel, "running"}
      /\ armed' = IF Loop THEN armed ELSE TRUE
      /\ own' = IF post.got = "accepted" THEN post.ver ELSE own
      /\ seen' = IF post.ver > seen THEN post.ver ELSE seen
  BY DEF TakeStarted, Joins, deviceJob
<1>2. /\ post.ver \in Nat /\ own \in Nat /\ seen \in Nat /\ version \in Nat
      /\ post.ver <= version /\ own <= seen /\ seen <= version
  BY DEF JobTypes, JobTruth, TruePost
<1>3. JobTypes'
  BY <1>1, <1>2 DEF JobTypes, NoPost, States
<1>4. TruePolls' /\ StartsCount'
  BY <1>1 DEF JobTruth, TruePolls, StartsCount, Room, NoPost
<1>5. TruePost'
  <2>1. own' <= seen' /\ seen' <= version
    BY <1>1, <1>2
  <2> QED BY <1>1, <1>2, <2>1 DEF TruePost, NoPost
<1>6. IntervalRuns' /\ EachRuns'
  BY <1>1 DEF IntervalRuns, EachRuns, OnTime, Loop
<1>7. Loop => panel' = panel /\ armed' = armed
  BY <1>1 DEF TakeStarted, ShowsStart, Loop
<1>8. LoopRuns'
  BY <1>1, <1>7 DEF JobRuns, LoopRuns, Loop
<1>9. OwnIsShown'
  <2>1. CASE Loop
    <3>1. post # NoPost
      BY <1>1 DEF NoPost
    <3> QED BY <1>1, <1>7, <2>1, <3>1 DEF JobRuns, LoopRuns, OwnIsShown, Loop
  <2>2. CASE jobHook.timer = "each"
    BY <1>1, <2>2 DEF TakeStarted, ShowsStart, OwnIsShown
  <2>3. CASE jobHook.timer = "interval"
    BY <1>1, <2>3 DEF OwnIsShown, Loop
  <2> QED BY <2>1, <2>2, <2>3, HookIs DEF JobHookKinds, Loop
<1> QED BY <1>3, <1>4, <1>5, <1>6, <1>8, <1>9 DEF JobTruth, JobRuns

LEMMA NotStartedKeeps ==
  ASSUME JobTypes, JobTruth, JobRuns, TakeNotStarted
  PROVE  JobTypes' /\ JobTruth' /\ JobRuns'
<1>1. /\ post' = NoPost /\ jobTold' = TRUE
      /\ UNCHANGED <<jobHook, job, version, starts, restarts, polls, failures, own, seen, misled>>
      /\ panel' = (IF jobHook.early THEN "failed" ELSE panel)
      /\ armed' = (armed /\ ~Loop)
  BY DEF TakeNotStarted, deviceJob
<1>2. JobTypes'
  BY <1>1 DEF JobTypes, NoPost, States
<1>3. TruePolls' /\ StartsCount' /\ TruePost'
  BY <1>1 DEF JobTypes, JobTruth, TruePolls, TruePost, StartsCount, Room, NoPost
<1>4. IntervalRuns' /\ EachRuns' /\ OwnIsShown'
  BY <1>1 DEF IntervalRuns, EachRuns, OwnIsShown, OnTime
<1>5. LoopRuns'
  BY <1>1, HookIs DEF LoopRuns, Loop
<1> QED BY <1>2, <1>3, <1>4, <1>5 DEF JobTruth, JobRuns

-----------------------------------------------------------------------------
(* Its timer fires.                                                        *)
LEMMA TickKeeps ==
  ASSUME JobTypes, JobTruth, JobRuns, NEW s \in Slots, Tick(s)
  PROVE  JobTypes' /\ JobTruth' /\ JobRuns'
<1>1. /\ UNCHANGED <<jobHook, job, version, starts, restarts, panel, post, failures,
                     own, seen, misled, jobTold>>
      /\ armed /\ armed' = (jobHook.timer = "interval")
      /\ polls' = [polls EXCEPT ![s] = Waiting("timer")]
  BY DEF Tick, deviceJob, learnt
<1>2. polls \in PollTypes
  BY DEF JobTypes, PollTypes
<1>3. /\ polls'[s] = [by |-> "timer", got |-> "none", ver |-> 0] /\ polls'[s] # Free
      /\ \A r \in Slots : r # s => polls'[r] = polls[r]
      /\ polls' \in PollTypes
  BY <1>1, <1>2 DEF Waiting, PollTypes, Free
<1>4. JobTypes'
  BY <1>1, <1>3 DEF JobTypes, PollTypes
<1>5. TruePost' /\ StartsCount'
  BY <1>1 DEF JobTruth, TruePost, StartsCount, Room
<1>6. TruePolls'
  BY <1>1, <1>3 DEF JobTypes, JobTruth, TruePolls, States
<1>7. IntervalRuns' /\ OwnIsShown'
  BY <1>1 DEF JobRuns, IntervalRuns, OwnIsShown, OnTime
<1>8. LoopRuns' /\ EachRuns'
  BY <1>1, <1>3 DEF JobRuns, LoopRuns, EachRuns, Loop, Opening
<1> QED BY <1>4, <1>5, <1>6, <1>7, <1>8 DEF JobTruth, JobRuns

-----------------------------------------------------------------------------
(* An answer is taken: it leaves no poll behind, and it is at least as new *)
(* as all that the page was told, unless it misleads.                      *)
LEMMA ArrivedTruth ==
  ASSUME JobTypes, JobTruth, NEW s \in Slots, Arrived(s),
         Learns(s) \/ UNCHANGED <<own, seen, misled>>
  PROVE  /\ JobTruth'
         /\ UNCHANGED <<jobHook, job, version, starts, restarts, post, own>>
         /\ polls' \in PollTypes /\ own' \in Nat /\ seen' \in Nat /\ misled' \in BOOLEAN
         /\ polls'[s] = Free
         /\ \A r \in Slots : r # s => polls'[r] = polls[r]
         /\ \A r \in Slots : polls'[r] # Free => r # s /\ polls'[r] = polls[r]
         /\ polls[s].by \in {"open", "timer"}
         /\ misled => misled'
<1>1. /\ UNCHANGED <<jobHook, job, version, starts, restarts, post, own>>
      /\ polls[s].got # "none" /\ polls' = [polls EXCEPT ![s] = Free]
  BY DEF Arrived, deviceJob, Learns
<1>2. polls \in PollTypes
  BY DEF JobTypes, PollTypes
<1>3. /\ polls'[s] = [by |-> "none", got |-> "none", ver |-> 0] /\ polls'[s] = Free
      /\ \A r \in Slots : r # s => polls'[r] = polls[r]
      /\ polls' \in PollTypes
  BY <1>1, <1>2 DEF PollTypes, Free
<1>4. /\ own \in Nat /\ seen \in Nat /\ version \in Nat /\ polls[s].ver \in Nat
      /\ own <= seen /\ seen <= version /\ polls[s].ver <= version /\ misled \in BOOLEAN
  BY <1>2 DEF JobTypes, JobTruth, TruePost, TruePolls, PollTypes
<1>5. seen' \in Nat /\ seen <= seen' /\ seen' <= version
  <2>1. CASE Learns(s)
    BY <1>4, <2>1 DEF Learns
  <2> QED BY <1>4, <2>1
<1>6. misled' \in BOOLEAN /\ (misled => misled')
  <2>1. CASE Learns(s)
    <3>1. misled' = (misled \/ Crosses(s))
      BY <2>1 DEF Learns
    <3> QED BY <3>1
  <2> QED BY <1>4, <2>1
<1>7. TruePost' /\ StartsCount'
  BY <1>1, <1>4, <1>5 DEF JobTruth, TruePost, StartsCount, Room
<1>8. TruePolls'
  BY <1>1, <1>3, <1>4 DEF JobTruth, TruePolls, States
<1>9. polls[s].by \in {"open", "timer"}
  <2>1. polls[s] # Free
    BY <1>1 DEF Free
  <2>2. polls[s].by \in {"none", "open", "timer"}
    BY <1>2 DEF PollTypes
  <2> QED BY <2>1, <2>2 DEF JobTruth, TruePolls
<1> QED BY <1>1, <1>3, <1>4, <1>5, <1>6, <1>7, <1>8, <1>9 DEF JobTruth

(* What an answer does that does not mislead: there is no request on its   *)
(* way, and it says what the job of the page does.                         *)
LEMMA NotMisled ==
  ASSUME JobTypes, JobTruth, NEW s \in Slots, NEW state \in States,
         Answered(s, state), ~misled'
  PROVE  /\ ~misled /\ post = NoPost
         /\ ~jobHook.rearms /\ state # "running" => \A r \in Slots : polls'[r].by = "none"
         /\ version = own => job = state
<1>1. ~misled /\ ~Crosses(s)
  BY DEF Answered, Learns
<1>2. polls[s].got = state /\ polls' = [polls EXCEPT ![s] = Free]
  BY DEF Answered, Arrived
<1>3. /\ own \in Nat /\ seen \in Nat /\ version \in Nat /\ polls[s].ver \in Nat
      /\ own <= seen /\ seen <= version /\ polls[s].ver <= version
  BY DEF JobTypes, JobTruth, TruePost, TruePolls
<1>4. ~(polls[s].ver < seen) /\ post = NoPost
  BY <1>1 DEF Crosses
<1>5. ASSUME version = own PROVE job = state
  <2>1. polls[s].ver = version
    BY <1>3, <1>4, <1>5
  <2> QED BY <1>2, <2>1 DEF JobTruth, TruePolls
<1>6. ASSUME ~jobHook.rearms, state # "running", NEW r \in Slots PROVE polls'[r].by = "none"
  <2>1. InFlight = {s}
    BY <1>1, <1>2, <1>6 DEF Crosses
  <2>2. r = s \/ polls[r] = Free
    BY <2>1 DEF InFlight
  <2>3. polls'[r] = Free
    BY <1>2, <2>2 DEF JobTypes
  <2> QED BY <2>3 DEF Free
<1> QED BY <1>1, <1>4, <1>5, <1>6

(* A job that runs: the timer of the page goes on.                         *)
LEMMA RunningKeeps ==
  ASSUME JobTypes, JobTruth, JobRuns, NEW s \in Slots, TakeRunning(s)
  PROVE  JobTypes' /\ JobTruth' /\ JobRuns'
<1>1. /\ Answered(s, "running") /\ "running" \in States
      /\ panel' = (IF jobHook.flag /\ ~Opening(s) THEN panel ELSE "running")
      /\ armed' = (armed \/ jobHook.rearms \/ Opening(s))
      /\ failures' = 0 /\ jobTold' = jobTold
  BY DEF TakeRunning, States
<1>2. /\ JobTruth'
      /\ UNCHANGED <<jobHook, job, version, starts, restarts, post, own>>
      /\ polls' \in PollTypes /\ own' \in Nat /\ seen' \in Nat /\ misled' \in BOOLEAN
      /\ polls[s].by \in {"open", "timer"}
      /\ \A r \in Slots : polls'[r] # Free => polls'[r] = polls[r]
      /\ misled => misled'
  BY <1>1, ArrivedTruth DEF Answered
<1>3. ~misled' => ~misled /\ post = NoPost
  BY <1>1, NotMisled
<1>4. JobTypes'
  <2>1. failures' \in 0..(MaxFailures - 1)
    BY <1>1, JobAssumption
  <2>2. panel' \in States /\ armed' \in BOOLEAN
    BY <1>1 DEF JobTypes
  <2> QED BY <1>1, <1>2, <2>1, <2>2 DEF JobTypes, PollTypes
<1>5. IntervalRuns'
  <2> SUFFICES ASSUME jobHook.timer = "interval", OnTime, jobHook.rearms \/ ~misled'
               PROVE  armed'
    BY <1>1, <1>2 DEF IntervalRuns, OnTime
  <2>1. CASE jobHook.rearms \/ Opening(s)
    BY <1>1, <2>1
  <2>2. CASE ~jobHook.rearms /\ ~Opening(s)
    <3>1. polls[s].by = "timer"
      BY <1>2, <2>2, HookIs DEF Opening
    <3> QED BY <1>1, <1>3, <2>2, <3>1 DEF JobRuns, IntervalRuns
  <2> QED BY <2>1, <2>2
<1>6. LoopRuns'
  <2>1. Loop => armed'
    BY <1>1, HookIs
  <2> QED BY <1>2, <1>3, <2>1 DEF LoopRuns, Loop
<1>7. EachRuns'
  BY <1>1, <1>2, HookIs DEF EachRuns
<1>8. OwnIsShown'
  BY <1>1, <1>2, <1>3 DEF JobRuns, OwnIsShown, OnTime
<1> QED BY <1>2, <1>4, <1>5, <1>6, <1>7, <1>8 DEF JobRuns

(* The end of a job: the page's own does not run any more.                 *)
LEMMA EndKeeps ==
  ASSUME JobTypes, JobTruth, JobRuns, NEW s \in Slots, TakeEnd(s)
  PROVE  JobTypes' /\ JobTruth' /\ JobRuns'
<1>1. PICK state \in {"done", "failed"} : Answered(s, state) /\ panel' = state
  BY DEF TakeEnd
<1>2. armed' = FALSE /\ failures' = 0 /\ jobTold' = jobTold /\ state \in States
  BY DEF TakeEnd, States
<1>3. /\ JobTruth'
      /\ UNCHANGED <<jobHook, job, version, starts, restarts, post, own>>
      /\ polls' \in PollTypes /\ own' \in Nat /\ seen' \in Nat /\ misled' \in BOOLEAN
  BY <1>1, ArrivedTruth DEF Answered
<1>4. ~misled' => /\ post = NoPost
                  /\ ~jobHook.rearms => \A r \in Slots : polls'[r].by = "none"
                  /\ version = own => job = state
  BY <1>1, <1>2, NotMisled
<1>5. JobTypes'
  <2>1. failures' \in 0..(MaxFailures - 1)
    BY <1>2, JobAssumption
  <2> QED BY <1>1, <1>2, <1>3, <2>1 DEF JobTypes, PollTypes
<1>6. IntervalRuns'
  BY <1>1, <1>3, <1>4 DEF IntervalRuns
<1>7. LoopRuns' /\ EachRuns'
  BY <1>1, <1>3, <1>4 DEF LoopRuns, EachRuns, Loop
<1>8. OwnIsShown'
  BY <1>3, <1>4 DEF OwnIsShown
<1> QED BY <1>3, <1>5, <1>6, <1>7, <1>8 DEF JobRuns

(* No job: what the page makes of that is its own choice, but it does not  *)
(* go on to show that one runs without a timer.                            *)
LEMMA IdleKeeps ==
  ASSUME JobTypes, JobTruth, JobRuns, NEW s \in Slots, TakeIdle(s)
  PROVE  JobTypes' /\ JobTruth' /\ JobRuns'
<1>1. Answered(s, "idle") /\ failures' = 0 /\ "idle" \in States
  BY DEF TakeIdle, States
<1>2. /\ JobTruth'
      /\ UNCHANGED <<jobHook, job, version, starts, restarts, post, own>>
      /\ polls' \in PollTypes /\ own' \in Nat /\ seen' \in Nat /\ misled' \in BOOLEAN
      /\ \A r \in Slots : polls'[r] # Free => polls'[r] = polls[r]
      /\ misled => misled'
  BY <1>1, ArrivedTruth DEF Answered
<1>3. ~misled' => /\ post = NoPost
                  /\ ~jobHook.rearms => \A r \in Slots : polls'[r].by = "none"
                  /\ version = own => job = "idle"
  BY <1>1, NotMisled
<1>4. \/ jobHook.idle # "live" /\ Fail /\ armed' = FALSE
      \/ jobHook.idle = "live" /\ panel' # "running" /\ panel' \in {panel, "idle"}
         /\ armed' = FALSE /\ jobTold' = jobTold
      \/ jobHook.idle = "end" /\ panel' = "idle" /\ armed' = FALSE /\ jobTold' = jobTold
      \/ jobHook.idle = "show" /\ panel' = "idle" /\ armed' = armed /\ jobTold' = jobTold
      \/ jobHook.idle \notin {"live", "end"} /\ panel' = panel /\ armed' = armed
         /\ jobTold' = jobTold
  <2>1. jobHook.idle \in {"vanished", "end", "show", "live", "ignore"}
    BY HookIs DEF JobHookKinds
  <2> QED BY <2>1 DEF TakeIdle
<1>5. JobTypes'
  <2>1. failures' \in 0..(MaxFailures - 1)
    BY <1>1, JobAssumption
  <2>2. panel' \in States /\ armed' \in BOOLEAN /\ jobTold' \in BOOLEAN
    BY <1>4 DEF JobTypes, States, Fail
  <2> QED BY <1>1, <1>2, <2>1, <2>2 DEF JobTypes, PollTypes
<1>6. \A r \in Slots : polls'[r].by = "timer" => polls[r].by = "timer"
  BY <1>2 DEF Free
<1>7. IntervalRuns'
  <2> SUFFICES ASSUME jobHook.timer = "interval", OnTime', jobHook.rearms \/ ~misled'
               PROVE  /\ panel' = "running" => armed'
                      /\ ~jobHook.rearms /\ (\E r \in Slots : polls'[r].by = "timer") => armed'
    BY <1>2 DEF IntervalRuns
  <2>1. ~jobTold' /\ post = NoPost
    BY <1>2 DEF OnTime
  <2>2. CASE panel' = panel /\ armed' = armed /\ jobTold' = jobTold
    BY <1>2, <1>6, <2>1, <2>2 DEF JobRuns, IntervalRuns, OnTime
  <2>3. CASE panel' # "running"
    BY <1>3, <2>3
  <2> QED BY <1>4, <2>1, <2>2, <2>3 DEF Fail
<1>8. LoopRuns'
  <2>1. Loop => panel' # "running"
    BY <1>4, HookIs
  <2> QED BY <1>2, <1>3, <2>1 DEF LoopRuns, Loop
<1>9. EachRuns'
  <2>1. jobHook.timer = "each" => panel' # "running" \/ jobTold'
    BY <1>4, HookIs DEF Fail
  <2> QED BY <1>2, <2>1 DEF EachRuns, OnTime
<1>10. OwnIsShown'
  BY <1>2, <1>3 DEF OwnIsShown
<1> QED BY <1>2, <1>5, <1>7, <1>8, <1>9, <1>10 DEF JobRuns

(* The read at the opening, when no job runs.                              *)
LEMMA OpeningKeeps ==
  ASSUME JobTypes, JobTruth, JobRuns, NEW s \in Slots, TakeOpening(s)
  PROVE  JobTypes' /\ JobTruth' /\ JobRuns'
<1>1. PICK state \in {"idle", "done", "failed"} :
        /\ Answered(s, state)
        /\ panel' = IF state # "idle" /\ ShowsEnd(state) THEN state ELSE panel
  BY DEF TakeOpening
<1>2. /\ Opening(s) /\ armed' = (armed /\ (Loop => panel' = "running"))
      /\ failures' = failures /\ jobTold' = jobTold
      /\ state \in States /\ state # "running"
  BY DEF TakeOpening, States
<1>3. /\ JobTruth'
      /\ UNCHANGED <<jobHook, job, version, starts, restarts, post, own>>
      /\ polls' \in PollTypes /\ own' \in Nat /\ seen' \in Nat /\ misled' \in BOOLEAN
      /\ \A r \in Slots : r # s => polls'[r] = polls[r]
      /\ \A r \in Slots : polls'[r] # Free => polls'[r] = polls[r]
      /\ misled => misled'
  BY <1>1, ArrivedTruth DEF Answered
<1>4. ~misled' => post = NoPost /\ (version = own => job = state)
  BY <1>1, <1>2, NotMisled
<1>5. panel' \in States /\ (panel' = "running" => panel = "running")
  BY <1>1, <1>2 DEF JobTypes
<1>6. JobTypes'
  BY <1>2, <1>3, <1>5 DEF JobTypes, PollTypes
<1>7. IntervalRuns'
  <2>1. jobHook.timer = "interval" => armed' = armed
    BY <1>2 DEF Loop, JobTypes
  <2>2. \A r \in Slots : polls'[r].by = "timer" => polls[r].by = "timer"
    BY <1>3 DEF Free
  <2> QED BY <1>2, <1>3, <1>5, <2>1, <2>2 DEF JobRuns, IntervalRuns, OnTime
<1>8. LoopRuns'
  <2>1. \A r \in Slots : polls[r].by = "timer" => polls'[r].by = "timer"
    BY <1>2, <1>3 DEF Opening
  <2> QED BY <1>2, <1>3, <1>4, <1>5, <2>1 DEF JobRuns, LoopRuns, Loop
<1>9. EachRuns'
  <2>1. jobHook.timer = "each" => armed' = armed
    BY <1>2 DEF Loop, JobTypes
  <2>2. ASSUME NEW r \in Slots, polls[r] # Free, ~Opening(r)
        PROVE  polls'[r] # Free /\ ~Opening(r)'
    BY <1>2, <1>3, <2>2 DEF Opening
  <2> QED BY <1>2, <1>3, <1>5, <2>1, <2>2 DEF JobRuns, EachRuns, OnTime
<1>10. OwnIsShown'
  BY <1>2, <1>3, <1>4 DEF OwnIsShown
<1> QED BY <1>3, <1>6, <1>7, <1>8, <1>9, <1>10 DEF JobRuns

(* A poll that fails: a loop goes on, and a page that stops tells of it.   *)
LEMMA ErrorKeeps ==
  ASSUME JobTypes, JobTruth, JobRuns, NEW s \in Slots, TakeError(s)
  PROVE  JobTypes' /\ JobTruth' /\ JobRuns'
<1>1. /\ JobTruth'
      /\ UNCHANGED <<jobHook, job, version, starts, restarts, post, own>>
      /\ polls' \in PollTypes /\ own' \in Nat /\ seen' \in Nat /\ misled' \in BOOLEAN
      /\ \A r \in Slots : r # s => polls'[r] = polls[r]
      /\ \A r \in Slots : polls'[r] # Free => polls'[r] = polls[r]
      /\ misled' = misled
  BY ArrivedTruth DEF TakeError
<1>2. \/ (Opening(s) \/ jobHook.fails = "ignore") /\ armed' = GoesOn /\ panel' = panel
         /\ jobTold' = jobTold
      \/ jobHook.fails = "limit" /\ panel' = panel /\ armed' = armed /\ jobTold' = jobTold
      \/ jobHook.fails # "ignore" /\ jobTold' = TRUE
  BY DEF TakeError, TakeFailedPoll, Fail
<1>3. JobTypes'
  <2>1. failures' \in 0..(MaxFailures - 1)
    BY JobAssumption DEF JobTypes, TakeError, TakeFailedPoll, timer
  <2>2. panel' \in States /\ armed' \in BOOLEAN /\ jobTold' \in BOOLEAN
    BY DEF JobTypes, TakeError, TakeFailedPoll, Fail, GoesOn, States, timer
  <2> QED BY <1>1, <2>1, <2>2 DEF JobTypes, PollTypes
<1>4. \A r \in Slots : polls'[r].by = "timer" => polls[r].by = "timer"
  BY <1>1 DEF Free
<1>5. IntervalRuns'
  BY <1>1, <1>2, <1>4 DEF JobRuns, IntervalRuns, OnTime, GoesOn, Loop, JobTypes
<1>6. LoopRuns'
  <2>1. Loop => panel' = panel /\ (panel = "running" => armed')
    BY <1>2, HookIs DEF GoesOn, TakeError
  <2> QED BY <1>1, <2>1 DEF JobRuns, LoopRuns, Loop
<1>7. EachRuns'
  <2> SUFFICES ASSUME jobHook.timer = "each", OnTime', panel' = "running"
               PROVE  armed' \/ \E r \in Slots : polls'[r] # Free /\ ~Opening(r)'
    BY <1>1 DEF EachRuns
  <2>1. Opening(s) /\ armed' = armed /\ panel' = panel /\ OnTime
    BY <1>1, <1>2, HookIs DEF GoesOn, Loop, OnTime, JobTypes
  <2>2. ASSUME NEW r \in Slots, polls[r] # Free, ~Opening(r)
        PROVE  polls'[r] # Free /\ ~Opening(r)'
    BY <1>1, <2>1, <2>2 DEF Opening
  <2> QED BY <2>1, <2>2 DEF JobRuns, EachRuns
<1>8. OwnIsShown'
  <2> SUFFICES ASSUME OnTime', job = "running", own > 0, version = own, ~misled
               PROVE  IF jobHook.timer = "interval" THEN armed' ELSE panel' = "running"
    BY <1>1 DEF OwnIsShown
  <2>1. panel' = panel /\ (armed => armed') /\ OnTime
    BY <1>1, <1>2 DEF GoesOn, OnTime, JobTypes
  <2>2. IF jobHook.timer = "interval" THEN armed ELSE panel = "running"
    BY <2>1 DEF JobRuns, OwnIsShown
  <2> QED BY <2>1, <2>2
<1> QED BY <1>1, <1>3, <1>5, <1>6, <1>7, <1>8 DEF JobRuns

-----------------------------------------------------------------------------
LEMMA JobInitInv == JobInit => JobInv
<1> SUFFICES ASSUME NEW h \in JobHooks, OpenJobPage(h) PROVE JobInv
  BY DEF JobInit
<1>1. /\ jobHook = h /\ job \in {"idle", "running", "done"} /\ version = 0
      /\ starts = 0 /\ restarts = 0 /\ panel = "idle" /\ armed = FALSE /\ post = NoPost
      /\ failures = 0 /\ own = 0 /\ seen = 0 /\ misled = FALSE /\ jobTold = FALSE
  BY DEF OpenJobPage
<1>2. /\ polls \in PollTypes
      /\ \A s \in Slots : polls[s] \in {Free, Waiting("open")}
  BY DEF OpenJobPage, PollTypes, Free, Waiting
<1>3. JobTypes
  <2>1. 0 \in 0..MaxStarts /\ 0 \in 0..MaxRestarts /\ 0 \in 0..(MaxFailures - 1)
    BY JobAssumption
  <2> QED BY <1>1, <1>2, <2>1 DEF JobTypes, PollTypes, NoPost, States
<1>4. TruePolls /\ TruePost
  BY <1>1, <1>2 DEF TruePolls, TruePost, Free, Waiting, NoPost, States
<1>5. StartsCount
  BY <1>1 DEF StartsCount, Room, NoPost
<1>6. JobRuns
  BY <1>1, <1>2 DEF JobRuns, IntervalRuns, LoopRuns, EachRuns, OwnIsShown, Loop, Free, Waiting
<1> QED BY <1>3, <1>4, <1>5, <1>6, TypesAreBounded DEF JobInv, JobTruth

LEMMA JobStepInv == JobInv /\ [JobNext]_jobVars => JobInv'
<1> SUFFICES ASSUME JobInv, [JobNext]_jobVars PROVE JobInv'
  OBVIOUS
<1>1. JobTypes /\ JobTruth /\ JobRuns
  BY BoundedAreTypes DEF JobInv
<1>2. CASE JobEnds \/ DeviceForgets \/ OtherStarts \/ JobDevice
  BY <1>2, DeviceKeeps
<1>3. CASE StartJob \/ TakeStarted \/ TakeNotStarted \/ \E s \in Slots : Tick(s) \/ TakePoll(s)
  <2>1. JobTypes' /\ JobTruth' /\ JobRuns'
    BY <1>1, <1>3, StartKeeps, StartedKeeps, NotStartedKeeps, TickKeeps, RunningKeeps, EndKeeps,
       IdleKeeps, OpeningKeeps, ErrorKeeps DEF TakePoll
  <2> QED BY <2>1, TypesStayBounded DEF JobInv
<1>4. CASE UNCHANGED jobVars
  <2>1. UNCHANGED <<jobHook, job, version, starts, restarts, panel, armed, failures, post, polls,
                    own, seen, misled, jobTold>>
    BY <1>4 DEF jobVars, deviceJob, timer, learnt
  <2>2. JobTypeOK' /\ JobTruth'
    BY <2>1 DEF JobInv, JobTypeOK, JobTruth, TruePolls, TruePost, StartsCount, Room
  <2>3. JobRuns'
    BY <2>1 DEF JobInv, JobRuns, IntervalRuns, LoopRuns, EachRuns, OwnIsShown, OnTime, Loop, Opening
  <2> QED BY <2>2, <2>3 DEF JobInv
<1> QED BY <1>2, <1>3, <1>4 DEF JobNext

(* The types of a job page, for any set of hooks, any number of polls in   *)
(* flight and any bounds.                                                  *)
THEOREM JobTypesHold == JobSpec => []JobTypeOK
<1>1. JobInv => JobTypeOK
  BY DEF JobInv
<1> QED BY <1>1, JobInitInv, JobStepInv, PTL DEF JobSpec

(* A job is watched: a page that shows "running" will ask again, and the   *)
(* job that it started is not lost from view.  Each kind of timer of the   *)
(* hooks in src/frontend/hooks keeps that up in its own way.               *)
THEOREM JobWatched == JobSpec => []JobIsWatched
<1>1. JobInv => JobIsWatched
  <2> SUFFICES ASSUME JobInv PROVE JobIsWatched
    OBVIOUS
  <2>1. jobHook.timer \in {"interval", "loop", "each"}
    BY BoundedAreTypes, HookIs DEF JobInv, JobHookKinds
  <2>2. NeverStuck
    <3> SUFFICES ASSUME panel = "running", jobHook.rearms \/ ~misled, OnTime, ~armed
                 PROVE  InFlight # {}
      BY DEF NeverStuck, Watches, OnTime
    <3>1. \E s \in Slots : polls[s] # Free
      BY <2>1 DEF JobInv, JobRuns, IntervalRuns, LoopRuns, EachRuns, Loop, Free
    <3> QED BY <3>1 DEF InFlight
  <2>3. RunningIsShown
    BY DEF JobInv, JobRuns, OwnIsShown, RunningIsShown, OnTime, Watches
  <2> QED BY <2>2, <2>3 DEF JobIsWatched
<1> QED BY <1>1, JobInitInv, JobStepInv, PTL DEF JobSpec

-----------------------------------------------------------------------------
(* The tab.                                                                *)

(* A page that is not shown is in one of its initial states.               *)
LEMMA TabStarts == TabInit => SettingsInit /\ LiveInit /\ ConsoleInit /\ JobInit
<1>1. NoSettings => SettingsInit
  BY TabAssumption DEF NoSettings, SettingsInit
<1>2. NoView => LiveInit
  BY TabAssumption DEF NoView, LiveInit
<1>3. NoJob => JobInit
  BY TabAssumption DEF NoJob, JobInit
<1> QED BY <1>1, <1>2, <1>3 DEF TabInit

(* The page that is shown takes its own steps, and the others take none.   *)
LEMMA TabSteps ==
  ASSUME [TabNext]_tabVars
  PROVE  /\ [SettingsNext]_settingsVars /\ [LiveNext]_liveVars
         /\ [ConsoleNext]_consoleVars /\ [JobNext]_jobVars
<1>1. CASE InSettings
  BY <1>1 DEF InSettings
<1>2. CASE InView
  BY <1>2 DEF InView
<1>3. CASE InConsole
  BY <1>3 DEF InConsole
<1>4. CASE InJob
  BY <1>4 DEF InJob
<1>5. CASE UNCHANGED tabVars
  BY <1>5 DEF tabVars, pageVars
<1> QED BY <1>1, <1>2, <1>3, <1>4, <1>5 DEF TabNext

(* Whatever page the tab shows, each kind of page behaves as it does       *)
(* alone.                                                                  *)
THEOREM PagesInTab == TabSpec => SettingsSpec /\ LiveSpec /\ ConsoleSpec /\ JobSpec
BY TabStarts, TabSteps, PTL DEF TabSpec, SettingsSpec, LiveSpec, ConsoleSpec, JobSpec

(* So a tab keeps what its pages promise.                                  *)
THEOREM TabKeepsAll ==
  TabSpec => /\ [](SettledPageIsTrue /\ Tended /\ ConsoleIsTrue /\ JobIsWatched)
             /\ EditsSurvive /\ NeverGoesBack
BY PagesInTab, PagesAreTrue, AlwaysTended, ConsoleSaysTheTruth, JobWatched, EditsAreKept,
   FiguresGoForward, PTL
=============================================================================
