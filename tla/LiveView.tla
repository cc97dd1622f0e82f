------------------------------ MODULE LiveView ------------------------------
(***************************************************************************)
(* A part of the web frontend that shows what the device measures and      *)
(* keeps it up to date: the hooks of src/frontend/hooks that poll, and     *)
(* useModemStatus, which all pages share and which uses an event stream of *)
(* the device when it can have one.                                        *)
(*                                                                         *)
(* What the device measured is a number that grows.                        *)
(***************************************************************************)
EXTENDS Naturals, Sequences

CONSTANTS
  Views,        (* the hooks                                               *)
  Lanes,        (* the reads that can be in flight at the same time        *)
  MaxSnapshots, (* bound on what the device measures                       *)
  Buffer        (* how many messages of a stream wait                      *)

ASSUME LiveBounds == MaxSnapshots \in Nat \ {0} /\ Buffer \in Nat \ {0}

VARIABLES
  view,         (* the hook                                                *)
  mounted,      (* something on the screen uses it                         *)
  hidden,       (* the tab is in the background                            *)
  ticking,      (* its timer runs                                          *)
  stream,       (* its event stream: "none", "opening" or "open"           *)
  link,         (* the device's end: "none", "greeted" or "subscribed"     *)
  messages,     (* what is on the way in the stream                        *)
  reads,        (* the reads in flight                                     *)
  snapshot,     (* the last that the device measured                       *)
  figure        (* the one that is shown, 0 for none                       *)

channel  == <<stream, link, messages>>
liveVars == <<view, mounted, hidden, ticking, channel, reads, snapshot, figure>>

-----------------------------------------------------------------------------
(* The hooks.  Their fields:                                               *)
(*   timer    "interval"; "chain" for a timeout after each read; "stream"  *)
(*            for an interval that an open stream takes the place of       *)
(*   overlap  a read while another one is in flight: "skip", "abort" the   *)
(*            other one, or "both"                                         *)
(*   pauses   the timer is stopped while the tab is hidden                 *)
(*   eager    it reads when it comes on the screen of a hidden tab         *)
(*   onShow   it reads when the tab is shown again                         *)
(*   refresh  the user's Refresh: "none", "read", or "restart" the timer   *)
(*            and read                                                     *)
(*   shared   one for all pages                                            *)

ViewKinds == [timer : {"interval", "chain", "stream"}, overlap : {"skip", "abort", "both"},
              pauses : BOOLEAN, eager : BOOLEAN, onShow : BOOLEAN,
              refresh : {"none", "read", "restart"}, shared : BOOLEAN]

(* No chain goes on after the page was left, or stops when the tab is      *)
(* shown again, and no timer is started beside a stream.                   *)
ASSUME ViewAssumption ==
  /\ Views \subseteq ViewKinds
  /\ \A v \in Views : /\ v.timer = "chain" => v.overlap = "abort" /\ v.onShow
                      /\ v.timer = "stream" => v.refresh # "restart"

UseSignalHistory ==
  [timer |-> "interval", overlap |-> "both", pauses |-> TRUE, eager |-> FALSE,
   onShow |-> TRUE, refresh |-> "none", shared |-> FALSE]
UseDataUsed         == [UseSignalHistory EXCEPT !.refresh = "read"]
UseRecentActivities == [UseSignalHistory EXCEPT !.refresh = "restart"]
UseModemSubsys      == [UseDataUsed EXCEPT !.overlap = "skip"]
UseBandwidth        == [UseModemSubsys EXCEPT !.eager = TRUE]
UseSystemLogs       == [UseDataUsed EXCEPT !.eager = TRUE, !.onShow = FALSE]
UseLatencyHistory   == [UseSystemLogs EXCEPT !.pauses = FALSE]
UsePublicOverview   == [UseDataUsed EXCEPT !.timer = "chain", !.overlap = "abort"]
UseModemStatus      == [UseModemSubsys EXCEPT !.timer = "stream", !.shared = TRUE]

-----------------------------------------------------------------------------
(* Reads.  by is "tick" for the reads of a chain that set its timer again. *)
Idle == [by |-> "none", got |-> "none", value |-> 0]
NewRead(by) == [by |-> by, got |-> "none", value |-> 0]
UnderWay == {l \in Lanes : reads[l] # Idle}
TickUnderWay == \E l \in Lanes : reads[l].by = "tick"

(* Fault: a read starts beside the one in flight.                          *)
FetchAnyway(by) == \E l \in Lanes \ UnderWay : reads' = [reads EXCEPT ![l] = NewRead(by)]

(* A read starts, or is skipped.                                           *)
Fetch(by) ==
  \/ view.overlap = "skip" /\ UnderWay # {} /\ UNCHANGED reads
  \/ /\ view.overlap = "abort"
     /\ \E l \in Lanes : reads' = [k \in Lanes |-> IF k = l THEN NewRead(by) ELSE Idle]
  \/ /\ view.overlap = "both" \/ (view.overlap = "skip" /\ UnderWay = {})
     /\ \E l \in Lanes \ UnderWay : reads' = [reads EXCEPT ![l] = NewRead(by)]

By == IF view.timer = "chain" THEN "tick" ELSE "other"

(* A chain whose tick is aborted goes on at once to its next timeout.      *)
ChainGoesOn == view.timer = "chain" /\ TickUnderWay

(* What happens when it comes on the screen and when the tab is shown.     *)
Begins ==
  /\ ticking' = IF view.timer = "chain" THEN ChainGoesOn ELSE TRUE
  /\ stream' = IF view.timer = "stream" THEN "opening" ELSE "none"
  /\ link' = "none" /\ messages' = <<>>

Disconnected == stream' = "none" /\ link' = "none" /\ messages' = <<>>

OpenView(v) ==
  /\ view = v
  /\ mounted = TRUE /\ hidden \in BOOLEAN
  /\ snapshot = 1 /\ figure = 0
  /\ ticking = (v.timer # "chain" /\ (v.pauses => ~hidden))
  /\ stream = IF v.timer = "stream" /\ ~hidden THEN "opening" ELSE "none"
  /\ link = "none" /\ messages = <<>>
  /\ \E l \in Lanes :
       reads = [k \in Lanes |-> IF k = l /\ (hidden => v.eager)
                                THEN NewRead(IF v.timer = "chain" THEN "tick" ELSE "other")
                                ELSE Idle]

-----------------------------------------------------------------------------
(* The device.                                                             *)

(* A message that does not fit is dropped: broadcastStatus.                *)
Measure ==
  /\ snapshot < MaxSnapshots
  /\ snapshot' = snapshot + 1
  /\ messages' = IF link = "subscribed" /\ Len(messages) < Buffer
                 THEN Append(messages, snapshot + 1) ELSE messages
  /\ UNCHANGED <<view, mounted, hidden, ticking, stream, link, reads, figure>>

AnswerFetch(l) ==
  /\ reads[l] # Idle /\ reads[l].got = "none"
  /\ \E got \in {"value", "failed"} :
       reads' = [reads EXCEPT ![l] = [by |-> @.by, got |-> got,
                                      value |-> IF got = "value" THEN snapshot ELSE 0]]
  /\ UNCHANGED <<view, mounted, hidden, ticking, channel, snapshot, figure>>

(* A new stream gets the last status first and is subscribed afterwards.   *)
Greet ==
  /\ stream = "opening" /\ link = "none"
  /\ link' = "greeted" /\ messages' = <<snapshot>>
  /\ UNCHANGED <<view, mounted, hidden, ticking, stream, reads, snapshot, figure>>

SubscribeStream ==
  /\ link = "greeted"
  /\ link' = "subscribed"
  /\ UNCHANGED <<view, mounted, hidden, ticking, stream, messages, reads, snapshot, figure>>

-----------------------------------------------------------------------------
(* The page.                                                               *)

TickFires ==
  /\ ticking /\ (hidden => ~view.pauses)
  /\ Fetch(By)
  /\ ticking' = (view.timer # "chain" \/ ChainGoesOn)
  /\ UNCHANGED <<view, mounted, hidden, channel, snapshot, figure>>

RefreshView ==
  /\ view.refresh # "none" /\ mounted /\ ~hidden
  /\ Fetch("other")
  /\ ticking' = (ticking \/ view.refresh = "restart" \/ ChainGoesOn)
  /\ UNCHANGED <<view, mounted, hidden, channel, snapshot, figure>>

Hide ==
  /\ ~hidden /\ hidden' = TRUE
  /\ ticking' = (ticking /\ ~view.pauses)
  /\ Disconnected
  /\ UNCHANGED <<view, mounted, reads, snapshot, figure>>

Show ==
  /\ hidden /\ hidden' = FALSE
  /\ IF mounted
     THEN /\ IF view.onShow THEN Fetch(By) ELSE UNCHANGED reads
          /\ Begins
     ELSE UNCHANGED <<reads, ticking, channel>>
  /\ UNCHANGED <<view, mounted, snapshot, figure>>

Leave ==
  /\ mounted /\ mounted' = FALSE
  /\ ticking' = FALSE
  /\ Disconnected
  /\ reads' = IF view.overlap = "abort" THEN [l \in Lanes |-> Idle] ELSE reads
  /\ UNCHANGED <<view, hidden, snapshot, figure>>

(* Another page that uses the shared status.                               *)
Enter ==
  /\ view.shared /\ ~mounted /\ mounted' = TRUE
  /\ IF hidden THEN UNCHANGED <<reads, ticking, channel>> ELSE Fetch(By) /\ Begins
  /\ UNCHANGED <<view, hidden, snapshot, figure>>

(* Without a page on the screen an answer is of no use, except to the      *)
(* shared status.                                                          *)
TakeFetched(l) ==
  /\ reads[l].got # "none"
  /\ reads' = [reads EXCEPT ![l] = Idle]
  /\ ticking' = (ticking \/ (reads[l].by = "tick" /\ ~hidden))
  /\ figure' = IF (mounted \/ view.shared) /\ reads[l].got = "value" THEN reads[l].value
                                                                    ELSE figure
  /\ UNCHANGED <<view, mounted, hidden, channel, snapshot>>

StreamOpens ==
  /\ stream = "opening" /\ link # "none"
  /\ stream' = "open"
  /\ ticking' = FALSE
  /\ UNCHANGED <<view, mounted, hidden, link, messages, reads, snapshot, figure>>

TakeMessage ==
  /\ stream = "open" /\ messages # <<>>
  /\ figure' = Head(messages)
  /\ messages' = Tail(messages)
  /\ UNCHANGED <<view, mounted, hidden, ticking, stream, link, reads, snapshot>>

(* Fault: the timer is not started again.                                  *)
StreamFailsForGood ==
  /\ stream # "none"
  /\ Disconnected
  /\ UNCHANGED <<view, mounted, hidden, ticking, reads, snapshot, figure>>

StreamFails ==
  /\ stream # "none"
  /\ Disconnected
  /\ ticking' = TRUE
  /\ UNCHANGED <<view, mounted, hidden, reads, snapshot, figure>>

-----------------------------------------------------------------------------
LiveInit == \E v \in Views : OpenView(v)

LiveNext ==
  \/ Measure \/ Greet \/ SubscribeStream
  \/ TickFires \/ RefreshView \/ Hide \/ Show \/ Leave \/ Enter
  \/ StreamOpens \/ TakeMessage \/ StreamFails
  \/ \E l \in Lanes : AnswerFetch(l) \/ TakeFetched(l)

LiveSpec == LiveInit /\ [][LiveNext]_liveVars

-----------------------------------------------------------------------------
Reads == [by : {"none", "tick", "other"}, got : {"none", "value", "failed"}, value : Nat]
LiveFlags == mounted \in BOOLEAN /\ hidden \in BOOLEAN /\ ticking \in BOOLEAN

LiveTypeOK ==
  /\ view \in Views
  /\ LiveFlags
  /\ stream \in {"none", "opening", "open"}
  /\ link \in {"none", "greeted", "subscribed"}
  /\ messages \in Seq(Nat) /\ Len(messages) <= Buffer
  /\ reads \in [Lanes -> Reads]
  /\ snapshot \in 1..MaxSnapshots
  /\ figure \in Nat

(* What can be seen is kept up to date by exactly one of timer and stream: *)
(* no order of hiding, showing, failing and coming back leaves it without  *)
(* one or with both.  What cannot be seen keeps the device busy with none, *)
(* except by the one hook that does not look.                              *)
Seen == mounted /\ ~hidden
Kept == ticking \/ stream = "open" \/ TickUnderWay
Tended ==
  /\ Seen => Kept
  /\ ~(ticking /\ stream = "open")
  /\ ~mounted \/ (hidden /\ view.pauses) => ~ticking /\ stream = "none"

(* Figures never go back to older ones, where reads cannot overlap.        *)
NeverGoesBack ==
  [][view.overlap # "both" /\ view.timer # "stream" => figure' >= figure]_liveVars
=============================================================================
