------------------------------ MODULE Bandwidth ------------------------------
(* The bandwidth collector                                                 *)
(* (src/backend/internal/telemetry/bandwidth/collector.go): every second   *)
(* it adds what an interface has carried to its counters, and it writes    *)
(* them to a file every hour, after each reset and at its end. Flushes of  *)
(* the loop, of handlers and of Close may be under way at the same time,   *)
(* and the process or the device may stop at any point.                    *)
(*                                                                         *)
(* One interface and one direction stand for all. Today's counter and the  *)
(* buckets of hours, days and months take the same additions once the      *)
(* clock is set; they, and the rates, are left out.                        *)
EXTENDS Naturals

CONSTANTS
  Users,        \* the handlers that may reset the counters
  Nothing,
  MaxTraffic,   \* bound: what the interface carries in all
  MaxResets,    \* bound: the resets
  MaxStops      \* bound: the stops from outside

Flushers == Users \cup {"loop", "close"}

ASSUME BandwidthAssumption ==
  /\ Users \cap {"loop", "close"} = {} /\ Nothing \notin Nat
  /\ {MaxTraffic, MaxResets, MaxStops} \subseteq Nat

VARIABLES
  kernel,       \* the counter in /proc/net/dev
  daemon,       \* "up", "closing" (Close has begun) or "down"
  prev,         \* prevCounters, Nothing without hasPrev
  total,        \* totalRxBytes
  saved,        \* the storage file: the total in it, or Nothing
  flush,        \* where each flush is, and its snapshot
  carried, resets, stops,
  unsampled,    \* history: traffic since the last sample
  since,        \* history: traffic since the sample before the last reset
  flushed,      \* history: the total the last completed flush has saved
  behind,       \* history: the file lacks the last reset, or is of a flush
                \* that another one has overtaken
  misled        \* history: a process has started from such a file since
                \* the last reset

counters  == <<prev, total>>
limits    == <<carried, resets, stops>>
truth     == <<unsampled, since>>
claims    == <<flushed, behind, misled>>
bandVars  == <<kernel, daemon, counters, saved, flush, limits, truth, claims>>

(* overtaken: there was a reset, or another snapshot, since this one.      *)
NoFlush == [at |-> "out", snap |-> Nothing, overtaken |-> FALSE]

BandTypeOK ==
  /\ kernel \in Nat /\ daemon \in {"up", "closing", "down"}
  /\ prev \in Nat \cup {Nothing} /\ total \in Nat /\ saved \in Nat \cup {Nothing}
  /\ flush \in [Flushers -> [at : {"out", "zeroed", "writing", "removed"},
                             snap : Nat \cup {Nothing}, overtaken : BOOLEAN]]
  /\ \A p \in Flushers : flush[p].at \in {"writing", "removed"} => flush[p].snap \in Nat
  /\ carried \in 0..MaxTraffic /\ resets \in 0..MaxResets /\ stops \in 0..MaxStops
  /\ unsampled \in Nat /\ since \in Nat /\ flushed \in Nat
  /\ behind \in BOOLEAN /\ misled \in BOOLEAN

BandInit ==
  /\ kernel = 0 /\ daemon = "down" /\ prev = Nothing /\ total = 0
  /\ saved = Nothing /\ flush = [p \in Flushers |-> NoFlush]
  /\ carried = 0 /\ resets = 0 /\ stops = 0 /\ unsampled = 0 /\ since = 0
  /\ flushed = 0 /\ behind = FALSE /\ misled = FALSE

-----------------------------------------------------------------------------
(* The interface.                                                          *)

Traffic ==
  /\ carried < MaxTraffic /\ carried' = carried + 1
  /\ kernel' = kernel + 1 /\ unsampled' = unsampled + 1 /\ since' = since + 1
  /\ UNCHANGED <<daemon, counters, saved, flush, resets, stops, claims>>

(* It goes and comes back.                                                 *)
Recreated ==
  /\ kernel > 0 /\ kernel' = 0
  /\ UNCHANGED <<daemon, counters, saved, flush, limits, truth, claims>>

-----------------------------------------------------------------------------
(* Collect, in the loop. The first sample of a process is only the base of *)
(* the next one; a counter that has fallen was set back to zero.           *)

Samples ==
  /\ daemon # "down" /\ flush["loop"].at = "out"
  /\ prev' = kernel /\ unsampled' = 0
  /\ UNCHANGED <<kernel, daemon, saved, flush, limits, since, claims>>

CollectFirst == Samples /\ prev = Nothing /\ UNCHANGED total

CollectFromBoot ==
  /\ Samples
  /\ total' = total + (IF prev # Nothing /\ kernel >= prev THEN kernel - prev ELSE kernel)

Collect ==
  /\ Samples /\ prev # Nothing
  /\ total' = total + (IF kernel >= prev THEN kernel - prev ELSE kernel)

-----------------------------------------------------------------------------
(* Reset clears the counters under the lock and then flushes them. The     *)
(* base of the next sample stays.                                          *)

UnderWay(p) == flush[p].at \in {"writing", "removed"}

(* The flush of p begins, or will; those under way have an older snapshot. *)
Overtakes(p, f) ==
  flush' = [q \in Flushers |-> IF q = p THEN f
                               ELSE [flush[q] EXCEPT !.overtaken = @ \/ UnderWay(q)]]

Reset(u) ==
  /\ daemon # "down" /\ flush[u].at = "out"
  /\ resets < MaxResets /\ resets' = resets + 1
  /\ total' = 0 /\ Overtakes(u, [at |-> "zeroed", snap |-> Nothing, overtaken |-> FALSE])
  /\ since' = unsampled /\ flushed' = 0 /\ behind' = TRUE /\ misled' = FALSE
  /\ UNCHANGED <<kernel, daemon, prev, saved, carried, stops, unsampled>>

(* FlushToDisk: the snapshot is taken under the lock and written after it. *)
TakeSnapshot(p) ==
  /\ Overtakes(p, [at |-> "writing", snap |-> total, overtaken |-> FALSE])
  /\ UNCHANGED <<kernel, counters, saved, limits, truth, claims>>

FlushTicker ==
  /\ daemon # "down" /\ flush["loop"].at = "out"
  /\ TakeSnapshot("loop") /\ UNCHANGED daemon

FlushReset(u) == flush[u].at = "zeroed" /\ TakeSnapshot(u) /\ UNCHANGED daemon

(* Close tells the loop to end, which may do another round, and flushes.   *)
Close == daemon = "up" /\ daemon' = "closing" /\ TakeSnapshot("close")

Leaves(p) == flush' = [flush EXCEPT ![p] = NoFlush]

WriteFails(p) ==
  /\ flush[p].at = "writing" /\ Leaves(p)
  /\ UNCHANGED <<kernel, daemon, counters, saved, limits, truth, claims>>

RemoveOld(p) ==
  /\ flush[p].at = "writing" /\ flush' = [flush EXCEPT ![p].at = "removed"]
  /\ saved' = Nothing
  /\ UNCHANGED <<kernel, daemon, counters, limits, truth, claims>>

RenameNew(p) ==
  /\ flush[p].at = "removed" /\ Leaves(p)
  /\ saved' = flush[p].snap /\ behind' = flush[p].overtaken
  /\ flushed' = IF flush[p].overtaken THEN flushed ELSE flush[p].snap
  /\ UNCHANGED <<kernel, daemon, counters, limits, truth, misled>>

(* The file stays removed, unless another flush has written it.            *)
Saved == IF saved = Nothing THEN 0 ELSE flushed

RenameFails(p) ==
  /\ flush[p].at = "removed" /\ Leaves(p) /\ flushed' = Saved
  /\ UNCHANGED <<kernel, daemon, counters, saved, limits, truth, behind, misled>>

-----------------------------------------------------------------------------
(* The process ends, with what a flush had removed and not yet replaced.   *)
Gone ==
  /\ daemon' = "down" /\ prev' = Nothing /\ total' = 0
  /\ flush' = [p \in Flushers |-> NoFlush]
  /\ flushed' = Saved /\ misled' = (misled \/ behind)
  /\ UNCHANGED <<saved, carried, resets, truth, behind>>

Exit ==
  /\ daemon = "closing" /\ flush["close"].at = "out"
  /\ Gone /\ UNCHANGED <<kernel, stops>>

Killed ==
  /\ daemon # "down" /\ stops < MaxStops /\ stops' = stops + 1
  /\ Gone /\ kernel' \in {kernel, 0}

(* NewCollector loads the file.                                            *)
StartCollector ==
  /\ daemon = "down" /\ daemon' = "up"
  /\ total' = IF saved = Nothing THEN 0 ELSE saved
  /\ UNCHANGED <<kernel, prev, saved, flush, limits, truth, claims>>

BandNext ==
  \/ Traffic \/ Recreated \/ CollectFirst \/ Collect
  \/ (\E u \in Users : Reset(u) \/ FlushReset(u)) \/ FlushTicker \/ Close
  \/ (\E p \in Flushers : WriteFails(p) \/ RemoveOld(p) \/ RenameNew(p) \/ RenameFails(p))
  \/ Exit \/ Killed \/ StartCollector

BandSpec == BandInit /\ [][BandNext]_bandVars

-----------------------------------------------------------------------------
(* What is counted (Collect, LoadFromDisk, collector.go:414) is traffic of *)
(* after the last reset, counted once, and at least what a completed flush *)
(* has saved, through flushes that overlap, resets at any point of them,   *)
(* restarts of process and device, and counters that fall. The exception   *)
(* is a start from a file that lacks the last reset or came from a flush   *)
(* that another one had overtaken; and a stop or failure between the       *)
(* removal of the file and its replacement loses what was saved (Saved).   *)
CountersAreTrue ==
  daemon # "down" /\ ~misled => flushed <= total /\ total <= since
=============================================================================
