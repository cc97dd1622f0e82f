------------------------------- MODULE JobPage -------------------------------
(***************************************************************************)
(* A page of the web frontend that starts a job of the device (a scan, an  *)
(* installation, a test) and polls until it ends: the hooks of             *)
(* src/frontend/hooks that keep a timer for that.  As in SettingsPage      *)
(* there is one record for each hook.                                      *)
(*                                                                         *)
(* The device runs one job at a time.  It may forget it in a restart, and  *)
(* somebody else may have started it.  Answers arrive in any order.        *)
(***************************************************************************)
EXTENDS Naturals

CONSTANTS
  JobHooks,    (* the hooks                                                *)
  Slots,       (* the polls that can be in flight at the same time         *)
  MaxStarts,   (* bound on the jobs, of this page and of others            *)
  MaxRestarts, (* bound on the restarts of the device                      *)
  MaxFailures  (* MAX_POLL_FAILURES                                        *)

VARIABLES
  jobHook,     (* the hook of the page                                     *)
  job,         (* the job on the device: "idle", "running", "done", "failed" *)
  version,     (* how often that changed                                   *)
  starts,
  restarts,
  panel,       (* what the page shows, by the same names                   *)
  armed,       (* its timer runs                                           *)
  post,        (* its request to start, or none                            *)
  polls,       (* the polls in flight                                      *)
  failures,    (* polls that failed in a row                               *)
  own,         (* history: the version with the last job that it started   *)
  seen,        (* history: the newest version that the page was told of    *)
  misled,      (* history: an answer came that crossed another one         *)
  jobTold      (* history: the user was told that something failed         *)

deviceJob == <<job, version, starts, restarts>>
timer     == <<armed, failures>>
learnt    == <<own, seen, misled, jobTold>>
jobVars   == <<jobHook, deviceJob, panel, timer, post, polls, learnt>>

-----------------------------------------------------------------------------
(* The hooks.  Their fields:                                               *)
(*   opens    the read when the page opens: "none", "poll" for one like    *)
(*            the polls of the timer, or one that adopts a job that runs   *)
(*            and shows an end: "ends" any, "done" a good one, "flag" any  *)
(*            while no job is shown                                        *)
(*   early    it shows "running" before the device was asked to start      *)
(*   timer    "interval"; "loop", in which a poll waits for the answer to  *)
(*            the last one and which lasts while "running" is shown; or    *)
(*            "each" for a timeout after each answer that says "running"   *)
(*   rearms   such an answer starts a timer that does not run              *)
(*   flag     that "running" is shown is a flag which polls do not set     *)
(*   already  what it does when a job runs already: "join", "error", or    *)
(*            "blind" for a hook that does not look at the answer          *)
(*   idle     the answer that there is no job: "vanished" shows a failure  *)
(*            if the timer runs; "end" and "show" show it, and the first   *)
(*            stops the timer; "live" does it if "running" is shown; and   *)
(*            "ignore"                                                     *)
(*   fails    a poll that fails: "limit" gives up after a number of them,  *)
(*            "ignore", "end" shows a failure, "halt" tells of it and does *)
(*            not poll again                                               *)

UseCellScanner ==
  [opens |-> "poll", early |-> TRUE, timer |-> "interval", rearms |-> TRUE,
   flag |-> FALSE, already |-> "join", idle |-> "vanished", fails |-> "limit"]
UseNeighbourScanner  == UseCellScanner
UseSpeedtest         == [UseCellScanner EXCEPT !.opens = "done", !.timer = "loop",
                                               !.idle = "live", !.fails = "ignore"]
UseSystemHealthCheck == [UseCellScanner EXCEPT !.early = FALSE, !.timer = "each",
                                               !.already = "error", !.idle = "end",
                                               !.fails = "halt"]
UseProfileApply      == [UseCellScanner EXCEPT !.opens = "ends", !.early = FALSE,
                                               !.rearms = FALSE, !.idle = "end",
                                               !.fails = "ignore"]
UseLanguagePacks     == [UseProfileApply EXCEPT !.opens = "none", !.early = TRUE,
                                                !.already = "error", !.fails = "end"]
RunInstall           == [UseLanguagePacks EXCEPT !.already = "blind", !.idle = "show",
                                                 !.fails = "ignore"]
DownloadUpdate       == [UseLanguagePacks EXCEPT !.opens = "flag", !.flag = TRUE,
                                                 !.idle = "ignore", !.fails = "ignore"]

(* Which options occur together: a loop shows its start early, goes on     *)
(* after a failure, and ends when there is no job; a timeout that is set   *)
(* anew after each answer is not set after a failure; and a read at the    *)
(* opening like the others can start the timer.                            *)
JobHookKinds ==
  [opens : {"none", "poll", "ends", "done", "flag"}, early : BOOLEAN,
   timer : {"interval", "loop", "each"}, rearms : BOOLEAN, flag : BOOLEAN,
   already : {"join", "error", "blind"},
   idle : {"vanished", "end", "show", "live", "ignore"},
   fails : {"limit", "ignore", "end", "halt"}]

ASSUME JobAssumption ==
  /\ {MaxStarts, MaxRestarts} \subseteq Nat /\ MaxFailures \in Nat \ {0}
  /\ Slots # {}
  /\ JobHooks \subseteq JobHookKinds
  /\ \A h \in JobHooks :
       /\ h.timer = "loop" => h.rearms /\ h.early /\ h.idle = "live" /\ h.fails = "ignore"
       /\ h.timer = "each" => h.rearms /\ h.idle = "end" /\ h.fails = "halt"
       /\ h.opens = "poll" => h.rearms

-----------------------------------------------------------------------------
(* Polls.  by is "open" for the one that the opening of the page makes.    *)
Free == [by |-> "none", got |-> "none", ver |-> 0]
FirstSlot == CHOOSE s \in Slots : TRUE
Waiting(by) == [by |-> by, got |-> "none", ver |-> 0]
InFlight == {s \in Slots : polls[s] # Free}

(* The request to start: its answer, and the version that it is about.     *)
NoPost == [got |-> "no", ver |-> 0]

OpenJobPage(h) ==
  /\ jobHook = h
  /\ job \in {"idle", "running", "done"} /\ version = 0
  /\ starts = 0 /\ restarts = 0
  /\ panel = "idle" /\ armed = FALSE /\ post = NoPost /\ failures = 0
  /\ polls = [s \in Slots |-> IF h.opens # "none" /\ s = FirstSlot THEN Waiting("open")
                                                                  ELSE Free]
  /\ own = 0 /\ seen = 0 /\ misled = FALSE /\ jobTold = FALSE

-----------------------------------------------------------------------------
(* The device.                                                             *)
Becomes(state) == job' = state /\ version' = version + 1

JobEnds ==
  /\ job = "running"
  /\ Becomes("done") \/ Becomes("failed")
  /\ UNCHANGED <<jobHook, starts, restarts, panel, timer, post, polls, learnt>>

DeviceForgets ==
  /\ job # "idle" /\ restarts < MaxRestarts
  /\ Becomes("idle")
  /\ restarts' = restarts + 1
  /\ UNCHANGED <<jobHook, starts, panel, timer, post, polls, learnt>>

OtherStarts ==
  /\ job # "running" /\ starts < MaxStarts
  /\ Becomes("running")
  /\ starts' = starts + 1
  /\ UNCHANGED <<jobHook, restarts, panel, timer, post, polls, learnt>>

(* A start can be carried out although no answer comes.                    *)
Reply(got) == post' = [got |-> got, ver |-> version']

AnswerStart ==
  /\ post.got = "sent"
  /\ \/ job # "running" /\ Becomes("running") /\ \E got \in {"accepted", "lost"} : Reply(got)
     \/ /\ UNCHANGED <<job, version>>
        /\ \/ Reply("refused") \/ Reply("lost")
           \/ job = "running" /\ Reply("already")
  /\ UNCHANGED <<jobHook, starts, restarts, panel, timer, polls, learnt>>

AnswerPoll(s) ==
  /\ polls[s] # Free /\ polls[s].got = "none"
  /\ \E got \in {job, "error"} :
       polls' = [polls EXCEPT ![s].got = got, ![s].ver = version]
  /\ UNCHANGED <<jobHook, deviceJob, panel, timer, post, learnt>>

-----------------------------------------------------------------------------
(* The page.                                                               *)
Fail == panel' = "failed" /\ jobTold' = TRUE

Loop == jobHook.timer = "loop"

StartJob ==
  /\ post = NoPost /\ panel # "running" /\ starts < MaxStarts
  /\ starts' = starts + 1
  /\ post' = [got |-> "sent", ver |-> 0]
  /\ panel' = CASE jobHook.early            -> "running"
               [] jobHook.timer = "each"   -> panel
               [] OTHER                    -> "idle"
  /\ armed' = (armed \/ Loop)
  /\ failures' = 0
  /\ misled' = FALSE /\ jobTold' = FALSE
  /\ UNCHANGED <<jobHook, job, version, restarts, polls, own, seen>>

(* How the request to start went.  A page that showed "running" early      *)
(* leaves what the polls have made of it since, unless it joins a job.     *)
Joins == \/ post.got = "accepted"
         \/ post.got = "already" /\ jobHook.already # "error"
         \/ post.got = "refused" /\ jobHook.already = "blind"

ShowsStart == \/ jobHook.timer = "each"
              \/ post.got = "already" /\ jobHook.timer = "interval" /\ jobHook.rearms

TakeStarted ==
  /\ Joins
  /\ panel' = IF ShowsStart THEN "running" ELSE panel
  /\ armed' = IF Loop THEN armed ELSE TRUE
  /\ post' = NoPost
  /\ seen' = IF post.ver > seen THEN post.ver ELSE seen
  /\ own' = IF post.got = "accepted" THEN post.ver ELSE own
  /\ UNCHANGED <<jobHook, deviceJob, polls, failures, misled, jobTold>>

TakeNotStarted ==
  /\ post.got \notin {"no", "sent"} /\ ~Joins
  /\ jobTold' = TRUE
  /\ panel' = IF jobHook.early THEN "failed" ELSE panel
  /\ armed' = (armed /\ ~Loop)
  /\ post' = NoPost
  /\ UNCHANGED <<jobHook, deviceJob, polls, failures, own, seen, misled>>

(* The timer fires.                                                        *)
Tick(s) ==
  /\ armed /\ polls[s] = Free
  /\ Loop => \A t \in Slots : polls[t].by # "timer"
  /\ armed' = (jobHook.timer = "interval")
  /\ polls' = [polls EXCEPT ![s] = Waiting("timer")]
  /\ UNCHANGED <<jobHook, deviceJob, panel, post, failures, learnt>>

Arrived(s) ==
  /\ polls[s].got # "none"
  /\ polls' = [polls EXCEPT ![s] = Free]
  /\ UNCHANGED <<jobHook, deviceJob, post>>

(* An answer that may be older than one that came, or than the start, or   *)
(* that stops the timer for good while another poll is in flight.          *)
Crosses(s) ==
  \/ polls[s].ver < seen \/ post # NoPost
  \/ ~jobHook.rearms /\ polls[s].got # "running" /\ InFlight # {s}

Learns(s) ==
  /\ UNCHANGED own
  /\ seen' = IF polls[s].ver > seen THEN polls[s].ver ELSE seen
  /\ misled' = (misled \/ Crosses(s))

Answered(s, state) == Arrived(s) /\ polls[s].got = state /\ Learns(s)

Opening(s) == polls[s].by = "open" /\ jobHook.opens # "poll"

(* Fault: the timer is not started again.                                  *)
TakeRunningOnly(s) ==
  /\ Answered(s, "running")
  /\ panel' = IF jobHook.flag /\ ~Opening(s) THEN panel ELSE "running"
  /\ failures' = 0
  /\ UNCHANGED <<armed, jobTold>>

TakeRunning(s) ==
  /\ Answered(s, "running")
  /\ panel' = IF jobHook.flag /\ ~Opening(s) THEN panel ELSE "running"
  /\ armed' = (armed \/ jobHook.rearms \/ Opening(s))
  /\ failures' = 0
  /\ UNCHANGED jobTold

(* Fault: only a good end counts as one.                                   *)
TakeGoodEnd(s) ==
  /\ ~Opening(s)
  /\ \E state \in {"done", "failed"} :
       /\ Answered(s, state)
       /\ panel' = IF state = "done" THEN state ELSE panel
       /\ armed' = (state # "done")
  /\ failures' = 0
  /\ UNCHANGED jobTold

TakeEnd(s) ==
  /\ ~Opening(s)
  /\ \E state \in {"done", "failed"} : Answered(s, state) /\ panel' = state
  /\ armed' = FALSE /\ failures' = 0
  /\ UNCHANGED jobTold

TakeIdle(s) ==
  /\ ~Opening(s)
  /\ Answered(s, "idle")
  /\ CASE jobHook.idle = "vanished" ->
            IF armed THEN Fail /\ armed' = FALSE ELSE UNCHANGED <<panel, armed, jobTold>>
       [] jobHook.idle = "live"   ->
            /\ panel' = IF panel = "running" THEN "idle" ELSE panel
            /\ armed' = FALSE /\ UNCHANGED jobTold
       [] jobHook.idle = "end"    -> panel' = "idle" /\ armed' = FALSE /\ UNCHANGED jobTold
       [] jobHook.idle = "show"   -> panel' = "idle" /\ UNCHANGED <<armed, jobTold>>
       [] jobHook.idle = "ignore" -> UNCHANGED <<panel, armed, jobTold>>
  /\ failures' = 0

(* The read at the opening, when no job runs.                              *)
ShowsEnd(state) == \/ jobHook.opens = "ends"
                   \/ jobHook.opens = "done" /\ state = "done"
                   \/ jobHook.opens = "flag" /\ panel # "running"

TakeOpening(s) ==
  /\ Opening(s)
  /\ \E state \in {"idle", "done", "failed"} :
       /\ Answered(s, state)
       /\ panel' = IF state # "idle" /\ ShowsEnd(state) THEN state ELSE panel
  /\ armed' = (armed /\ (Loop => panel' = "running"))
  /\ UNCHANGED <<failures, jobTold>>

(* A loop goes on after a poll that failed.                                *)
GoesOn == armed \/ (Loop /\ panel = "running")

(* Without a timer the count may go beyond the limit, to no effect.        *)
TakeFailedPoll ==
  \/ /\ failures + 1 >= MaxFailures /\ armed
     /\ Fail /\ armed' = FALSE /\ failures' = 0
  \/ /\ failures + 1 < MaxFailures \/ ~armed
     /\ failures' = IF failures + 1 < MaxFailures THEN failures + 1 ELSE failures
     /\ UNCHANGED <<panel, armed, jobTold>>

TakeError(s) ==
  /\ Arrived(s) /\ polls[s].got = "error"
  /\ UNCHANGED <<own, seen, misled>>
  /\ \/ (Opening(s) \/ jobHook.fails = "ignore") /\ armed' = GoesOn
        /\ UNCHANGED <<panel, failures, jobTold>>
     \/ ~Opening(s) /\ jobHook.fails = "limit" /\ TakeFailedPoll
     \/ ~Opening(s) /\ jobHook.fails = "end" /\ Fail /\ armed' = FALSE /\ UNCHANGED failures
     \/ ~Opening(s) /\ jobHook.fails = "halt" /\ jobTold' = TRUE /\ UNCHANGED <<panel, timer>>

-----------------------------------------------------------------------------
JobInit == \E h \in JobHooks : OpenJobPage(h)

JobDevice == AnswerStart \/ \E s \in Slots : AnswerPoll(s)
TakePoll(s) == TakeRunning(s) \/ TakeEnd(s) \/ TakeIdle(s) \/ TakeOpening(s) \/ TakeError(s)

JobNext ==
  \/ StartJob \/ OtherStarts \/ DeviceForgets \/ JobEnds
  \/ JobDevice
  \/ TakeStarted \/ TakeNotStarted
  \/ \E s \in Slots : Tick(s) \/ TakePoll(s)

(* A job ends.  Requests are answered, and not all polls fail.  Timers     *)
(* fire.                                                                   *)
Succeeds(s) == AnswerPoll(s) /\ polls'[s].got # "error"
JobFairness ==
  /\ WF_jobVars(JobEnds)
  /\ WF_jobVars(AnswerStart) /\ WF_jobVars(TakeStarted \/ TakeNotStarted)
  /\ \A s \in Slots : WF_jobVars(AnswerPoll(s)) /\ WF_jobVars(TakePoll(s))
  /\ SF_jobVars(\E s \in Slots : Succeeds(s))
  /\ WF_jobVars(\E s \in Slots : Tick(s))

JobSpec == JobInit /\ [][JobNext]_jobVars /\ JobFairness

-----------------------------------------------------------------------------
States == {"idle", "running", "done", "failed"}
Polls == [by : {"none", "open", "timer"}, got : States \cup {"none", "error"},
          ver : 0..(2 * MaxStarts + MaxRestarts + 1)]
JobTypeOK ==
  /\ jobHook \in JobHooks
  /\ {job, panel} \subseteq States
  /\ version \in 0..(2 * MaxStarts + MaxRestarts + 1)
  /\ starts \in 0..MaxStarts /\ restarts \in 0..MaxRestarts
  /\ post \in [got : {"no", "sent", "accepted", "already", "refused", "lost"},
               ver : 0..(2 * MaxStarts + MaxRestarts + 1)]
  /\ polls \in [Slots -> Polls]
  /\ failures \in 0..(MaxFailures - 1)
  /\ {own, seen} \subseteq 0..version
  /\ {armed, misled, jobTold} \subseteq BOOLEAN

(* A page that shows a running job finds out when it ends: it has a timer, *)
(* a poll or a request to start on its way.  It takes hooks that start the *)
(* timer again with any such answer, or answers in order; and a failure of *)
(* which the user was told.                                                *)
Watches == armed \/ InFlight # {} \/ post # NoPost
NeverStuck == panel = "running" /\ (jobHook.rearms \/ ~misled) /\ ~jobTold => Watches

(* The job that this page started, and of which it was told so, is shown   *)
(* as running for as long as it runs or will be by the next poll.          *)
RunningIsShown ==
  /\ post = NoPost /\ job = "running" /\ own > 0 /\ version = own
  /\ ~misled /\ ~jobTold
  => panel = "running" \/ Watches

JobIsWatched == NeverStuck /\ RunningIsShown

(* A running job is not shown for ever.  A download that the device forgot *)
(* is: its hook ignores that.                                              *)
Excused == misled \/ jobTold \/ (job = "idle" /\ jobHook.idle = "ignore")
EndIsShown == (panel = "running") ~> (panel # "running" \/ Excused)
=============================================================================
