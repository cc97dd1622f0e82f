---------------------------- MODULE SettingsPage ----------------------------
(***************************************************************************)
(* A settings page of the web frontend: a hook of src/frontend/hooks that  *)
(* reads a setting of the device and saves it, and the form of             *)
(* src/frontend/components that edits it.                                  *)
(*                                                                         *)
(* The hooks share their structure and differ in a few points, so there is *)
(* one record for each hook and one for each form, and a page is a pair of *)
(* them.  A behaviour is one stay on one page: what was in flight when the *)
(* user left is like a change by somebody else to the next stay.           *)
(*                                                                         *)
(* The fields of a setting are one value.  The device answers requests in  *)
(* any order, and its answers arrive in any order.                         *)
(***************************************************************************)
EXTENDS Naturals

CONSTANTS
  Pages,       (* the pages, records [hook, form]                          *)
  Values,      (* what a setting can be                                    *)
  MaxRequests, (* bound on the requests of the user, the poll and timers   *)
  MaxRetries,  (* how often a failed read is repeated                      *)
  MaxChanges,  (* bound on the changes by others                           *)
  None         (* no value: nothing read yet, no edit, no answer           *)

ASSUME NoneAssumption == None \notin Values /\ {"refused", "lost"} \cap (Values \cup {None}) = {}
ASSUME BoundAssumption == {MaxRequests, MaxRetries, MaxChanges} \subseteq Nat

VARIABLES
  page,        (* the page that is open                                    *)
  stored,      (* the setting on the device                                *)
  changes,     (* how often others changed it                              *)
  shown,       (* what the hook returns                                    *)
  draft,       (* the form's value, or the edit that is laid over shown    *)
  seed,        (* the value the form was last filled with                  *)
  saving,      (* "no", "queued" (a timer will save), "posted",            *)
               (* "rereading", or "left" for the page of a reboot          *)
  due,         (* a timer will read again                                  *)
  retries,     (* how many failed reads were repeated                      *)
  requests,    (* what is in flight                                        *)
  asked,       (* how many requests there were: the order of asking        *)
  answered,    (* how many the device answered: the order of answering     *)
  applied      (* the newest request whose answer was taken, by asking     *)

(* History variables.                                                      *)
VARIABLES
  shownAt,     (* the answer that is shown, by the order of answering      *)
  newest,      (* the newest answer that arrived, by the same              *)
  reordered,   (* the device answered in another order than it was asked   *)
  told,        (* the user was told of a failure, and nothing newer read   *)
  behind       (* the page cannot know of a change: nothing was read since *)

form     == <<draft, seed>>
device   == <<stored, changes>>
hook     == <<shown, saving, due, retries, applied>>
history  == <<shownAt, newest, reordered, told, behind>>
settingsVars == <<page, device, form, requests, asked, answered, hook, history>>

-----------------------------------------------------------------------------
(* The hooks.  Their fields:                                               *)
(*   saved    what follows a save that succeeded (one of a set):           *)
(*            "reread" reads again before the save counts as finished,     *)
(*            "reply" takes the value from the answer, "assume" takes what *)
(*            was sent and reads again on the side, "confirm" takes what   *)
(*            was sent and reads again before it finishes, "later" takes   *)
(*            what was sent and starts a timer to read again, "trust"      *)
(*            takes what was sent, "leave" goes to the reboot page         *)
(*   lost     a save without an answer: "error", or "assume" as "later"    *)
(*   poll     an interval reads again                                      *)
(*   quiet    failures that nobody is told of: "none", those of reads in   *)
(*            the "background", or those of "all" reads                    *)
(*   ordered  older answers are dropped by a sequence number               *)
(*   retry    a read without an answer is repeated by a timer              *)
(*   defaults values are shown before the first answer                     *)

SavedHow == {"reread", "reply", "assume", "confirm", "later", "trust", "leave"}
Hooks == [saved : (SUBSET SavedHow) \ {{}}, lost : {"error", "assume"},
          poll : BOOLEAN, quiet : {"none", "background", "all"},
          ordered : BOOLEAN, retry : BOOLEAN, defaults : BOOLEAN]

UseTtlSettings ==
  [saved |-> {"reread"}, lost |-> "error", poll |-> FALSE, quiet |-> "none",
   ordered |-> FALSE, retry |-> FALSE, defaults |-> FALSE]
UseMtuSettings       == UseTtlSettings
UseImeiSettings      == UseTtlSettings
UseMbnSettings       == UseTtlSettings
UseAlerts            == UseTtlSettings
UseCellularSettings  == UseTtlSettings
UseBandLocking       == UseTtlSettings
UseCdnHostlist       == [UseTtlSettings EXCEPT !.defaults = TRUE]
UseForceTcp          == UseCdnHostlist
UseFullBypass        == [UseTtlSettings EXCEPT !.poll = TRUE]
UseVideoOptimizer    == [UseTtlSettings EXCEPT !.poll = TRUE]
UseWatchdogSettings  == [UseTtlSettings EXCEPT !.poll = TRUE]
UseSmsForwarding     == [UseTtlSettings EXCEPT !.poll = TRUE, !.quiet = "background"]
UseFrequencyLocking  == [UseTtlSettings EXCEPT !.retry = TRUE]
UseTowerLocking      == [UseTtlSettings EXCEPT !.retry = TRUE]
UseCustomDns         == [UseTtlSettings EXCEPT !.saved = {"reply", "reread"}]
UseIpPassthrough     == [UseTtlSettings EXCEPT !.saved = {"leave"}]
UseQualityThresholds == [UseTtlSettings EXCEPT !.saved = {"assume"}]
UsePingProfile       == [UseTtlSettings EXCEPT !.saved = {"assume"}]
UseApnSettings       == [UseTtlSettings EXCEPT !.saved = {"later"}, !.lost = "assume"]
UseWanProfiles       == [UseTtlSettings EXCEPT !.saved = {"later", "trust"}]
NetworkPriority      == [UseTtlSettings EXCEPT !.saved = {"confirm"}, !.quiet = "background"]
UseSshSettings       == [UseTtlSettings EXCEPT !.saved = {"reply"}, !.quiet = "all",
                                               !.defaults = TRUE]
UseSystemSettings    == [UseTtlSettings EXCEPT !.ordered = TRUE]
SaveScheduledReboot  == [UseSystemSettings EXCEPT !.saved = {"reply"}]

-----------------------------------------------------------------------------
(* The forms.  sync is what an answer does to an edit: the form is filled  *)
(* again by every answer ("object": it compares the identity of an object  *)
(* that is new each time), by an answer with another value than the last   *)
(* ("value"), by the first one ("once"), or never, for the edit is laid    *)
(* over what the hook shows ("overlay"; "pending" drops an edit that the   *)
(* device has caught up with, "payload" puts what was saved into the edit).*)
(* "latched" has no Save button: an edit is saved after a moment, and each *)
(* answer fills the form while no save is due or under way.  "switch" has  *)
(* no form: a change is saved at once.                                     *)
(*   held     it cannot be edited during a save                            *)
(*   reload   there is a Refresh button also when a value is shown         *)
(*   remounts it is taken off the screen, with its edits, by a Refresh     *)

Syncs == {"object", "value", "once", "overlay", "pending", "payload", "latched", "switch"}
Forms == [sync : Syncs, held : BOOLEAN, reload : BOOLEAN, remounts : BOOLEAN]
Overlays == {"overlay", "pending", "payload"}

(* Not all hooks and forms go together: the fields of a pending form are   *)
(* held during a save, the form without a Save button takes what the       *)
(* answer to its save says, and neither is taken off the screen.  A hook   *)
(* with sequence numbers shows nothing but answers, and tells of failures. *)
ASSUME PageAssumption ==
  /\ Pages \subseteq [hook : Hooks, form : Forms]
  /\ \A p \in Pages : /\ p.form.sync = "pending" => p.form.held /\ ~p.form.remounts
                      /\ p.form.sync = "latched" => p.hook.saved = {"reply"} /\ ~p.form.remounts
                      /\ p.hook.ordered => /\ p.hook.saved \subseteq {"reread", "reply"}
                                           /\ p.hook.lost = "error" /\ p.hook.quiet = "none"

TtlSettingsCard ==
  [sync |-> "overlay", held |-> FALSE, reload |-> TRUE, remounts |-> FALSE]
MtuSettingsCard       == TtlSettingsCard
IpPassthroughCard     == [TtlSettingsCard EXCEPT !.held = TRUE]
CellularSettingsForm  == [TtlSettingsCard EXCEPT !.sync = "pending", !.held = TRUE]
QualityThresholdsCard == [TtlSettingsCard EXCEPT !.reload = FALSE]
ProbeTargetsCard      == [TtlSettingsCard EXCEPT !.sync = "payload", !.reload = FALSE]
WatchdogForm          == [TtlSettingsCard EXCEPT !.sync = "value"]
AlertsForm            == WatchdogForm
ApnSettingsCard       == [TtlSettingsCard EXCEPT !.sync = "value", !.held = TRUE]
MbnCard               == ApnSettingsCard
BandGridCard          == ApnSettingsCard
NrSaTowerCard         == ApnSettingsCard
LteTowerCard          == [TtlSettingsCard EXCEPT !.sync = "object", !.held = TRUE]
FrequencyLocking      == LteTowerCard
NetworkPriorityCard   == [LteTowerCard EXCEPT !.reload = FALSE]
SmsForwardingCard     == [TtlSettingsCard EXCEPT !.sync = "object", !.reload = FALSE]
SshPasswordCard       == SmsForwardingCard
SystemSettingsCard    == [TtlSettingsCard EXCEPT !.sync = "object", !.remounts = TRUE]
CustomDnsCard         == [TtlSettingsCard EXCEPT !.sync = "once", !.held = TRUE]
ImeiSettingsCard      == CustomDnsCard
BackupImeiCard        == CustomDnsCard
ScheduledRebootCard   == [TtlSettingsCard EXCEPT !.sync = "latched"]
ModeCard              == [TtlSettingsCard EXCEPT !.sync = "switch", !.held = TRUE]
TargetsCard           == [ModeCard EXCEPT !.reload = FALSE]
ForceTcpCard          == TargetsCard

-----------------------------------------------------------------------------
(* Requests.  at is 0 until the device has answered; got is then what it   *)
(* read or stored, "refused", or "lost" when no answer comes.  A "check"   *)
(* is the read that a save waits for.  back is what a switch returns to    *)
(* when its save fails.                                                    *)

Kinds == {"read", "save", "check"}
Failures == {"refused", "lost"}
Requests == [n : Nat, kind : Kinds, quiet : BOOLEAN, value : Values \cup {None},
             back : Values \cup {None}, at : Nat, got : Values \cup Failures \cup {None}]

Later(m, n) == IF n > m THEN n ELSE m

(* requests becomes rest and one more.                                     *)
Ask(rest, kind, quiet, value, back) ==
  /\ asked' = asked + 1
  /\ requests' = rest \cup {[n |-> asked + 1, kind |-> kind, quiet |-> quiet,
                             value |-> value, back |-> back, at |-> 0, got |-> None]}

(* The page reads when it opens.                                           *)
OpenOn(p) ==
  /\ page = p
  /\ stored \in Values /\ changes = 0
  /\ shown \in IF p.hook.defaults THEN Values ELSE {None}
  /\ draft = IF p.form.sync \in Overlays THEN None ELSE shown
  /\ seed = shown
  /\ saving = "no" /\ due = FALSE /\ retries = 0
  /\ requests = {[n |-> 1, kind |-> "read", quiet |-> FALSE, value |-> None,
                  back |-> None, at |-> 0, got |-> None]}
  /\ asked = 1 /\ answered = 0 /\ applied = 0
  /\ shownAt = 0 /\ newest = 0
  /\ reordered = FALSE /\ told = FALSE /\ behind = FALSE

-----------------------------------------------------------------------------
(* The device, and what others do to it.                                   *)

OtherChange(v) ==
  /\ changes < MaxChanges /\ v # stored
  /\ stored' = v
  /\ changes' = changes + 1
  /\ behind' = TRUE
  /\ UNCHANGED <<page, form, requests, asked, answered, hook, shownAt, newest,
                 reordered, told>>

Respond(r, got) ==
  /\ answered' = answered + 1
  /\ requests' = (requests \ {r}) \cup {[r EXCEPT !.at = answered + 1, !.got = got]}
  /\ reordered' = (reordered \/ \E q \in requests : q.n < r.n /\ q.at = 0)
  /\ UNCHANGED <<page, changes, form, asked, hook, shownAt, newest, told>>

AnswerRead(r) ==
  /\ r.kind # "save" /\ r.at = 0
  /\ \/ Respond(r, stored) /\ behind' = FALSE
     \/ \E f \in Failures : Respond(r, f) /\ UNCHANGED behind
  /\ UNCHANGED stored

(* A save can be carried out although no answer comes.                     *)
AnswerSave(r) ==
  /\ r.kind = "save" /\ r.at = 0
  /\ \/ \E got \in {r.value, "lost"} :
          Respond(r, got) /\ stored' = r.value /\ UNCHANGED behind
     \/ \E f \in Failures : Respond(r, f) /\ UNCHANGED <<stored, behind>>

-----------------------------------------------------------------------------
(* The form.                                                               *)

Loading == page.form.remounts /\ \E r \in requests : r.kind = "read" /\ ~r.quiet

Editable ==
  /\ shown # None /\ page.form.sync \notin {"switch", "latched"}
  /\ page.form.held => saving = "no"
  /\ ~Loading

Edit(v) ==
  /\ Editable /\ v # draft
  /\ draft' = IF page.form.sync = "pending" /\ v = shown THEN None ELSE v
  /\ UNCHANGED <<page, device, seed, requests, asked, answered, hook, history>>

Discard ==
  /\ Editable /\ draft # None
  /\ draft' = IF page.form.sync \in Overlays THEN None ELSE shown
  /\ draft' # draft
  /\ UNCHANGED <<page, device, seed, requests, asked, answered, hook, history>>

(* Fault: a form that compares values is filled by the same value again.   *)
FillsAgain(g) ==
  \/ page.form.sync \in {"object", "value"}
  \/ page.form.sync = "once" /\ draft = None
  \/ page.form.sync = "latched" /\ saving' \notin {"queued", "posted"}

(* An answer with value g fills the form.                                  *)
Fills(g) ==
  \/ page.form.sync = "object"
  \/ page.form.sync = "value" /\ g # seed
  \/ page.form.sync = "once" /\ draft = None
  \/ page.form.sync = "latched" /\ saving' \notin {"queued", "posted"}

Fill(g) ==
  /\ draft' = IF Fills(g) THEN g
              ELSE IF page.form.sync = "pending" /\ draft = g THEN None
              ELSE draft
  /\ seed' = IF Fills(g) THEN g ELSE seed

-----------------------------------------------------------------------------
(* Reads.                                                                  *)

Refresh ==
  /\ asked < MaxRequests /\ ~Loading
  /\ page.form.reload \/ shown = None
  /\ Ask(requests, "read", FALSE, None, None)
  /\ draft' = IF page.form.remounts THEN shown ELSE draft
  /\ UNCHANGED <<page, device, seed, answered, hook, history>>

Poll ==
  /\ page.hook.poll /\ asked < MaxRequests
  /\ Ask(requests, "read", TRUE, None, None)
  /\ UNCHANGED <<page, device, form, answered, hook, history>>

TimerReads ==
  /\ due /\ due' = FALSE
  /\ Ask(requests, "read", TRUE, None, None)
  /\ UNCHANGED <<page, device, form, answered, shown, saving, retries, applied, history>>

(* Fault: the sequence number is not looked at.                            *)
CountsAlways(r) == TRUE

(* An older answer is dropped by a hook with sequence numbers.             *)
Counts(r) == page.hook.ordered => r.n > applied
Mark(r) == applied' = IF page.hook.ordered THEN Later(applied, r.n) ELSE applied
Silent(r) == \/ page.hook.quiet = "all"
             \/ page.hook.quiet = "background" /\ r.quiet

Taken(r) ==
  /\ newest' = Later(newest, r.at)
  /\ UNCHANGED <<page, device, answered, reordered>>

Finished(r) == saving' = IF r.kind = "check" THEN "no" ELSE saving

TakeValue(r) ==
  /\ r.kind # "save" /\ r.at > 0 /\ r.got \in Values /\ Counts(r)
  /\ Finished(r)
  /\ shown' = r.got /\ shownAt' = r.at
  /\ Fill(r.got)
  /\ Mark(r)
  /\ retries' = 0
  /\ told' = (told /\ r.at < newest)
  /\ requests' = requests \ {r}
  /\ Taken(r)
  /\ UNCHANGED <<asked, due, behind>>

TakeFailure(r) ==
  /\ r.kind # "save" /\ r.at > 0 /\ r.got \in Failures /\ Counts(r)
  /\ Finished(r)
  /\ Mark(r)
  /\ LET again == page.hook.retry /\ r.got = "lost" /\ retries < MaxRetries
     IN  /\ due' = (due \/ again)
         /\ retries' = IF again THEN retries + 1 ELSE retries
  /\ told' = (told \/ ~Silent(r))
  /\ behind' = (behind \/ Silent(r))
  /\ requests' = requests \ {r}
  /\ Taken(r)
  /\ UNCHANGED <<form, asked, shown, shownAt>>

DropAnswer(r) ==
  /\ r.kind # "save" /\ r.at > 0 /\ ~Counts(r)
  /\ Finished(r)
  /\ requests' = requests \ {r}
  /\ Taken(r)
  /\ UNCHANGED <<form, asked, shown, due, retries, applied, shownAt, told, behind>>

-----------------------------------------------------------------------------
(* Saves.                                                                  *)

Post(v, back) ==
  /\ saving' = "posted"
  /\ Ask(requests, "save", FALSE, v, back)
  /\ UNCHANGED <<page, device, seed, answered, shown, due, retries, applied, history>>

Save ==
  /\ Editable /\ draft \notin {None, shown} /\ saving = "no" /\ asked < MaxRequests
  /\ Post(draft, None)
  /\ UNCHANGED draft

(* A switch is saved when it is flipped.                                   *)
Flip(v) ==
  /\ page.form.sync = "switch"
  /\ shown \notin {None, v} /\ saving = "no" /\ asked < MaxRequests
  /\ Post(v, None)
  /\ UNCHANGED draft

(* The form without a Save button: the switch in it saves at once.  Its    *)
(* other fields are saved after a moment in which no edit follows, or with *)
(* the switch when that is off.                                            *)
Touched(v) == page.form.sync = "latched" /\ shown # None /\ v # draft /\ asked < MaxRequests

Toggle(v) ==
  /\ Touched(v)
  /\ Post(v, draft)
  /\ draft' = v

EditAndQueue(v) ==
  /\ Touched(v)
  /\ draft' = v
  /\ saving' = "queued" \/ (saving # "queued" /\ UNCHANGED saving)
  /\ UNCHANGED <<page, device, seed, requests, asked, answered, shown, due, retries,
                 applied, history>>

PostQueued ==
  /\ saving = "queued"
  /\ Post(draft, None)
  /\ UNCHANGED draft

(* A save of a form without a button ends the wait when no newer one is    *)
(* queued or in flight.                                                    *)
Latest(r) == saving = "posted" /\ \A q \in requests : q.kind = "save" => q.n <= r.n
EndSave(r) == saving' = IF page.form.sync # "latched" \/ Latest(r) THEN "no" ELSE saving

(* The form when the answer to a save is v, or none (v = None).            *)
LatchedAfter(r, v) ==
  /\ \/ ~Latest(r) /\ UNCHANGED draft
     \/ Latest(r) /\ v # None /\ draft' = shown'
     \/ Latest(r) /\ v = None /\ draft' \in {shown, r.back} \ {None}
  /\ UNCHANGED seed

FormAfter(r, v) ==
  \/ page.form.sync = "latched" /\ LatchedAfter(r, v)
  \/ page.form.sync = "pending" /\ v # None /\ draft' = None /\ UNCHANGED seed
  \/ page.form.sync = "payload" /\ v # None /\ draft' = v /\ UNCHANGED seed
  \/ /\ page.form.sync # "latched"
     /\ page.form.sync \in {"pending", "payload"} => v = None
     /\ IF v # None /\ shown' # shown THEN Fill(v) ELSE UNCHANGED form

Forget(r) == requests' = requests \ {r} /\ UNCHANGED asked
ReadAgain(r, kind) == Ask(requests \ {r}, kind, TRUE, None, None)
Adopt(r) == shown' = r.got /\ shownAt' = r.at

(* A save that succeeded, in the ways that hooks go on from there.         *)
SavedThenReread(r) ==
  /\ "reread" \in page.hook.saved
  /\ saving' = "rereading" /\ ReadAgain(r, "check")
  /\ UNCHANGED <<shown, shownAt, due, applied>>

SavedWithReply(r) ==
  /\ "reply" \in page.hook.saved
  /\ IF Counts(r) THEN Adopt(r) /\ Mark(r)
                  ELSE UNCHANGED <<shown, shownAt, applied>>
  /\ EndSave(r) /\ Forget(r)
  /\ UNCHANGED due

SavedAndAssumed(r) ==
  /\ \/ "assume" \in page.hook.saved /\ EndSave(r) /\ ReadAgain(r, "read")
     \/ "confirm" \in page.hook.saved /\ saving' = "rereading" /\ ReadAgain(r, "check")
  /\ Adopt(r)
  /\ UNCHANGED <<due, applied>>

SavedAndTrusted(r) ==
  /\ \/ "later" \in page.hook.saved /\ due' = TRUE
     \/ "trust" \in page.hook.saved /\ UNCHANGED due
  /\ Adopt(r) /\ EndSave(r) /\ Forget(r)
  /\ UNCHANGED applied

SavedAndLeft(r) ==
  /\ "leave" \in page.hook.saved
  /\ saving' = "left" /\ Forget(r)
  /\ UNCHANGED <<shown, shownAt, due, applied>>

TakeSaved(r) ==
  /\ r.kind = "save" /\ r.at > 0 /\ r.got \in Values
  /\ \/ SavedThenReread(r)
     \/ SavedWithReply(r)
     \/ SavedAndAssumed(r)
     \/ SavedAndTrusted(r)
     \/ SavedAndLeft(r)
  /\ FormAfter(r, r.got)
  /\ Taken(r)
  /\ UNCHANGED <<retries, told, behind>>

(* The fields of the cellular settings are saved one by one: it reads      *)
(* again which of them were.                                               *)
TakeRefused(r) ==
  /\ r.kind = "save" /\ r.at > 0 /\ r.got = "refused"
  /\ IF page.form.sync = "pending"
     THEN saving' = "rereading" /\ ReadAgain(r, "check")
     ELSE EndSave(r) /\ Forget(r)
  /\ FormAfter(r, None)
  /\ told' = TRUE
  /\ Taken(r)
  /\ UNCHANGED <<shown, due, retries, applied, shownAt, behind>>

TakeLost(r) ==
  /\ r.kind = "save" /\ r.at > 0 /\ r.got = "lost"
  /\ IF page.hook.lost = "assume"
     THEN /\ shown' = r.value /\ shownAt' = r.at
          /\ due' = TRUE
          /\ FormAfter(r, r.value)
          /\ UNCHANGED told
     ELSE /\ told' = TRUE
          /\ FormAfter(r, None)
          /\ UNCHANGED <<shown, shownAt, due>>
  /\ EndSave(r) /\ Forget(r)
  /\ Taken(r)
  /\ UNCHANGED <<retries, applied, behind>>

-----------------------------------------------------------------------------
SettingsInit == \E p \in Pages : OpenOn(p)

User == \/ Refresh \/ Discard \/ Save
        \/ \E v \in Values : Edit(v) \/ Flip(v) \/ Toggle(v) \/ EditAndQueue(v)

Arrives(r) == \/ TakeValue(r) \/ TakeFailure(r) \/ DropAnswer(r)
              \/ TakeSaved(r) \/ TakeRefused(r) \/ TakeLost(r)

RequestsGoOn == \E r \in requests : AnswerRead(r) \/ AnswerSave(r) \/ Arrives(r)

Timers == Poll \/ TimerReads \/ PostQueued

SettingsNext ==
  /\ saving # "left"
  /\ \/ User
     \/ Timers
     \/ \E v \in Values : OtherChange(v)
     \/ RequestsGoOn

SettingsSpec == SettingsInit /\ [][SettingsNext]_settingsVars

-----------------------------------------------------------------------------
SettingsFlags == /\ due \in BOOLEAN /\ reordered \in BOOLEAN
                 /\ told \in BOOLEAN /\ behind \in BOOLEAN

(* Types and bounds.                                                       *)
SettingsTypeOK ==
  /\ page \in Pages
  /\ stored \in Values
  /\ changes \in 0..MaxChanges
  /\ shown \in Values \cup {None} /\ draft \in Values \cup {None} /\ seed \in Values \cup {None}
  /\ saving \in {"no", "queued", "posted", "rereading", "left"}
  /\ retries \in 0..MaxRetries
  /\ requests \subseteq Requests
  /\ asked \in Nat /\ answered \in Nat /\ applied \in Nat
  /\ shownAt \in Nat /\ newest \in Nat
  /\ SettingsFlags

(* A page on which nothing is under way shows what the device has, whatever *)
(* order requests and answers took, unless the user was told of a failure, *)
(* others changed the setting since the last read, or (without sequence    *)
(* numbers) an older answer came after a newer one.  For a hook with       *)
(* sequence numbers the order of the answers does not matter as long as    *)
(* the device answered in the order in which it was asked.                 *)
Settled == requests = {} /\ ~due /\ saving = "no"
Overtaken == IF page.hook.ordered THEN reordered ELSE shownAt < newest
SettledPageIsTrue == Settled /\ ~told /\ ~behind /\ ~Overtaken => shown = stored

(* An edit that was not saved is not changed by what arrives, except in a  *)
(* form that a new value of the setting fills again, by a device that has  *)
(* caught up with it, and while the user is told that a save failed.  Left *)
(* out are the forms that say, or turn out, to do otherwise.               *)
Unsaved ==
  /\ draft \notin {None, shown}
  /\ page.form.sync = "latched" => saving = "queued"
Outdone == \/ page.form.sync = "value" /\ shown' # shown
           \/ page.form.sync = "pending" /\ draft \in {shown', stored}
Saves(r) == r.kind = "save" /\ r.got = draft
EditsSurviveStep ==
  (\E r \in requests : r.at > 0 /\ r \notin requests' /\ ~Saves(r)) /\ Unsaved
     => draft' = draft \/ Outdone
EditsSurvive ==
  [][page.form.sync \notin {"object", "payload"} => EditsSurviveStep]_settingsVars
=============================================================================
