------------------------- MODULE SettingsPageProofs -------------------------
(***************************************************************************)
(* Proofs about the settings pages, for any pages that PageAssumption      *)
(* allows, any values, and any number of requests, retries and changes.    *)
(***************************************************************************)
EXTENDS SettingsPage, TLAPS

-----------------------------------------------------------------------------
(* Types.                                                                  *)

(* The flags stay flags.                                                   *)
LEMMA SettingsFlagsStay ==
  ASSUME SettingsFlags, page \in [hook : Hooks, form : Forms], [SettingsNext]_settingsVars
  PROVE  SettingsFlags'
<1> USE DEF SettingsFlags
<1>a. ASSUME UNCHANGED <<due, reordered, told, behind>> PROVE SettingsFlags'
  BY <1>a, Zenon
<1>1. CASE User
  <2>1. UNCHANGED <<due, history>>
    BY <1>1, Zenon DEF User, Refresh, Discard, Save, Edit, Flip, Toggle, EditAndQueue, Post, hook
  <2> QED BY <2>1, <1>a DEF history
<1>2. CASE Poll \/ PostQueued
  <2>1. UNCHANGED <<due, history>>
    BY <1>2, Zenon DEF Poll, PostQueued, Post, hook
  <2> QED BY <2>1, <1>a DEF history
<1>3. CASE TimerReads
  BY <1>3, Zenon DEF TimerReads, history
<1>4. ASSUME NEW v \in Values, OtherChange(v) PROVE SettingsFlags'
  BY <1>4, Zenon DEF OtherChange, hook
<1>5. ASSUME NEW r \in requests, AnswerRead(r) PROVE SettingsFlags'
  BY <1>5, Zenon DEF AnswerRead, Respond, hook
<1>6. ASSUME NEW r \in requests, AnswerSave(r) PROVE SettingsFlags'
  BY <1>6, Zenon DEF AnswerSave, Respond, hook
<1>7. ASSUME NEW r \in requests, TakeValue(r) PROVE SettingsFlags'
  BY <1>7, Zenon DEF TakeValue, Taken
<1>8. ASSUME NEW r \in requests, TakeFailure(r) PROVE SettingsFlags'
  BY <1>8, Zenon DEF TakeFailure, Taken, Silent
<1>9. ASSUME NEW r \in requests, DropAnswer(r) PROVE SettingsFlags'
  BY <1>9, Zenon DEF DropAnswer, Taken
<1>10. ASSUME NEW r \in requests, TakeSaved(r) PROVE SettingsFlags'
  BY <1>10, Zenon DEF TakeSaved, Taken, SavedThenReread, SavedWithReply, SavedAndAssumed,
                      SavedAndTrusted, SavedAndLeft
<1>11. ASSUME NEW r \in requests, TakeRefused(r) PROVE SettingsFlags'
  BY <1>11, Zenon DEF TakeRefused, Taken
<1>12. ASSUME NEW r \in requests, TakeLost(r) PROVE SettingsFlags'
  BY <1>12, Zenon DEF TakeLost, Taken
<1>13. CASE UNCHANGED settingsVars
  BY <1>13, Zenon DEF settingsVars, hook, history
<1> QED
  BY <1>1, <1>2, <1>3, <1>4, <1>5, <1>6, <1>7, <1>8, <1>9, <1>10, <1>11, <1>12, <1>13
     DEF SettingsNext, Timers, RequestsGoOn, Arrives

-----------------------------------------------------------------------------
(* The inductive invariant.  A page waits for one save or for the read     *)
(* after it, which the form without a Save button does not make; an answer *)
(* to a save tells what was sent; a form that compares values was filled   *)
(* with the value that is shown; and an edit of single fields that is      *)
(* saved is not edited meanwhile.                                          *)
OneSave ==
  page.form.sync # "latched" =>
    /\ \A r \in requests : r.kind = "save" => saving = "posted"
    /\ \A r \in requests : r.kind = "check" => saving = "rereading"
    /\ \A q, r \in requests : q.kind # "read" /\ r.kind # "read" => q = r
Queued == saving = "queued" => page.form.sync = "latched" /\ draft # None
NoChecks == page.form.sync = "latched" => \A r \in requests : r.kind # "check"
SavesAreTrue ==
  \A r \in requests :
    r.kind = "save" => r.value \in Values /\ (r.at > 0 => r.got \in {r.value} \cup Failures)
SeedIsShown == page.form.sync = "value" => seed = shown
PendingIsSaved ==
  page.form.sync = "pending" =>
    \A r \in requests : r.kind = "save" => draft \in {None, r.value}

EditInv ==
  /\ SettingsTypeOK
  /\ OneSave /\ Queued /\ NoChecks /\ SavesAreTrue /\ SeedIsShown /\ PendingIsSaved

LEMMA PageKinds ==
  ASSUME page \in Pages
  PROVE  /\ page \in [hook : Hooks, form : Forms]
         /\ page.form.sync = "pending" => page.form.held /\ ~page.form.remounts
         /\ page.form.sync = "latched" => page.hook.saved = {"reply"} /\ ~page.form.remounts
         /\ page.hook.ordered => /\ page.hook.saved \subseteq {"reread", "reply"}
                                 /\ page.hook.lost = "error" /\ page.hook.quiet = "none"
BY PageAssumption

(* One more request.                                                       *)
LEMMA AskIs ==
  ASSUME requests \subseteq Requests, asked \in Nat,
         NEW rest \in SUBSET requests, NEW kind \in Kinds, NEW quiet \in BOOLEAN,
         NEW value \in Values \cup {None}, NEW back \in Values \cup {None},
         Ask(rest, kind, quiet, value, back)
  PROVE  /\ asked' \in Nat /\ requests' \subseteq Requests
         /\ asked' = asked + 1
         /\ \E q \in Requests : /\ requests' = rest \cup {q}
                               /\ q.kind = kind /\ q.value = value /\ q.at = 0
                               /\ q.n = asked + 1
<1> DEFINE new == [n |-> asked + 1, kind |-> kind, quiet |-> quiet, value |-> value,
                   back |-> back, at |-> 0, got |-> None]
<1>1. new \in Requests /\ new.kind = kind /\ new.value = value /\ new.at = 0 /\ new.n = asked + 1
  BY DEF Requests
<1>2. asked' = asked + 1 /\ requests' = rest \cup {new}
  BY DEF Ask
<1> HIDE DEF new
<1> QED BY <1>1, <1>2

LEMMA SettingsInitInv == SettingsInit => EditInv
<1> SUFFICES ASSUME NEW p \in Pages, OpenOn(p) PROVE EditInv
  BY DEF SettingsInit
<1> USE NoneAssumption, BoundAssumption
<1>1. SettingsFlags
  BY Zenon DEF OpenOn, SettingsFlags
<1>2. /\ page \in Pages /\ saving = "no" /\ seed = shown
      /\ shown \in Values \cup {None} /\ draft \in Values \cup {None}
      /\ stored \in Values /\ changes = 0 /\ retries = 0
      /\ asked = 1 /\ answered = 0 /\ applied = 0 /\ shownAt = 0 /\ newest = 0
  BY DEF OpenOn
<1>3. requests \subseteq Requests /\ \A r \in requests : r.kind = "read"
  BY DEF OpenOn, Requests, Kinds
<1> QED
  BY <1>1, <1>2, <1>3
     DEF EditInv, SettingsTypeOK, OneSave, Queued, NoChecks, SavesAreTrue, SeedIsShown,
         PendingIsSaved

-----------------------------------------------------------------------------
(* What does not touch the requests.                                       *)
LEMMA EditStepInv ==
  ASSUME EditInv, SettingsFlags',
         \/ Discard \/ \E v \in Values : Edit(v) \/ EditAndQueue(v) \/ OtherChange(v)
  PROVE  EditInv'
<1>p. page.form.sync = "pending" => page.form.held
  BY PageKinds DEF EditInv, SettingsTypeOK
<1>n. None \notin Values
  BY NoneAssumption
<1>1. ASSUME UNCHANGED <<page, stored, changes, shown, seed, retries, requests, asked, answered,
                         applied, shownAt, newest>>,
             draft' \in Values \cup {None},
             \/ saving' = saving /\ (page.form.sync = "latched" => draft' = draft)
             \/ saving' = "queued" /\ page.form.sync = "latched" /\ draft' # None
             \/ saving' = saving /\ saving # "queued",
             page.form.sync = "pending" => draft' = draft \/ saving = "no"
      PROVE  EditInv'
  <2>1. SettingsTypeOK'
    BY <1>1 DEF EditInv, SettingsTypeOK
  <2>2. OneSave'
    BY <1>1 DEF EditInv, OneSave
  <2>3. PendingIsSaved'
    <3> SUFFICES ASSUME page.form.sync = "pending", NEW r \in requests, r.kind = "save"
                 PROVE  draft' \in {None, r.value}
      BY <1>1 DEF PendingIsSaved
    <3>1. saving # "no" /\ draft \in {None, r.value}
      BY DEF EditInv, OneSave, PendingIsSaved
    <3> QED BY <1>1, <3>1
  <2>4. Queued' /\ NoChecks' /\ SavesAreTrue' /\ SeedIsShown'
    BY <1>1 DEF EditInv, Queued, NoChecks, SavesAreTrue, SeedIsShown
  <2> QED BY <2>1, <2>2, <2>3, <2>4 DEF EditInv
<1>2. CASE Discard
  BY <1>1, <1>2, <1>p DEF Discard, Editable, device, hook, history, EditInv, SettingsTypeOK
<1>3. ASSUME NEW v \in Values, Edit(v) PROVE EditInv'
  BY <1>1, <1>3, <1>p DEF Edit, Editable, device, hook, history, EditInv, SettingsTypeOK
<1>4. ASSUME NEW v \in Values, EditAndQueue(v) PROVE EditInv'
  BY <1>1, <1>n, <1>4 DEF EditAndQueue, Touched, device, history
<1>5. ASSUME NEW v \in Values, OtherChange(v) PROVE EditInv'
  <2>1. /\ UNCHANGED <<page, shown, draft, seed, saving, retries, requests, asked, answered,
                       applied, shownAt, newest>>
        /\ stored' \in Values /\ changes' \in 0..MaxChanges
    BY <1>5, BoundAssumption DEF OtherChange, form, hook, EditInv, SettingsTypeOK
  <2> QED
    BY <2>1 DEF EditInv, SettingsTypeOK, OneSave, Queued, NoChecks, SavesAreTrue, SeedIsShown,
                PendingIsSaved
<1> QED BY <1>2, <1>3, <1>4, <1>5

(* New reads.                                                              *)
LEMMA ReadStepInv ==
  ASSUME EditInv, SettingsFlags', Refresh \/ Poll \/ TimerReads
  PROVE  EditInv'
<1>p. page.form.sync \in {"pending", "latched"} => ~page.form.remounts
  BY PageKinds DEF EditInv, SettingsTypeOK
<1>1. PICK quiet \in BOOLEAN : Ask(requests, "read", quiet, None, None)
  BY DEF Refresh, Poll, TimerReads
<1>2. /\ asked' \in Nat /\ requests' \subseteq Requests
      /\ \E q \in Requests : requests' = requests \cup {q} /\ q.kind = "read"
  <2>1. requests \subseteq Requests /\ asked \in Nat /\ "read" \in Kinds
        /\ requests \in SUBSET requests /\ None \in Values \cup {None}
    BY DEF EditInv, SettingsTypeOK, Kinds
  <2> QED BY <1>1, <2>1, AskIs
<1>3. /\ UNCHANGED <<page, stored, changes, seed, answered, shown, saving, retries, applied,
                     shownAt, newest>>
      /\ draft' \in {shown, draft}
      /\ page.form.sync \in {"pending", "latched"} => draft' = draft
  BY <1>p DEF Refresh, Poll, TimerReads, device, hook, history, form
<1>4. SettingsTypeOK'
  BY <1>2, <1>3 DEF EditInv, SettingsTypeOK
<1>5. OneSave' /\ Queued' /\ NoChecks'
  BY <1>2, <1>3 DEF EditInv, OneSave, Queued, NoChecks
<1>6. SavesAreTrue' /\ SeedIsShown' /\ PendingIsSaved'
  BY <1>2, <1>3 DEF EditInv, SavesAreTrue, SeedIsShown, PendingIsSaved
<1> QED BY <1>4, <1>5, <1>6 DEF EditInv

(* New saves.                                                              *)
LEMMA PostStepInv ==
  ASSUME EditInv, SettingsFlags',
         Save \/ PostQueued \/ \E v \in Values : Flip(v) \/ Toggle(v)
  PROVE  EditInv'
<1>n. None \notin Values
  BY NoneAssumption
<1>1. \E v \in Values, back \in Values \cup {None} :
        /\ Post(v, back) /\ draft' \in Values \cup {None}
        /\ \/ page.form.sync = "latched"
           \/ saving = "no" /\ draft' = draft /\ (page.form.sync = "pending" => draft = v)
  <2>1. CASE Save
    BY <1>n, <2>1 DEF Save, Editable, EditInv, SettingsTypeOK
  <2>2. CASE PostQueued
    BY <1>n, <2>2 DEF PostQueued, EditInv, SettingsTypeOK, Queued
  <2>3. ASSUME NEW v \in Values, Flip(v) PROVE <1>1!:
    BY <1>n, <2>3 DEF Flip, EditInv, SettingsTypeOK
  <2>4. ASSUME NEW v \in Values, Toggle(v) PROVE <1>1!:
    BY <1>n, <2>4 DEF Toggle, Touched, EditInv, SettingsTypeOK
  <2> QED BY <2>1, <2>2, <2>3, <2>4
<1>2. PICK v \in Values, back \in Values \cup {None} :
        /\ Post(v, back) /\ draft' \in Values \cup {None}
        /\ \/ page.form.sync = "latched"
           \/ saving = "no" /\ draft' = draft /\ (page.form.sync = "pending" => draft = v)
  BY <1>1
<1>3. /\ asked' \in Nat /\ requests' \subseteq Requests
      /\ \E q \in Requests : /\ requests' = requests \cup {q}
                            /\ q.kind = "save" /\ q.value = v /\ q.at = 0
  <2>1. PICK quiet \in BOOLEAN : Ask(requests, "save", quiet, v, back)
    BY <1>2 DEF Post
  <2>2. /\ requests \subseteq Requests /\ asked \in Nat /\ "save" \in Kinds
        /\ requests \in SUBSET requests /\ v \in Values \cup {None}
    BY DEF EditInv, SettingsTypeOK, Kinds
  <2> QED BY <2>1, <2>2, AskIs
<1>4. /\ saving' = "posted"
      /\ UNCHANGED <<page, stored, changes, seed, answered, shown, retries, applied, shownAt, newest>>
  BY <1>2 DEF Post, device, history
<1>5. SettingsTypeOK'
  BY <1>2, <1>3, <1>4 DEF EditInv, SettingsTypeOK
<1>6. OneSave'
  <2> SUFFICES ASSUME page.form.sync # "latched" PROVE OneSave'
    BY <1>4 DEF OneSave
  <2>1. \A r \in requests : r.kind = "read"
    BY <1>2 DEF EditInv, OneSave, SettingsTypeOK, Requests, Kinds
  <2> QED BY <1>3, <1>4, <2>1 DEF OneSave
<1>7. Queued' /\ NoChecks' /\ SavesAreTrue' /\ SeedIsShown'
  BY <1>3, <1>4 DEF EditInv, Queued, NoChecks, SavesAreTrue, SeedIsShown
<1>8. PendingIsSaved'
  BY <1>2, <1>3, <1>4 DEF EditInv, OneSave, PendingIsSaved
<1> QED BY <1>5, <1>6, <1>7, <1>8 DEF EditInv

(* The device answers.                                                     *)
LEMMA RespondStepInv ==
  ASSUME EditInv, SettingsFlags', NEW r \in requests, AnswerRead(r) \/ AnswerSave(r)
  PROVE  EditInv'
<1>1. PICK got \in Values \cup Failures :
        /\ Respond(r, got) /\ stored' \in Values /\ r.at = 0
        /\ r.kind = "save" => got \in {r.value} \cup Failures
  BY DEF AnswerRead, AnswerSave, EditInv, SettingsTypeOK, SavesAreTrue, Failures
<1> DEFINE q == [r EXCEPT !.at = answered + 1, !.got = got]
<1>2. /\ answered' \in Nat /\ requests' = (requests \ {r}) \cup {q}
      /\ UNCHANGED <<page, changes, draft, seed, asked, shown, saving, retries, applied, shownAt, newest>>
  BY <1>1 DEF Respond, form, hook, EditInv, SettingsTypeOK
<1>3. /\ q \in Requests /\ q.kind = r.kind /\ q.value = r.value /\ q.got = got /\ q.at > 0
  <2>1. r \in Requests /\ answered + 1 \in Nat /\ answered + 1 > 0
    BY DEF EditInv, SettingsTypeOK
  <2> QED BY <1>1, <2>1 DEF Requests
<1> HIDE DEF q
<1>4. SettingsTypeOK'
  BY <1>1, <1>2, <1>3 DEF EditInv, SettingsTypeOK
<1>5. OneSave'
  BY <1>2, <1>3 DEF EditInv, OneSave
<1>6. Queued' /\ NoChecks' /\ SeedIsShown' /\ PendingIsSaved'
  BY <1>2, <1>3 DEF EditInv, Queued, NoChecks, SeedIsShown, PendingIsSaved
<1>7. SavesAreTrue'
  BY <1>1, <1>2, <1>3 DEF EditInv, SavesAreTrue
<1> QED BY <1>4, <1>5, <1>6, <1>7 DEF EditInv

-----------------------------------------------------------------------------
(* Answers that arrive.  One request is gone, and a save or the read after *)
(* it may be followed by a read that the page waits for or does not.       *)
LEMMA AnswerInv ==
  ASSUME EditInv, SettingsFlags', NEW r \in requests,
         UNCHANGED <<page, stored, changes, answered>>,
         asked' \in Nat, applied' \in Nat, shownAt' \in Nat, newest' \in Nat,
         retries' \in 0..MaxRetries, shown' \in Values \cup {None},
         draft' \in Values \cup {None}, seed' \in Values \cup {None},
         saving' \in {"no", "queued", "posted", "rereading", "left"},
         page.form.sync = "value" => seed' = shown',
         page.form.sync = "pending" => draft' \in {draft, None},
         saving' = "queued" => saving = "queued" /\ draft' = draft,
         \/ requests' = requests \ {r}
         \/ \E q \in Requests : /\ requests' = (requests \ {r}) \cup {q} /\ q.kind = "read"
         \/ \E q \in Requests : /\ requests' = (requests \ {r}) \cup {q} /\ q.kind = "check"
                               /\ saving' = "rereading" /\ r.kind # "read"
                               /\ page.form.sync # "latched",
         page.form.sync # "latched" /\ r.kind = "read" => saving' = saving
  PROVE  EditInv'
<1>1. requests' \subseteq Requests /\ requests \subseteq Requests
  BY DEF EditInv, SettingsTypeOK
<1>2. SettingsTypeOK'
  BY <1>1 DEF EditInv, SettingsTypeOK
<1>3. OneSave'
  <2> SUFFICES ASSUME page.form.sync # "latched" PROVE OneSave'
    BY DEF OneSave
  <2>1. CASE r.kind = "read"
    <3>1. /\ \A q \in requests' : q.kind # "read" => q \in requests
          /\ saving' = saving
      BY <2>1
    <3> QED BY <3>1 DEF EditInv, OneSave
  <2>2. CASE r.kind # "read"
    <3>1. \A q \in requests \ {r} : q.kind = "read"
      BY <2>2 DEF EditInv, OneSave
    <3> QED BY <3>1 DEF OneSave
  <2> QED BY <2>1, <2>2
<1>4. Queued' /\ NoChecks' /\ SavesAreTrue' /\ SeedIsShown' /\ PendingIsSaved'
  <2>1. Queued' /\ SeedIsShown'
    BY DEF EditInv, Queued, SeedIsShown
  <2>2. NoChecks'
    BY DEF EditInv, NoChecks
  <2>3. \A q \in requests' : q.kind = "save" => q \in requests
    OBVIOUS
  <2>4. SavesAreTrue' /\ PendingIsSaved'
    BY <2>3 DEF EditInv, SavesAreTrue, PendingIsSaved
  <2> QED BY <2>1, <2>2, <2>4
<1> QED BY <1>2, <1>3, <1>4 DEF EditInv

(* An answer that fills the form, or does not.                             *)
LEMMA FillIs ==
  ASSUME EditInv, NEW g \in Values, Fill(g), shown' = g
  PROVE  /\ draft' \in Values \cup {None} /\ seed' \in Values \cup {None}
         /\ page.form.sync = "value" => seed' = shown'
         /\ page.form.sync = "pending" => draft' \in {draft, None}
         /\ page.form.sync = "latched" /\ saving' = "queued" => draft' = draft
BY DEF Fill, Fills, EditInv, SettingsTypeOK

LEMMA LaterIs == \A m, n \in Nat : Later(m, n) \in Nat
BY DEF Later

LEMMA ReadAnswerInv ==
  ASSUME EditInv, SettingsFlags', NEW r \in requests,
         TakeValue(r) \/ TakeFailure(r) \/ DropAnswer(r)
  PROVE  EditInv'
<1>r. /\ r \in Requests /\ r.at \in Nat /\ r.n \in Nat
      /\ page.form.sync = "latched" => r.kind # "check"
  BY DEF EditInv, SettingsTypeOK, Requests, NoChecks
<1>1. /\ r.kind # "save" /\ requests' = requests \ {r}
      /\ saving' = IF r.kind = "check" THEN "no" ELSE saving
      /\ UNCHANGED <<page, stored, changes, answered, asked>>
      /\ newest' = Later(newest, r.at)
      /\ applied' = applied \/ applied' = Later(applied, r.n)
  BY DEF TakeValue, TakeFailure, DropAnswer, Finished, Taken, Mark, device
<1>2. /\ newest' \in Nat /\ applied' \in Nat
      /\ saving' \in {"no", "queued", "posted", "rereading", "left"}
      /\ page.form.sync # "latched" /\ r.kind = "read" => saving' = saving
      /\ saving' = "queued" => saving = "queued"
  BY <1>1, <1>r, LaterIs DEF EditInv, SettingsTypeOK
<1>3. CASE TakeValue(r)
  <2>1. shown' = r.got /\ r.got \in Values /\ shownAt' = r.at /\ Fill(r.got) /\ retries' = 0
    BY <1>3 DEF TakeValue
  <2>2. /\ draft' \in Values \cup {None} /\ seed' \in Values \cup {None}
        /\ page.form.sync = "value" => seed' = shown'
        /\ page.form.sync = "pending" => draft' \in {draft, None}
        /\ page.form.sync = "latched" /\ saving' = "queued" => draft' = draft
    BY <2>1, FillIs
  <2>3. saving' = "queued" => page.form.sync = "latched"
    BY <1>2 DEF EditInv, Queued
  <2> QED BY <1>1, <1>2, <1>r, <2>1, <2>2, <2>3, AnswerInv, BoundAssumption DEF EditInv, SettingsTypeOK
<1>4. CASE TakeFailure(r) \/ DropAnswer(r)
  <2>1. /\ UNCHANGED <<draft, seed, shown, shownAt>>
        /\ retries' \in 0..MaxRetries
    BY <1>4, BoundAssumption DEF TakeFailure, DropAnswer, form, EditInv, SettingsTypeOK
  <2> QED BY <1>1, <1>2, <2>1, AnswerInv DEF EditInv, SettingsTypeOK, SeedIsShown
<1> QED BY <1>3, <1>4

(* The form after the answer to a save.                                    *)
LEMMA FormAfterIs ==
  ASSUME EditInv, NEW r \in requests, NEW v \in Values \cup {None}, FormAfter(r, v),
         shown' \in Values \cup {None}, shown' = shown \/ (v # None /\ shown' = v)
  PROVE  /\ draft' \in Values \cup {None} /\ seed' \in Values \cup {None}
         /\ page.form.sync = "value" => seed' = shown'
         /\ page.form.sync = "pending" => draft' \in {draft, None}
         /\ page.form.sync = "latched" => draft' = draft \/ Latest(r)
<1>r. r.back \in Values \cup {None}
  BY DEF EditInv, SettingsTypeOK, Requests
<1>t. /\ draft \in Values \cup {None} /\ seed \in Values \cup {None}
      /\ page.form.sync = "value" => seed = shown
  BY DEF EditInv, SettingsTypeOK, SeedIsShown
<1>1. CASE page.form.sync = "latched" /\ LatchedAfter(r, v)
  BY <1>1, <1>r, <1>t DEF LatchedAfter
<1>2. CASE page.form.sync = "pending" /\ v # None /\ draft' = None /\ UNCHANGED seed
  BY <1>2, <1>t
<1>3. CASE page.form.sync = "payload" /\ v # None /\ draft' = v /\ UNCHANGED seed
  BY <1>3, <1>t
<1>4. CASE /\ page.form.sync # "latched"
           /\ IF v # None /\ shown' # shown THEN Fill(v) ELSE UNCHANGED form
  <2>1. CASE v # None /\ shown' # shown
    BY <1>4, <2>1, FillIs
  <2>2. CASE ~(v # None /\ shown' # shown)
    BY <1>4, <2>2, <1>t DEF form
  <2> QED BY <2>1, <2>2
<1> QED BY <1>1, <1>2, <1>3, <1>4 DEF FormAfter

(* How a save ends.                                                        *)
LEMMA EndSaveIs ==
  ASSUME EditInv, NEW r \in requests, EndSave(r)
  PROVE  /\ saving' \in {"no", "queued", "posted", "rereading", "left"}
         /\ saving' = "queued" => saving = "queued" /\ page.form.sync = "latched" /\ ~Latest(r)
BY DEF EndSave, EditInv, SettingsTypeOK, Queued, Latest

(* What the ways to go on after a save have in common.                     *)
LEMMA SaveAnswerInv ==
  ASSUME EditInv, SettingsFlags', NEW r \in requests, r.kind = "save",
         NEW v \in Values \cup {None}, FormAfter(r, v),
         shown' = shown \/ (v # None /\ shown' = v),
         shownAt' = shownAt \/ shownAt' = r.at,
         applied' = applied \/ applied' = Later(applied, r.n),
         newest' = Later(newest, r.at),
         UNCHANGED <<page, stored, changes, answered, retries>>,
         \/ EndSave(r) /\ Forget(r)
         \/ EndSave(r) /\ ReadAgain(r, "read") /\ page.form.sync # "latched"
         \/ saving' = "rereading" /\ ReadAgain(r, "check") /\ page.form.sync # "latched"
         \/ saving' = "left" /\ Forget(r)
  PROVE  EditInv'
<1>r. /\ r \in Requests /\ r.at \in Nat /\ r.n \in Nat
      /\ requests \subseteq Requests /\ asked \in Nat /\ (requests \ {r}) \in SUBSET requests
      /\ None \in Values \cup {None}
  BY DEF EditInv, SettingsTypeOK, Requests
<1>1. /\ newest' \in Nat /\ applied' \in Nat /\ shownAt' \in Nat
      /\ retries' \in 0..MaxRetries /\ shown' \in Values \cup {None}
  BY <1>r, LaterIs DEF EditInv, SettingsTypeOK
<1>2. /\ draft' \in Values \cup {None} /\ seed' \in Values \cup {None}
      /\ page.form.sync = "value" => seed' = shown'
      /\ page.form.sync = "pending" => draft' \in {draft, None}
      /\ page.form.sync = "latched" => draft' = draft \/ Latest(r)
  BY <1>1, FormAfterIs
<1>k. "read" \in Kinds /\ "check" \in Kinds
  BY DEF Kinds
<1>3. CASE EndSave(r) /\ Forget(r)
  <2>1. /\ requests' = requests \ {r} /\ asked' \in Nat
        /\ saving' \in {"no", "queued", "posted", "rereading", "left"}
        /\ saving' = "queued" => saving = "queued" /\ draft' = draft
    BY <1>3, <1>r, <1>2, EndSaveIs DEF Forget
  <2> QED BY <1>1, <1>2, <2>1, AnswerInv
<1>4. CASE EndSave(r) /\ ReadAgain(r, "read") /\ page.form.sync # "latched"
  <2>1. PICK quiet \in BOOLEAN : Ask(requests \ {r}, "read", quiet, None, None)
    BY <1>4 DEF ReadAgain
  <2>2. /\ asked' \in Nat
        /\ \E q \in Requests : requests' = (requests \ {r}) \cup {q} /\ q.kind = "read"
    BY <1>r, <1>k, <2>1, AskIs
  <2>3. saving' = "no"
    BY <1>4 DEF EndSave
  <2> QED BY <1>1, <1>2, <2>2, <2>3, AnswerInv
<1>5. CASE saving' = "rereading" /\ ReadAgain(r, "check") /\ page.form.sync # "latched"
  <2>1. PICK quiet \in BOOLEAN : Ask(requests \ {r}, "check", quiet, None, None)
    BY <1>5 DEF ReadAgain
  <2>2. /\ asked' \in Nat
        /\ \E q \in Requests : requests' = (requests \ {r}) \cup {q} /\ q.kind = "check"
    BY <1>r, <1>k, <2>1, AskIs
  <2> QED BY <1>1, <1>2, <1>5, <2>2, AnswerInv
<1>6. CASE saving' = "left" /\ Forget(r)
  BY <1>1, <1>2, <1>6, <1>r, AnswerInv DEF Forget
<1> QED BY <1>3, <1>4, <1>5, <1>6

LEMMA TakeSavedInv ==
  ASSUME EditInv, SettingsFlags', NEW r \in requests, TakeSaved(r)
  PROVE  EditInv'
<1>1. /\ r.kind = "save" /\ r.got \in Values /\ FormAfter(r, r.got)
      /\ newest' = Later(newest, r.at)
      /\ UNCHANGED <<page, stored, changes, answered, retries>>
  BY DEF TakeSaved, Taken, device
<1>n. r.got # None /\ r.got \in Values \cup {None}
  BY <1>1, NoneAssumption
<1>p. page.form.sync = "latched" => page.hook.saved = {"reply"}
  BY PageKinds DEF EditInv, SettingsTypeOK
<1>2. CASE SavedThenReread(r)
  <2>1. /\ saving' = "rereading" /\ ReadAgain(r, "check") /\ page.form.sync # "latched"
        /\ UNCHANGED <<shown, shownAt, applied>>
    BY <1>2, <1>p DEF SavedThenReread
  <2> QED BY <1>1, <1>n, <2>1, SaveAnswerInv
<1>3. CASE SavedWithReply(r)
  <2>1. /\ EndSave(r) /\ Forget(r)
        /\ shown' \in {shown, r.got} /\ shownAt' \in {shownAt, r.at}
        /\ applied' = applied \/ applied' = Later(applied, r.n)
    BY <1>3 DEF SavedWithReply, Adopt, Mark
  <2> QED BY <1>1, <1>n, <2>1, SaveAnswerInv
<1>4. CASE SavedAndAssumed(r)
  <2>1. /\ page.form.sync # "latched"
        /\ \/ EndSave(r) /\ ReadAgain(r, "read")
           \/ saving' = "rereading" /\ ReadAgain(r, "check")
        /\ shown' = r.got /\ shownAt' = r.at /\ UNCHANGED applied
    BY <1>4, <1>p DEF SavedAndAssumed, Adopt
  <2> QED BY <1>1, <1>n, <2>1, SaveAnswerInv
<1>5. CASE SavedAndTrusted(r)
  <2>1. /\ EndSave(r) /\ Forget(r)
        /\ shown' = r.got /\ shownAt' = r.at /\ UNCHANGED applied
    BY <1>5 DEF SavedAndTrusted, Adopt
  <2> QED BY <1>1, <1>n, <2>1, SaveAnswerInv
<1>6. CASE SavedAndLeft(r)
  BY <1>1, <1>6, <1>n, SaveAnswerInv DEF SavedAndLeft
<1> QED BY <1>2, <1>3, <1>4, <1>5, <1>6 DEF TakeSaved

LEMMA TakeUnsavedInv ==
  ASSUME EditInv, SettingsFlags', NEW r \in requests, TakeRefused(r) \/ TakeLost(r)
  PROVE  EditInv'
<1>n. None \in Values \cup {None} /\ None \notin Values
  BY NoneAssumption
<1>1. CASE TakeRefused(r)
  <2>1. /\ r.kind = "save" /\ FormAfter(r, None) /\ newest' = Later(newest, r.at)
        /\ UNCHANGED <<page, stored, changes, answered, retries, shown, shownAt, applied>>
        /\ IF page.form.sync = "pending"
           THEN saving' = "rereading" /\ ReadAgain(r, "check")
           ELSE EndSave(r) /\ Forget(r)
    BY <1>1 DEF TakeRefused, Taken, device
  <2> QED BY <1>n, <2>1, SaveAnswerInv
<1>2. CASE TakeLost(r)
  <2>1. /\ r.kind = "save" /\ newest' = Later(newest, r.at)
        /\ UNCHANGED <<page, stored, changes, answered, retries, applied>>
        /\ EndSave(r) /\ Forget(r)
    BY <1>2 DEF TakeLost, Taken, device
  <2>2. r.value \in Values
    BY <2>1 DEF EditInv, SavesAreTrue
  <2>3. CASE page.hook.lost = "assume"
    <3>1. shown' = r.value /\ shownAt' = r.at /\ FormAfter(r, r.value)
      BY <1>2, <2>3 DEF TakeLost
    <3> QED BY <1>n, <2>1, <2>2, <3>1, SaveAnswerInv
  <2>4. CASE page.hook.lost # "assume"
    <3>1. UNCHANGED <<shown, shownAt>> /\ FormAfter(r, None)
      BY <1>2, <2>4 DEF TakeLost
    <3> QED BY <1>n, <2>1, <3>1, SaveAnswerInv
  <2> QED BY <2>3, <2>4
<1> QED BY <1>1, <1>2

-----------------------------------------------------------------------------
LEMMA SettingsNextInv == EditInv /\ [SettingsNext]_settingsVars => EditInv'
<1> SUFFICES ASSUME EditInv, [SettingsNext]_settingsVars PROVE EditInv'
  OBVIOUS
<1>f. SettingsFlags'
  <2>1. SettingsFlags /\ page \in [hook : Hooks, form : Forms]
    BY PageKinds DEF EditInv, SettingsTypeOK
  <2> QED BY <2>1, SettingsFlagsStay
<1>1. CASE User
  BY <1>1, <1>f, ReadStepInv, PostStepInv, EditStepInv DEF User
<1>2. CASE Timers
  BY <1>2, <1>f, ReadStepInv, PostStepInv DEF Timers
<1>3. ASSUME NEW v \in Values, OtherChange(v) PROVE EditInv'
  BY <1>3, <1>f, EditStepInv
<1>4. ASSUME NEW r \in requests, AnswerRead(r) \/ AnswerSave(r) PROVE EditInv'
  BY <1>4, <1>f, RespondStepInv
<1>5. ASSUME NEW r \in requests, Arrives(r) PROVE EditInv'
  BY <1>5, <1>f, ReadAnswerInv, TakeSavedInv, TakeUnsavedInv DEF Arrives
<1>6. CASE UNCHANGED settingsVars
  <2>1. SettingsTypeOK'
    BY <1>6, <1>f DEF settingsVars, device, form, hook, history, EditInv, SettingsTypeOK
  <2>2. OneSave' /\ Queued' /\ NoChecks' /\ SavesAreTrue' /\ SeedIsShown' /\ PendingIsSaved'
    BY <1>6 DEF settingsVars, device, form, hook, history, EditInv, OneSave, Queued, NoChecks,
                SavesAreTrue, SeedIsShown, PendingIsSaved
  <2> QED BY <2>1, <2>2 DEF EditInv
<1> QED BY <1>1, <1>2, <1>3, <1>4, <1>5, <1>6 DEF SettingsNext, RequestsGoOn

(* The types.                                                              *)
THEOREM SettingsTypes == SettingsSpec => []SettingsTypeOK
<1>1. EditInv => SettingsTypeOK
  BY DEF EditInv
<1> QED BY <1>1, SettingsInitInv, SettingsNextInv, PTL DEF SettingsSpec

-----------------------------------------------------------------------------
(* Edits.  Steps of the user, of timers and of the device take no answer   *)
(* away.                                                                   *)
LEMMA OthersTakeNothing ==
  ASSUME \/ User \/ Timers \/ \E v \in Values : OtherChange(v)
         \/ \E r \in requests : AnswerRead(r) \/ AnswerSave(r)
         \/ UNCHANGED settingsVars,
         NEW q \in requests, q \notin requests'
  PROVE  q.at = 0
<1>1. CASE User
  BY <1>1 DEF User, Refresh, Discard, Save, Edit, Flip, Toggle, EditAndQueue, Post, Ask
<1>2. CASE Timers
  BY <1>2 DEF Timers, Poll, TimerReads, PostQueued, Post, Ask
<1>3. ASSUME NEW v \in Values, OtherChange(v) PROVE FALSE
  BY <1>3 DEF OtherChange
<1>4. ASSUME NEW r \in requests, AnswerRead(r) \/ AnswerSave(r) PROVE q.at = 0
  BY <1>4 DEF AnswerRead, AnswerSave, Respond
<1>5. CASE UNCHANGED settingsVars
  BY <1>5 DEF settingsVars
<1> QED BY <1>1, <1>2, <1>3, <1>4, <1>5

(* What an answer with value v leaves of an edit.                          *)
LEMMA FilledEdit ==
  ASSUME EditInv, Unsaved, NEW g \in Values, Fill(g), shown' = g, UNCHANGED page,
         page.form.sync \notin {"object", "payload"},
         page.form.sync = "latched" => saving' = "queued"
  PROVE  draft' = draft \/ Outdone
BY NoneAssumption DEF Fill, Fills, Unsaved, Outdone, EditInv, SeedIsShown

LEMMA ReadKeepsEdit ==
  ASSUME EditInv, Unsaved, NEW r \in requests,
         TakeValue(r) \/ TakeFailure(r) \/ DropAnswer(r),
         page.form.sync \notin {"object", "payload"}
  PROVE  draft' = draft \/ Outdone
<1>1. CASE TakeValue(r)
  <2>1. page.form.sync = "latched" => r.kind # "check" /\ saving = "queued"
    BY DEF EditInv, NoChecks, Unsaved
  <2>2. /\ Fill(r.got) /\ shown' = r.got /\ r.got \in Values /\ UNCHANGED page
        /\ saving' = IF r.kind = "check" THEN "no" ELSE saving
    BY <1>1 DEF TakeValue, Taken, Finished
  <2> QED BY <2>1, <2>2, FilledEdit
<1>2. CASE TakeFailure(r) \/ DropAnswer(r)
  BY <1>2 DEF TakeFailure, DropAnswer, form
<1> QED BY <1>1, <1>2

LEMMA SaveKeepsEdit ==
  ASSUME EditInv, Unsaved, NEW r \in requests, r.kind = "save",
         NEW v \in Values \cup {None}, FormAfter(r, v), UNCHANGED page,
         shown' = shown \/ (v # None /\ shown' = v),
         page.form.sync = "pending" /\ v # None => v = shown' /\ v = draft,
         page.form.sync \notin {"object", "payload"}
  PROVE  draft' = draft \/ Outdone
<1>1. CASE page.form.sync = "latched" /\ LatchedAfter(r, v)
  BY <1>1 DEF LatchedAfter, Latest, Unsaved
<1>2. CASE page.form.sync = "pending" /\ v # None
  BY <1>2 DEF Outdone
<1>3. CASE IF v # None /\ shown' # shown THEN Fill(v) ELSE UNCHANGED form
  <2>1. CASE v # None /\ shown' # shown
    <3>1. Fill(v)
      BY <1>3, <2>1
    <3>2. CASE page.form.sync = "value"
      BY <2>1, <3>2 DEF Outdone
    <3>3. CASE page.form.sync = "pending"
      BY <1>2, <2>1, <3>3
    <3>4. CASE page.form.sync = "latched"
      BY <1>1, <3>4 DEF FormAfter
    <3> QED BY <3>1, <3>2, <3>3, <3>4 DEF Fill, Fills, Unsaved
  <2>2. CASE ~(v # None /\ shown' # shown)
    BY <1>3, <2>2 DEF form
  <2> QED BY <2>1, <2>2
<1> QED BY <1>1, <1>2, <1>3 DEF FormAfter

LEMMA EditsSurviveNext ==
  ASSUME EditInv, [SettingsNext]_settingsVars, page.form.sync \notin {"object", "payload"}
  PROVE  EditsSurviveStep
<1> SUFFICES ASSUME NEW q \in requests, q.at > 0, q \notin requests', ~Saves(q), Unsaved
             PROVE  draft' = draft \/ Outdone
  BY DEF EditsSurviveStep
<1>1. PICK r \in requests : Arrives(r)
  <2>1. q.at # 0
    OBVIOUS
  <2> QED BY <2>1, OthersTakeNothing DEF SettingsNext, RequestsGoOn
<1>2. r = q
  <2>1. requests \ {r} \subseteq requests'
    BY <1>1 DEF Arrives, TakeValue, TakeFailure, DropAnswer, TakeSaved, TakeRefused, TakeLost,
                SavedThenReread, SavedWithReply, SavedAndAssumed, SavedAndTrusted, SavedAndLeft,
                Forget, ReadAgain, Ask
  <2> QED BY <2>1
<1>3. CASE TakeValue(r) \/ TakeFailure(r) \/ DropAnswer(r)
  BY <1>3, ReadKeepsEdit
<1>4. CASE TakeSaved(r)
  <2>1. /\ r.kind = "save" /\ r.got \in Values /\ FormAfter(r, r.got) /\ UNCHANGED page
        /\ shown' \in {shown, r.got}
    BY <1>4 DEF TakeSaved, Taken, SavedThenReread, SavedWithReply, SavedAndAssumed,
                SavedAndTrusted, SavedAndLeft, Adopt
  <2>2. page.form.sync # "pending"
    <3> SUFFICES ASSUME page.form.sync = "pending" PROVE FALSE
      OBVIOUS
    <3>1. r.got = r.value
      BY <1>2, <2>1, NoneAssumption DEF EditInv, SavesAreTrue, Failures
    <3>2. draft = r.value
      BY <2>1 DEF EditInv, PendingIsSaved, Unsaved
    <3> QED BY <1>2, <2>1, <3>1, <3>2 DEF Saves
  <2>3. r.got \in Values \cup {None} /\ r.got # None
    BY <2>1, NoneAssumption
  <2> QED BY <2>1, <2>2, <2>3, SaveKeepsEdit
<1>5. CASE TakeRefused(r)
  <2>1. r.kind = "save" /\ FormAfter(r, None) /\ UNCHANGED <<page, shown>>
    BY <1>5 DEF TakeRefused, Taken
  <2>2. None \in Values \cup {None}
    OBVIOUS
  <2> QED BY <2>1, <2>2, SaveKeepsEdit
<1>6. CASE TakeLost(r)
  <2>1. r.kind = "save" /\ UNCHANGED page /\ None \in Values \cup {None}
    BY <1>6 DEF TakeLost, Taken
  <2>2. r.value \in Values /\ r.value # None
    BY <2>1, NoneAssumption DEF EditInv, SavesAreTrue
  <2>3. CASE page.hook.lost = "assume"
    <3>1. shown' = r.value /\ FormAfter(r, r.value)
      BY <1>6, <2>3 DEF TakeLost
    <3>2. page.form.sync = "pending" => draft = r.value
      BY <2>1 DEF EditInv, PendingIsSaved, Unsaved
    <3>3. r.value \in Values \cup {None}
      BY <2>2
    <3> QED BY <2>1, <2>2, <3>1, <3>2, <3>3, SaveKeepsEdit
  <2>4. CASE page.hook.lost # "assume"
    <3>1. shown' = shown /\ FormAfter(r, None)
      BY <1>6, <2>4 DEF TakeLost
    <3> QED BY <2>1, <3>1, SaveKeepsEdit
  <2> QED BY <2>3, <2>4
<1> QED BY <1>1, <1>3, <1>4, <1>5, <1>6 DEF Arrives

(* An edit that was not saved outlives every answer, in any order and with *)
(* any number of reads and saves in flight, in all forms but the two kinds *)
(* that say or turn out to do otherwise.                                   *)
THEOREM EditsAreKept == SettingsSpec => EditsSurvive
<1>1. EditInv /\ [SettingsNext]_settingsVars
        => [page.form.sync \notin {"object", "payload"} => EditsSurviveStep]_settingsVars
  BY EditsSurviveNext
<1> QED BY <1>1, SettingsInitInv, SettingsNextInv, PTL DEF SettingsSpec, EditsSurvive

-----------------------------------------------------------------------------
(* Truth.  As long as nobody else changed the setting since the last read, *)
(* a read will still be answered, or there is a moment t in the order of   *)
(* answers from which on all answers told what is stored, and the page     *)
(* will show one of these, or knows that it does not.                      *)
Repair == due \/ \E r \in requests : r.at = 0 /\ r.kind # "save"

TrueSince(t) ==
  /\ \A r \in requests : r.at >= t /\ r.got \in Values => r.got = stored
  /\ shownAt >= t => shown = stored

Comes(t) ==
  IF page.hook.ordered
  THEN \/ reordered
       \/ \E r \in requests : r.at = t /\ r.n > applied
       \/ shownAt >= t
       \/ told /\ newest >= t
  ELSE (\E r \in requests : r.at = t) \/ newest >= t

TruthInv == behind \/ Repair \/ \E t \in Nat \ {0} : TrueSince(t) /\ Comes(t)

(* With sequence numbers the order of asking is the order of answering,    *)
(* unless the device turned it round.                                      *)
Numbers ==
  /\ \A r \in requests : r.n <= asked /\ r.at <= answered
  /\ \A q, r \in requests : q.n = r.n => q = r
  /\ shownAt <= answered /\ applied <= asked
InTurn ==
  page.hook.ordered /\ ~reordered =>
    /\ \A r \in requests : r.at = 0 => r.n > applied
    /\ \A r \in requests : r.at > 0 /\ r.n > applied => r.at > shownAt
    /\ \A q, r \in requests : q.n < r.n /\ r.at > 0 => q.at > 0 /\ q.at < r.at

PageInv == EditInv /\ Numbers /\ InTurn /\ TruthInv

LEMMA RequestTypes ==
  ASSUME EditInv
  PROVE  /\ \A r \in requests : r.n \in Nat /\ r.at \in Nat
         /\ asked \in Nat /\ answered \in Nat /\ applied \in Nat /\ shownAt \in Nat /\ newest \in Nat
BY DEF EditInv, SettingsTypeOK, Requests

LEMMA PageInitInv == SettingsInit => PageInv
<1> SUFFICES ASSUME SettingsInit PROVE PageInv
  OBVIOUS
<1>1. EditInv
  BY SettingsInitInv
<1>2. /\ \A r \in requests : r.n = 1 /\ r.at = 0 /\ r.kind = "read"
      /\ \A q, r \in requests : q = r
      /\ \E r \in requests : TRUE
      /\ asked = 1 /\ answered = 0 /\ applied = 0 /\ shownAt = 0
  BY DEF SettingsInit, OpenOn
<1>3. Numbers /\ InTurn
  BY <1>2 DEF Numbers, InTurn
<1>4. Repair
  BY <1>2 DEF Repair
<1> QED BY <1>1, <1>3, <1>4 DEF PageInv, TruthInv

(* A request more.                                                         *)
LEMMA AskTruth ==
  ASSUME PageInv, NEW q \in Requests, requests' = requests \cup {q},
         q.n = asked + 1, q.at = 0, asked' = asked + 1,
         UNCHANGED <<page, stored, answered, shown, applied, shownAt, newest, reordered, told, behind>>,
         due => due' \/ q.kind # "save"
  PROVE  Numbers' /\ InTurn' /\ TruthInv'
<1>t. /\ \A r \in requests : r.n \in Nat /\ r.at \in Nat
      /\ asked \in Nat /\ answered \in Nat /\ applied \in Nat /\ shownAt \in Nat /\ newest \in Nat
  BY RequestTypes DEF PageInv
<1>1. Numbers'
  BY <1>t DEF PageInv, Numbers
<1>2. InTurn'
  BY <1>t DEF PageInv, Numbers, InTurn
<1>3. Repair => Repair'
  BY DEF Repair
<1>4. ASSUME NEW t \in Nat \ {0}, TrueSince(t), Comes(t) PROVE TrueSince(t)' /\ Comes(t)'
  BY <1>4, <1>t DEF TrueSince, Comes
<1>5. TruthInv'
  BY <1>3, <1>4 DEF PageInv, TruthInv
<1> QED BY <1>1, <1>2, <1>5

(* An answer of the device: it is the newest, and true.                    *)
LEMMA RespondTruth ==
  ASSUME PageInv, NEW r \in requests, AnswerRead(r) \/ AnswerSave(r)
  PROVE  Numbers' /\ InTurn' /\ TruthInv'
<1>t. /\ \A q \in requests : q.n \in Nat /\ q.at \in Nat
      /\ asked \in Nat /\ answered \in Nat /\ applied \in Nat /\ shownAt \in Nat /\ newest \in Nat
      /\ requests \subseteq Requests
  BY RequestTypes DEF PageInv, EditInv, SettingsTypeOK
<1>1. PICK got \in Values \cup Failures :
        Respond(r, got) /\ r.at = 0 /\ (got \in Values => got = stored')
  BY NoneAssumption DEF AnswerRead, AnswerSave, PageInv, EditInv, SettingsTypeOK, SavesAreTrue, Failures
<1> DEFINE a == [r EXCEPT !.at = answered + 1, !.got = got]
<1>2. a.n = r.n /\ a.at = answered + 1 /\ a.got = got
  BY <1>t DEF Requests
<1>3. /\ answered' = answered + 1 /\ requests' = (requests \ {r}) \cup {a}
      /\ reordered' = (reordered \/ \E q \in requests : q.n < r.n /\ q.at = 0)
      /\ UNCHANGED <<page, asked, applied, shown, shownAt>>
  BY <1>1 DEF Respond, hook
<1> HIDE DEF a
<1>4. Numbers'
  BY <1>t, <1>2, <1>3 DEF PageInv, Numbers
<1>5. InTurn'
  <2> SUFFICES ASSUME page.hook.ordered, ~reordered,
                      \A q \in requests : q.n < r.n => q.at # 0
               PROVE  InTurn'
    BY <1>3 DEF InTurn
  <2>1. \A q \in requests : q.n > r.n => q.at = 0
    BY <1>1, <1>t DEF PageInv, InTurn
  <2>2. r.n > applied
    BY <1>1 DEF PageInv, InTurn
  <2>3. \A q \in requests' : q.at = 0 => q.n > applied'
    BY <1>2, <1>3, <1>t DEF PageInv, InTurn
  <2>4. \A q \in requests' : q.at > 0 /\ q.n > applied' => q.at > shownAt'
    BY <1>2, <1>3, <1>t DEF PageInv, InTurn, Numbers
  <2>5. \A p, q \in requests' : p.n < q.n /\ q.at > 0 => p.at > 0 /\ p.at < q.at
    BY <1>2, <1>3, <1>t, <2>1 DEF PageInv, InTurn, Numbers
  <2> QED BY <2>3, <2>4, <2>5 DEF InTurn
<1>6. PICK t \in Nat \ {0} : t = answered + 1
  BY <1>t
<1>7. TrueSince(t)'
  BY <1>1, <1>2, <1>3, <1>6, <1>t DEF TrueSince, PageInv, Numbers
<1>8. Comes(t)'
  <2>1. page.hook.ordered /\ ~reordered => r.n > applied
    BY <1>1 DEF PageInv, InTurn
  <2>2. (reordered => reordered') /\ page' = page /\ applied' = applied
    BY <1>3
  <2>3. a \in requests' /\ a.at = t /\ a.n = r.n
    BY <1>2, <1>3, <1>6
  <2> QED BY <2>1, <2>2, <2>3 DEF Comes
<1>9. TruthInv'
  BY <1>7, <1>8 DEF TruthInv
<1> QED BY <1>4, <1>5, <1>9

(* An answer that arrives: r leaves, and what it brought is shown, or the  *)
(* page goes on to read again, or it knows that something failed.          *)
Takes(r) ==
  /\ r.at > 0
  /\ \/ requests' = requests \ {r} /\ asked' = asked
     \/ /\ \E q \in Requests : /\ requests' = (requests \ {r}) \cup {q}
                               /\ q.n = asked + 1 /\ q.at = 0
        /\ asked' = asked + 1
  /\ newest' = Later(newest, r.at)
  /\ UNCHANGED <<page, stored, answered, reordered>>
  /\ (due => due') /\ (behind => behind')
  /\ applied' \in {applied, Later(applied, r.n)}
  /\ shownAt' \in {shownAt, r.at}
  /\ page.hook.ordered /\ shownAt' # shownAt => r.n > applied /\ applied' = r.n

Brings(r) ==
  \/ Repair'
  \/ /\ r.got \in Values /\ shown' = r.got /\ shownAt' = r.at
     /\ page.hook.ordered => r.n > applied /\ applied' = r.n
     /\ told => told' \/ r.at >= newest
  \/ /\ UNCHANGED <<shown, shownAt>>
     /\ told => told'
     /\ page.hook.ordered => told' \/ (r.n <= applied /\ applied' = applied)

LEMMA TakesInTurn ==
  ASSUME PageInv, NEW r \in requests, Takes(r)
  PROVE  Numbers' /\ InTurn'
<1>t. /\ \A q \in requests : q.n \in Nat /\ q.at \in Nat
      /\ asked \in Nat /\ answered \in Nat /\ applied \in Nat /\ shownAt \in Nat /\ newest \in Nat
  BY RequestTypes DEF PageInv
<1>1. Numbers'
  BY <1>t DEF PageInv, Numbers, Takes, Later
<1>2. InTurn'
  <2> SUFFICES ASSUME page.hook.ordered, ~reordered PROVE InTurn'
    BY DEF InTurn, Takes
  <2>1. \A p, q \in requests : p.n < q.n /\ q.at > 0 => p.at > 0 /\ p.at < q.at
    BY DEF PageInv, InTurn
  <2>2. /\ \A q \in requests : q.at = 0 => q.n > applied
        /\ \A q \in requests : q.at > 0 /\ q.n > applied => q.at > shownAt
    BY DEF PageInv, InTurn
  <2>3. \A q \in requests : q.n = r.n => q = r
    BY DEF PageInv, Numbers
  <2>4. applied' = applied \/ (applied' = r.n /\ r.n > applied)
    BY <1>t DEF Takes, Later
  <2>5. \A q \in requests' : (q \in requests /\ q # r) \/ (q.n = asked + 1 /\ q.at = 0)
    <3>1. CASE requests' = requests \ {r}
      BY <3>1
    <3>2. ASSUME NEW p \in Requests, requests' = (requests \ {r}) \cup {p},
                 p.n = asked + 1, p.at = 0
          PROVE  \A q \in requests' : (q \in requests /\ q # r) \/ (q.n = asked + 1 /\ q.at = 0)
      BY <3>2
    <3> QED BY <3>1, <3>2, Zenon DEF Takes
  <2>6. r.n <= asked /\ applied <= asked /\ \A q \in requests : q.n <= asked
    BY DEF PageInv, Numbers
  <2>7. r.at > 0 /\ shownAt' \in {shownAt, r.at}
    BY DEF Takes
  <2>8. \A q \in requests' : q.at = 0 => q.n > applied'
    <3> SUFFICES ASSUME NEW q \in requests', q.at = 0 PROVE q.n > applied'
      OBVIOUS
    <3>1. CASE q.n = asked + 1
      BY <1>t, <2>4, <2>6, <3>1
    <3>2. CASE q \in requests /\ q # r
      <4>1. ~(q.n < r.n) /\ q.n # r.n
        BY <2>1, <2>3, <2>7, <3>2
      <4> QED BY <1>t, <2>2, <2>4, <3>2, <4>1
    <3> QED BY <2>5, <3>1, <3>2
  <2>9. \A q \in requests' : q.at > 0 /\ q.n > applied' => q.at > shownAt'
    <3> SUFFICES ASSUME NEW q \in requests', q.at > 0, q.n > applied' PROVE q.at > shownAt'
      OBVIOUS
    <3>1. q \in requests /\ q # r
      BY <2>5
    <3>2. CASE shownAt' = shownAt
      BY <1>t, <2>2, <2>4, <3>1, <3>2
    <3>3. CASE shownAt' # shownAt
      <4>1. applied' = r.n /\ shownAt' = r.at
        BY <3>3 DEF Takes
      <4> QED BY <2>1, <3>1, <4>1
    <3> QED BY <3>2, <3>3
  <2>10. \A p, q \in requests' : p.n < q.n /\ q.at > 0 => p.at > 0 /\ p.at < q.at
    BY <1>t, <2>1, <2>5, <2>6
  <2> QED BY <2>8, <2>9, <2>10 DEF InTurn
<1> QED BY <1>1, <1>2

LEMMA TakesTruth ==
  ASSUME PageInv, NEW r \in requests, Takes(r), Brings(r)
  PROVE  TruthInv'
<1>t. /\ \A q \in requests : q.n \in Nat /\ q.at \in Nat
      /\ asked \in Nat /\ answered \in Nat /\ applied \in Nat /\ shownAt \in Nat /\ newest \in Nat
  BY RequestTypes DEF PageInv
<1>r. /\ newest' \in Nat /\ newest' >= newest /\ newest' >= r.at /\ r.at > 0
      /\ requests \ {r} \subseteq requests' /\ page' = page /\ stored' = stored
      /\ reordered' = reordered
  BY <1>t DEF Takes, Later
<1>1. CASE behind
  BY <1>1 DEF Takes, TruthInv
<1>2. CASE Repair \/ Repair'
  <2>1. Repair => Repair'
    BY <1>r DEF Repair, Takes
  <2> QED BY <1>2, <2>1 DEF TruthInv
<1>3. ASSUME NEW t \in Nat \ {0}, TrueSince(t), Comes(t), ~Repair'
      PROVE  TruthInv'
  <2>1. TrueSince(t)'
    <3>1. \A q \in requests' : q.at >= t /\ q.got \in Values => q.got = stored
      BY <1>3, <1>t DEF Takes, TrueSince
    <3>2. shownAt' >= t => shown' = stored
      <4>1. CASE UNCHANGED <<shown, shownAt>>
        BY <1>3, <4>1 DEF TrueSince
      <4>2. CASE r.got \in Values /\ shown' = r.got /\ shownAt' = r.at
        BY <1>3, <4>2 DEF TrueSince
      <4> QED BY <1>3, <4>1, <4>2 DEF Brings
    <3> QED BY <1>r, <3>1, <3>2 DEF TrueSince
  <2>2. Comes(t)'
    <3>1. CASE ~page.hook.ordered
      <4>1. (\E q \in requests' : q.at = t) \/ newest' >= t
        BY <1>3, <1>t, <1>r, <3>1 DEF Comes
      <4> QED BY <1>r, <3>1, <4>1 DEF Comes
    <3>2. CASE page.hook.ordered /\ reordered
      BY <1>r, <3>2 DEF Comes
    <3>3. CASE page.hook.ordered /\ ~reordered
      <4>1. /\ \A q \in requests : q.n < r.n => q.at < r.at
            /\ r.n > applied => r.at > shownAt
            /\ \A q \in requests : q.n = r.n => q = r
        BY <1>r, <3>3 DEF PageInv, InTurn, Numbers
      <4>2. CASE \E q \in requests : q.at = t /\ q.n > applied
        <5>1. PICK q \in requests : q.at = t /\ q.n > applied
          BY <4>2
        <5>2. CASE q.n > r.n
          <6>1. q \in requests' /\ q.n > applied'
            BY <1>t, <1>r, <5>1, <5>2 DEF Takes, Later
          <6> QED BY <1>r, <3>3, <5>1, <6>1 DEF Comes
        <5>3. CASE q.n <= r.n
          <6>1. r.at >= t /\ r.n > applied
            BY <1>t, <4>1, <5>1, <5>3
          <6>2. shownAt' >= t \/ (told' /\ newest' >= t)
            BY <1>3, <1>t, <1>r, <3>3, <6>1 DEF Brings
          <6> QED BY <1>r, <3>3, <6>2 DEF Comes
        <5> QED BY <1>t, <5>2, <5>3
      <4>3. CASE shownAt >= t
        <5>1. shownAt' >= shownAt
          BY <1>3, <1>t, <3>3, <4>1 DEF Brings
        <5>2. shownAt' >= t /\ shownAt' \in Nat
          BY <1>t, <4>3, <5>1 DEF Takes
        <5> QED BY <1>r, <3>3, <5>2 DEF Comes
      <4>4. CASE told /\ newest >= t
        <5>1. shownAt' >= t \/ (told' /\ newest' >= t)
          BY <1>3, <1>t, <1>r, <4>4 DEF Brings
        <5> QED BY <1>r, <3>3, <5>1 DEF Comes
      <4> QED BY <1>3, <3>3, <4>2, <4>3, <4>4 DEF Comes
    <3> QED BY <3>1, <3>2, <3>3
  <2> QED BY <2>1, <2>2 DEF TruthInv
<1> QED BY <1>1, <1>2, <1>3 DEF PageInv, TruthInv

(* Each answer takes, and brings.                                          *)
LEMMA ReadTruth ==
  ASSUME PageInv, NEW r \in requests, TakeValue(r) \/ TakeFailure(r) \/ DropAnswer(r)
  PROVE  Takes(r) /\ Brings(r)
<1>t. /\ r.n \in Nat /\ r.at \in Nat /\ applied \in Nat /\ newest \in Nat
      /\ page.hook.ordered => page.hook.quiet = "none"
  BY RequestTypes, PageKinds DEF PageInv, EditInv, SettingsTypeOK
<1>1. CASE TakeValue(r)
  <2>1. /\ r.at > 0 /\ r.got \in Values /\ Counts(r) /\ Mark(r)
        /\ requests' = requests \ {r} /\ asked' = asked
        /\ shown' = r.got /\ shownAt' = r.at
        /\ newest' = Later(newest, r.at)
        /\ UNCHANGED <<page, stored, answered, reordered, due, behind>>
    BY <1>1 DEF TakeValue, Taken, device
  <2>2. told => told' \/ r.at >= newest
    <3>1. told' = (told /\ r.at < newest)
      BY <1>1 DEF TakeValue
    <3>2. r.at < newest \/ r.at >= newest
      BY <1>t
    <3> QED BY <3>1, <3>2, Zenon
  <2>3. Takes(r)
    BY <1>t, <2>1 DEF Takes, Counts, Mark, Later
  <2>4. Brings(r)
    BY <1>t, <2>1, <2>2 DEF Brings, Counts, Mark, Later
  <2> QED BY <2>3, <2>4
<1>2. CASE TakeFailure(r)
  <2>1. /\ r.at > 0 /\ Counts(r) /\ Mark(r)
        /\ requests' = requests \ {r} /\ asked' = asked
        /\ UNCHANGED <<shown, shownAt>>
        /\ newest' = Later(newest, r.at)
        /\ UNCHANGED <<page, stored, answered, reordered>>
    BY <1>2 DEF TakeFailure, Taken, device, form
  <2>2. (due => due') /\ (behind => behind') /\ (told => told')
    BY <1>2, Zenon DEF TakeFailure
  <2>3. page.hook.ordered => told'
    <3>1. page.hook.quiet = "none" => ~Silent(r)
      BY DEF Silent
    <3>2. ~Silent(r) => told'
      BY <1>2, Zenon DEF TakeFailure
    <3> QED BY <1>t, <3>1, <3>2
  <2>4. Takes(r)
    BY <1>t, <2>1, <2>2 DEF Takes, Counts, Mark, Later
  <2> QED BY <2>1, <2>2, <2>3, <2>4 DEF Brings
<1>3. CASE DropAnswer(r)
  <2>1. /\ r.at > 0 /\ ~Counts(r)
        /\ requests' = requests \ {r} /\ asked' = asked
        /\ UNCHANGED <<shown, shownAt, applied, due, told, behind>>
        /\ newest' = Later(newest, r.at)
        /\ UNCHANGED <<page, stored, answered, reordered>>
    BY <1>3 DEF DropAnswer, Taken, device, form
  <2> QED BY <1>t, <2>1 DEF Takes, Brings, Counts, Later
<1> QED BY <1>1, <1>2, <1>3

(* A page that reads again repairs itself.                                 *)
LEMMA ReadsAgain ==
  ASSUME PageInv, NEW r \in requests, NEW kind \in {"read", "check"}, ReadAgain(r, kind)
  PROVE  /\ Repair'
         /\ \E q \in Requests : /\ requests' = (requests \ {r}) \cup {q}
                                /\ q.n = asked + 1 /\ q.at = 0
         /\ asked' = asked + 1
<1>1. requests \subseteq Requests /\ asked \in Nat
  BY DEF PageInv, EditInv, SettingsTypeOK
<1>2. /\ requests \ {r} \in SUBSET requests /\ kind \in Kinds /\ kind # "save"
      /\ None \in Values \cup {None}
  BY DEF Kinds
<1>3. PICK quiet \in BOOLEAN : Ask(requests \ {r}, kind, quiet, None, None)
  BY DEF ReadAgain
<1>4. PICK q \in Requests : /\ requests' = (requests \ {r}) \cup {q}
                            /\ q.kind = kind /\ q.at = 0 /\ q.n = asked + 1
  BY <1>1, <1>2, <1>3, AskIs
<1>5. asked' = asked + 1
  BY <1>1, <1>2, <1>3, AskIs
<1>6. q \in requests' /\ q.at = 0 /\ q.kind # "save"
  BY <1>2, <1>4
<1> QED BY <1>4, <1>5, <1>6 DEF Repair

LEMMA SavedTruth ==
  ASSUME PageInv, NEW r \in requests, TakeSaved(r)
  PROVE  Takes(r) /\ Brings(r)
<1>t. /\ r.n \in Nat /\ r.at \in Nat /\ applied \in Nat /\ newest \in Nat
      /\ page.hook.ordered => page.hook.saved \subseteq {"reread", "reply"}
  BY RequestTypes, PageKinds DEF PageInv, EditInv, SettingsTypeOK
<1>1. /\ r.at > 0 /\ r.got \in Values
      /\ newest' = Later(newest, r.at)
      /\ UNCHANGED <<page, stored, answered, reordered, told, behind>>
  BY DEF TakeSaved, Taken, device
<1>2. CASE SavedThenReread(r)
  <2>1. ReadAgain(r, "check") /\ UNCHANGED <<shown, shownAt, due, applied>>
    BY <1>2 DEF SavedThenReread
  <2>2. "check" \in {"read", "check"}
    OBVIOUS
  <2> QED BY <1>1, <2>1, <2>2, ReadsAgain DEF Takes, Brings
<1>3. CASE SavedWithReply(r)
  <2>1. requests' = requests \ {r} /\ asked' = asked /\ UNCHANGED due
    BY <1>3 DEF SavedWithReply, Forget
  <2>2. CASE Counts(r)
    <3>1. shown' = r.got /\ shownAt' = r.at /\ Mark(r)
      BY <1>3, <2>2 DEF SavedWithReply, Adopt
    <3> QED BY <1>1, <1>t, <2>1, <2>2, <3>1 DEF Takes, Brings, Counts, Mark, Later
  <2>3. CASE ~Counts(r)
    <3>1. UNCHANGED <<shown, shownAt, applied>>
      BY <1>3, <2>3 DEF SavedWithReply
    <3> QED BY <1>1, <1>t, <2>1, <2>3, <3>1 DEF Takes, Brings, Counts
  <2> QED BY <2>2, <2>3
<1>4. CASE SavedAndAssumed(r)
  <2>1. /\ ~page.hook.ordered
        /\ ReadAgain(r, "read") \/ ReadAgain(r, "check")
        /\ shownAt' = r.at /\ UNCHANGED <<due, applied>>
    BY <1>4, <1>t DEF SavedAndAssumed, Adopt
  <2>2. "read" \in {"read", "check"} /\ "check" \in {"read", "check"}
    OBVIOUS
  <2> QED BY <1>1, <2>1, <2>2, ReadsAgain DEF Takes, Brings
<1>5. CASE SavedAndTrusted(r)
  <2>1. /\ ~page.hook.ordered
        /\ requests' = requests \ {r} /\ asked' = asked
        /\ shown' = r.got /\ shownAt' = r.at /\ UNCHANGED applied
    BY <1>5, <1>t DEF SavedAndTrusted, Adopt, Forget
  <2>2. due => due'
    BY <1>5, Zenon DEF SavedAndTrusted
  <2> QED BY <1>1, <2>1, <2>2 DEF Takes, Brings
<1>6. CASE SavedAndLeft(r)
  <2>1. /\ ~page.hook.ordered
        /\ requests' = requests \ {r} /\ asked' = asked
        /\ UNCHANGED <<shown, shownAt, due, applied>>
    BY <1>6, <1>t DEF SavedAndLeft, Forget
  <2> QED BY <1>1, <2>1 DEF Takes, Brings
<1> QED BY <1>2, <1>3, <1>4, <1>5, <1>6 DEF TakeSaved

LEMMA UnsavedTruth ==
  ASSUME PageInv, NEW r \in requests, TakeRefused(r) \/ TakeLost(r)
  PROVE  Takes(r) /\ Brings(r)
<1>t. /\ page.hook.ordered => page.hook.lost = "error"
      /\ "check" \in {"read", "check"}
  BY PageKinds DEF PageInv, EditInv, SettingsTypeOK
<1>1. CASE TakeRefused(r)
  <2>1. /\ r.at > 0 /\ newest' = Later(newest, r.at)
        /\ UNCHANGED <<page, stored, answered, reordered, behind, due, applied, shown, shownAt>>
    BY <1>1 DEF TakeRefused, Taken, device
  <2>2. told'
    BY <1>1, Zenon DEF TakeRefused
  <2>3. ReadAgain(r, "check") \/ (requests' = requests \ {r} /\ asked' = asked)
    BY <1>1 DEF TakeRefused, Forget
  <2> QED BY <1>t, <2>1, <2>2, <2>3, ReadsAgain DEF Takes, Brings
<1>2. CASE TakeLost(r)
  <2>1. /\ r.at > 0 /\ newest' = Later(newest, r.at)
        /\ requests' = requests \ {r} /\ asked' = asked
        /\ UNCHANGED <<page, stored, answered, reordered, behind, applied>>
    BY <1>2 DEF TakeLost, Taken, device, Forget
  <2>2. CASE page.hook.lost = "assume"
    <3>1. shownAt' = r.at
      BY <1>2, <2>2 DEF TakeLost
    <3>2. due'
      BY <1>2, <2>2, Zenon DEF TakeLost
    <3>3. Repair'
      BY <3>2 DEF Repair
    <3> QED BY <1>t, <2>1, <2>2, <3>1, <3>2, <3>3 DEF Takes, Brings
  <2>3. CASE page.hook.lost # "assume"
    <3>1. UNCHANGED <<shown, shownAt, due>>
      BY <1>2, <2>3 DEF TakeLost
    <3>2. told'
      BY <1>2, <2>3, Zenon DEF TakeLost
    <3> QED BY <2>1, <3>1, <3>2 DEF Takes, Brings
  <2> QED BY <2>2, <2>3
<1> QED BY <1>1, <1>2

-----------------------------------------------------------------------------
(* Steps that ask, and steps that touch nothing of this.                   *)
LEMMA AskingTruth ==
  ASSUME PageInv, Refresh \/ Poll \/ TimerReads \/ Save \/ PostQueued
                    \/ \E v \in Values : Flip(v) \/ Toggle(v)
  PROVE  Numbers' /\ InTurn' /\ TruthInv'
<1>t. /\ requests \subseteq Requests /\ asked \in Nat
      /\ requests \in SUBSET requests
      /\ None \in Values \cup {None}
      /\ draft \in Values \cup {None}
      /\ "read" \in Kinds /\ "save" \in Kinds /\ "read" # "save"
  BY DEF PageInv, EditInv, SettingsTypeOK, Kinds
<1>1. /\ UNCHANGED <<page, stored, answered, shown, applied, shownAt, newest, reordered, told, behind>>
      /\ (due => due') \/ TimerReads
  <2>1. UNCHANGED <<page, device, answered, shown, applied, history>>
    BY DEF Refresh, Poll, TimerReads, Save, PostQueued, Flip, Toggle, Post, hook
  <2>2. UNCHANGED due \/ TimerReads
    BY DEF Refresh, Poll, Save, PostQueued, Flip, Toggle, Post, hook
  <2>3. (due => due') \/ TimerReads
    BY <2>2, Zenon
  <2> QED BY <2>1, <2>3 DEF device, history
<1>2. PICK kind \in {"read", "save"}, quiet \in BOOLEAN,
           value \in Values \cup {None}, back \in Values \cup {None} :
        Ask(requests, kind, quiet, value, back) /\ (TimerReads => kind = "read")
  <2>1. CASE Refresh
    <3>1. PICK quiet \in BOOLEAN : Ask(requests, "read", quiet, None, None)
      BY <2>1 DEF Refresh
    <3> QED BY <1>t, <3>1
  <2>2. CASE Poll \/ TimerReads
    <3>1. PICK quiet \in BOOLEAN : Ask(requests, "read", quiet, None, None)
      BY <2>2 DEF Poll, TimerReads
    <3> QED BY <1>t, <3>1
  <2>3. CASE ~TimerReads /\ (Save \/ PostQueued \/ \E v \in Values : Flip(v) \/ Toggle(v))
    <3>1. PICK quiet \in BOOLEAN, value \in Values \cup {None}, back \in Values \cup {None} :
            Ask(requests, "save", quiet, value, back)
      BY <1>t, <2>3 DEF Save, PostQueued, Flip, Toggle, Post
    <3> QED BY <1>t, <2>3, <3>1
  <2> QED BY <2>1, <2>2, <2>3
<1>3. kind \in Kinds
  BY DEF Kinds
<1>4. PICK q \in Requests : /\ requests' = requests \cup {q}
                            /\ q.kind = kind /\ q.at = 0 /\ q.n = asked + 1
  BY <1>t, <1>2, <1>3, AskIs
<1>5. asked' = asked + 1
  BY <1>t, <1>2, <1>3, AskIs
<1>6. due => due' \/ q.kind # "save"
  BY <1>t, <1>1, <1>2, <1>4
<1> QED BY <1>1, <1>4, <1>5, <1>6, AskTruth

LEMMA NoTouchTruth ==
  ASSUME PageInv, UNCHANGED <<page, requests, asked, answered, shown, applied, shownAt, newest,
                              reordered, told, due>>,
         UNCHANGED <<stored, behind>> \/ behind'
  PROVE  Numbers' /\ InTurn' /\ TruthInv'
<1>1. Numbers' /\ InTurn'
  BY DEF PageInv, Numbers, InTurn
<1>2. CASE behind'
  BY <1>1, <1>2, Zenon DEF TruthInv
<1>3. CASE UNCHANGED <<stored, behind>>
  <2>1. behind => behind'
    BY <1>3, Zenon
  <2>2. Repair => Repair'
    BY Zenon DEF Repair
  <2>3. ASSUME NEW t \in Nat \ {0}, TrueSince(t), Comes(t) PROVE TrueSince(t)' /\ Comes(t)'
    <3>1. TrueSince(t)'
      BY <1>3, <2>3 DEF TrueSince
    <3>2. Comes(t)'
      BY <2>3, Zenon DEF Comes
    <3> QED BY <3>1, <3>2
  <2> QED BY <1>1, <2>1, <2>2, <2>3, Zenon DEF PageInv, TruthInv
<1> QED BY <1>1, <1>2, <1>3

LEMMA PageNextInv == PageInv /\ [SettingsNext]_settingsVars => PageInv'
<1> SUFFICES ASSUME PageInv, [SettingsNext]_settingsVars PROVE Numbers' /\ InTurn' /\ TruthInv'
  BY SettingsNextInv DEF PageInv
<1>1. CASE User \/ Timers
  <2>1. ASSUME Discard \/ \E v \in Values : Edit(v) \/ EditAndQueue(v)
        PROVE  UNCHANGED <<page, requests, asked, answered, shown, applied, shownAt, newest,
                           reordered, told, due, stored, behind>>
    BY <2>1 DEF Discard, Edit, EditAndQueue, device, hook, history
  <2> QED BY <1>1, <2>1, AskingTruth, NoTouchTruth DEF User, Timers
<1>2. ASSUME NEW v \in Values, OtherChange(v) PROVE Numbers' /\ InTurn' /\ TruthInv'
  <2>1. UNCHANGED <<page, requests, asked, answered, shown, applied, shownAt, newest,
                    reordered, told, due>>
    BY <1>2 DEF OtherChange, hook
  <2>2. behind'
    BY <1>2, Zenon DEF OtherChange
  <2> QED BY <2>1, <2>2, NoTouchTruth
<1>3. ASSUME NEW r \in requests, AnswerRead(r) \/ AnswerSave(r)
      PROVE  Numbers' /\ InTurn' /\ TruthInv'
  BY <1>3, RespondTruth
<1>4. ASSUME NEW r \in requests, Arrives(r) PROVE Numbers' /\ InTurn' /\ TruthInv'
  <2>1. Takes(r) /\ Brings(r)
    BY <1>4, ReadTruth, SavedTruth, UnsavedTruth DEF Arrives
  <2> QED BY <2>1, TakesInTurn, TakesTruth
<1>5. CASE UNCHANGED settingsVars
  <2>1. UNCHANGED <<page, requests, asked, answered, shown, applied, shownAt, newest,
                    reordered, told, due, stored, behind>>
    BY <1>5 DEF settingsVars, device, hook, history
  <2> QED BY <2>1, NoTouchTruth
<1> QED BY <1>1, <1>2, <1>3, <1>4, <1>5 DEF SettingsNext, RequestsGoOn

LEMMA PageIsTrue == PageInv => SettledPageIsTrue
<1> SUFFICES ASSUME PageInv, Settled, ~told, ~behind, ~Overtaken PROVE shown = stored
  BY DEF SettledPageIsTrue
<1>1. ~Repair
  BY DEF Repair, Settled
<1>2. PICK t \in Nat \ {0} : TrueSince(t) /\ Comes(t)
  BY <1>1 DEF PageInv, TruthInv
<1>3. shownAt \in Nat /\ newest \in Nat /\ requests = {}
  BY DEF PageInv, EditInv, SettingsTypeOK, Settled
<1>4. shownAt >= t
  BY <1>2, <1>3 DEF Comes, Overtaken
<1> QED BY <1>2, <1>4 DEF TrueSince

(* Whatever order requests and answers take, and whoever else changes the  *)
(* setting: a page on which nothing is under way shows what the device     *)
(* has, but for the exceptions that SettledPageIsTrue names.               *)
THEOREM PagesAreTrue == SettingsSpec => []SettledPageIsTrue
BY PageInitInv, PageNextInv, PageIsTrue, PTL DEF SettingsSpec
=============================================================================
