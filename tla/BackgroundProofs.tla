-------------------------- MODULE BackgroundProofs --------------------------
(***************************************************************************)
(* Proofs about the parts that work beside the AT engine: the SMS          *)
(* forwarder, for any messages and settings that SmsAssumption allows; the *)
(* bandwidth collector, for any traffic, number of resets and handlers;    *)
(* the manager of the SSH server, for any handlers, ports and connections; *)
(* and the SIM profiles, for any profiles and number of applies.           *)
(***************************************************************************)
EXTENDS Background, TLAPS

-----------------------------------------------------------------------------
(* The sends that are left, as far as they count: one for each target of   *)
(* due, and none twice.                                                    *)
Covers(s, due) ==
  /\ \A k \in 1..Len(s) : s[k].must => s[k].to \in due
  /\ \A t \in due : \E k \in 1..Len(s) : s[k].must /\ s[k].to = t
  /\ \A j, k \in 1..Len(s) : s[j].must /\ s[k].must /\ s[j].to = s[k].to => j = k

LEMMA CoversBoth ==
  ASSUME NEW s \in Seq(Task), NEW r \in Seq(Task), NEW S, NEW R, S \cap R = {},
         Covers(s, S), Covers(r, R)
  PROVE  s \o r \in Seq(Task) /\ Covers(s \o r, S \cup R)
<1> DEFINE q == s \o r
<1>1. q \in Seq(Task) /\ Len(q) = Len(s) + Len(r)
  OBVIOUS
<1>2. \A k \in 1..Len(s) : q[k] = s[k]
  OBVIOUS
<1>3. \A k \in 1..Len(r) : q[Len(s) + k] = r[k]
  OBVIOUS
<1>4. \A k \in 1..Len(q) : k \in 1..Len(s) \/ (k - Len(s) \in 1..Len(r) /\ q[k] = r[k - Len(s)])
  BY <1>1, <1>3
<1>5. \A k \in 1..Len(s) : k \in 1..Len(q)
  BY <1>1
<1>6. \A k \in 1..Len(r) : Len(s) + k \in 1..Len(q)
  BY <1>1
<1> HIDE DEF q
<1>7. \A k \in 1..Len(q) : q[k].must => q[k].to \in S \cup R
  BY <1>2, <1>4 DEF Covers
<1>8. \A t \in S \cup R : \E k \in 1..Len(q) : q[k].must /\ q[k].to = t
  <2>1. ASSUME NEW t \in S PROVE \E k \in 1..Len(q) : q[k].must /\ q[k].to = t
    <3>1. PICK k \in 1..Len(s) : s[k].must /\ s[k].to = t
      BY <2>1 DEF Covers
    <3> QED BY <1>2, <1>5, <3>1
  <2>2. ASSUME NEW t \in R PROVE \E k \in 1..Len(q) : q[k].must /\ q[k].to = t
    <3>1. PICK k \in 1..Len(r) : r[k].must /\ r[k].to = t
      BY <2>2 DEF Covers
    <3> QED BY <1>3, <1>6, <3>1
  <2> QED BY <2>1, <2>2
<1>9. ASSUME NEW j \in 1..Len(q), NEW k \in 1..Len(q), q[j].must, q[k].must, q[j].to = q[k].to
      PROVE  j = k
  <2>1. CASE j \in 1..Len(s) /\ k \in 1..Len(s)
    BY <1>2, <1>9, <2>1 DEF Covers
  <2>2. ASSUME NEW a \in 1..Len(s), NEW b \in 1..Len(r), s[a].must, r[b].must, s[a].to = r[b].to
        PROVE  FALSE
    BY <2>2 DEF Covers
  <2>3. CASE j \notin 1..Len(s) /\ k \notin 1..Len(s)
    <3> DEFINE a == j - Len(s)
               b == k - Len(s)
    <3>1. a \in 1..Len(r) /\ q[j] = r[a] /\ b \in 1..Len(r) /\ q[k] = r[b]
      BY <1>4, <2>3
    <3> HIDE DEF a, b
    <3>2. a = b
      BY <1>9, <3>1 DEF Covers
    <3> QED BY <1>1, <3>2 DEF a, b
  <2>4. CASE j \in 1..Len(s) /\ k \notin 1..Len(s)
    BY <1>2, <1>4, <1>9, <2>2, <2>4
  <2>5. CASE j \notin 1..Len(s) /\ k \in 1..Len(s)
    BY <1>2, <1>4, <1>9, <2>2, <2>5
  <2> QED BY <2>1, <2>3, <2>4, <2>5
<1> QED
  BY <1>1, <1>7, <1>8, <1>9 DEF Covers, q

(* What pollOnce has to send for an item covers the targets of the         *)
(* settings.                                                               *)
LEMMA TasksCover ==
  ASSUME cfg.targets \subseteq Targets
  PROVE  Tasks \in Seq(Task) /\ Covers(Tasks, cfg.targets)
<1>1. ASSUME NEW t \in Targets
      PROVE  TaskFor(t) \in Seq(Task) /\ Covers(TaskFor(t), cfg.targets \cap {t})
  <2>1. CASE t \in cfg.targets
    BY <2>1 DEF TaskFor, Covers, Task
  <2>2. CASE t \notin cfg.targets
    BY <2>2 DEF TaskFor, Covers, Task
  <2> QED BY <2>1, <2>2
<1>2. RuleTask \in Seq(Task) /\ Covers(RuleTask, {})
  <2>1. CASE cfg.rule \in Targets
    BY <2>1 DEF RuleTask, Covers, Task
  <2>2. CASE cfg.rule \notin Targets
    BY <2>2 DEF RuleTask, Covers, Task
  <2> QED BY <2>1, <2>2
<1> DEFINE P == cfg.targets \cap {"phone"}
           M == cfg.targets \cap {"mail"}
           W == cfg.targets \cap {"webhook"}
<1>3. TaskFor("phone") \in Seq(Task) /\ Covers(TaskFor("phone"), P)
  BY <1>1 DEF Targets
<1>4. TaskFor("mail") \in Seq(Task) /\ Covers(TaskFor("mail"), M)
  BY <1>1 DEF Targets
<1>5. TaskFor("webhook") \in Seq(Task) /\ Covers(TaskFor("webhook"), W)
  BY <1>1 DEF Targets
<1>6. P \cap M = {} /\ (P \cup M) \cap W = {} /\ (P \cup M \cup W) \cap {} = {}
      /\ P \cup M \cup W \cup {} = cfg.targets
  BY DEF Targets
<1> HIDE DEF P, M, W
<1>7. /\ TaskFor("phone") \o TaskFor("mail") \in Seq(Task)
      /\ Covers(TaskFor("phone") \o TaskFor("mail"), P \cup M)
  BY <1>3, <1>4, <1>6, CoversBoth
<1>8. /\ TaskFor("phone") \o TaskFor("mail") \o TaskFor("webhook") \in Seq(Task)
      /\ Covers(TaskFor("phone") \o TaskFor("mail") \o TaskFor("webhook"), P \cup M \cup W)
  BY <1>5, <1>6, <1>7, CoversBoth
<1>9. Tasks \in Seq(Task) /\ Covers(Tasks, P \cup M \cup W \cup {})
  BY <1>2, <1>6, <1>8, CoversBoth DEF Tasks
<1> QED BY <1>6, <1>9

(* After a send returns, the rest is due.                                  *)
LEMMA TailCovers ==
  ASSUME NEW s \in Seq(Task), s # <<>>, NEW due, Covers(s, due)
  PROVE  /\ Tail(s) \in Seq(Task)
         /\ Covers(Tail(s), IF Head(s).must THEN due \ {Head(s).to} ELSE due)
<1> DEFINE q == Tail(s)
<1>1. q \in Seq(Task) /\ Len(q) = Len(s) - 1 /\ Len(s) \in Nat /\ Len(s) >= 1
  OBVIOUS
<1>2. \A k \in 1..Len(q) : q[k] = s[k + 1] /\ k + 1 \in 1..Len(s)
  BY <1>1
<1>3. \A k \in 1..Len(s) : k = 1 \/ (k - 1 \in 1..Len(q) /\ q[k - 1] = s[k])
  BY <1>1, <1>2
<1>4. Head(s) = s[1] /\ 1 \in 1..Len(s)
  BY <1>1
<1>5. \A k \in 1..Len(s) : s[k] \in Task
  OBVIOUS
<1> HIDE DEF q
<1>6. \A j, k \in 1..Len(q) : q[j].must /\ q[k].must /\ q[j].to = q[k].to => j = k
  BY <1>2 DEF Covers
<1>7. CASE s[1].must
  <2>1. \A k \in 1..Len(q) : q[k].must => q[k].to \in due \ {s[1].to}
    BY <1>1, <1>2, <1>4, <1>7 DEF Covers
  <2>2. \A t \in due \ {s[1].to} : \E k \in 1..Len(q) : q[k].must /\ q[k].to = t
    BY <1>3 DEF Covers
  <2> QED BY <1>1, <1>4, <1>6, <1>7, <2>1, <2>2 DEF Covers, q
<1>8. CASE ~s[1].must
  <2>1. \A k \in 1..Len(q) : q[k].must => q[k].to \in due
    BY <1>2 DEF Covers
  <2>2. \A t \in due : \E k \in 1..Len(q) : q[k].must /\ q[k].to = t
    BY <1>3, <1>8 DEF Covers
  <2> QED BY <1>1, <1>4, <1>6, <1>8, <2>1, <2>2 DEF Covers, q
<1> QED BY <1>7, <1>8

(* The targets that are still to be sent to.                               *)
DueOf(s) == {t \in Targets : \E k \in 1..Len(s) : s[k].must /\ s[k].to = t}

Due == DueOf(left)

LEMMA DueIs ==
  ASSUME NEW s, NEW due \in SUBSET Targets, Covers(s, due) PROVE DueOf(s) = due
BY DEF Covers, DueOf

-----------------------------------------------------------------------------
(* The inductive invariant. Memory holds every mark of the file while the  *)
(* process runs; the item in hand is unmarked, what is unmet of it is      *)
(* still to be sent while no send has failed, and what is still to be sent *)
(* has not been delivered; nothing marked is unmet; and what was delivered *)
(* is marked or in hand.                                                   *)
MarksKept == IF pc = "down" THEN seen = {} ELSE file \subseteq seen

InHand ==
  pc = "sending" =>
    /\ item \notin seen
    /\ Covers(left, Due)
    /\ ok => \A t \in Targets : <<item, t>> \in unmet => t \in Due
    /\ \A t \in Due : <<item, t>> \notin sent

UnmetIsOpen == \A i \in seen \cup file : unmet \cap Of(i) = {}

SentIsKnown ==
  \A i \in Items, t \in Targets :
    <<i, t>> \in sent => i \in seen \cup file \/ (pc = "sending" /\ i = item)

Kept == MarksKept /\ InHand /\ UnmetIsOpen /\ SentIsKnown

-----------------------------------------------------------------------------
(* The types.                                                              *)

LEMMA ListedAreItems ==
  ASSUME SmsTypeOK, NEW how \in [Pools -> {"pdu", "text", "none"}], NEW m \in Messages
  PROVE  Shown(m, how[PoolOf[m]]) \subseteq Items
<1>1. stored[m] \subseteq {1, 2}
  BY DEF SmsTypeOK
<1>2. how[PoolOf[m]] \in {"pdu", "text", "none"}
  BY SmsAssumption DEF SmsAssumption
<1> QED BY <1>1, <1>2 DEF Shown, Items

LEMMA ListingsAre == Listings \subseteq [Pools -> {"pdu", "text", "none"}]
BY DEF Listings

LEMMA ConfigsAre ==
  ASSUME NEW c \in Configs \cup {NoSettings}
  PROVE  c.targets \subseteq Targets
BY SmsAssumption DEF SmsAssumption, NoSettings

(* What an item in hand implies for the steps of a send.                   *)
LEMMA HeadIsTask ==
  ASSUME SmsTypeOK, left # <<>>
  PROVE  Head(left) \in Task /\ Tail(left) \in Seq(Task) /\ Head(left).to \in Targets
         /\ Head(left).must \in BOOLEAN
<1>1. left \in Seq(Task)
  BY DEF SmsTypeOK
<1>2. Head(left) \in Task /\ Tail(left) \in Seq(Task)
  BY <1>1
<1> QED BY <1>2 DEF Task

LEMMA TypesStay == SmsTypeOK /\ [SmsNext]_smsVars => SmsTypeOK'
<1> SUFFICES ASSUME SmsTypeOK, [SmsNext]_smsVars PROVE SmsTypeOK'
  OBVIOUS
<1>a. MaxOutages \in Nat /\ MaxRestarts \in Nat /\ MaxSaves \in Nat
  BY SmsAssumption DEF SmsAssumption
<1> USE DEF world, poll, sending, bounds, history
<1>1. CASE Arrive
  <2>1. \A m \in Messages : Whole(m) \subseteq {1, 2}
    BY DEF Whole
  <2> QED BY <1>1, <2>1 DEF Arrive, SmsTypeOK
<1>2. CASE SaveSettings
  BY <1>2, <1>a DEF SaveSettings, SmsTypeOK
<1>3. CASE Break
  BY <1>3, <1>a DEF Break, SmsTypeOK
<1>4. CASE Recover
  BY <1>4 DEF Recover, SmsTypeOK
<1>5. ASSUME NEW kept \in SUBSET Items, Ends(kept), outages' = outages, saves' = saves,
             restarts' \in 0..MaxRestarts
      PROVE  SmsTypeOK'
  BY <1>5 DEF Ends, SmsTypeOK
<1>6. CASE Stopped
  <2>1. PICK kept \in {file, {}} : Ends(kept)
    BY <1>6 DEF Stopped
  <2>2. kept \in SUBSET Items /\ restarts' \in 0..MaxRestarts
    BY <1>6, <1>a DEF Stopped, SmsTypeOK
  <2> QED BY <1>5, <1>6, <2>1, <2>2 DEF Stopped
<1>7. CASE Panics
  BY <1>5, <1>7 DEF Panics, SmsTypeOK
<1>8. CASE FetchPanics \/ SmsPanics
  BY <1>7, <1>8 DEF FetchPanics, SmsPanics
<1>9. CASE Start \/ Tick
  BY <1>9 DEF Start, Tick, SmsTypeOK
<1>10. CASE Fetch
  <2>1. PICK how \in Listings : todo' = UNION {Shown(m, how[PoolOf[m]]) : m \in Messages}
    BY <1>10 DEF Fetch
  <2>2. todo' \subseteq Items
    BY <2>1, ListingsAre, ListedAreItems
  <2> QED BY <1>10, <2>2 DEF Fetch, SmsTypeOK
<1>11. CASE TimeIsUp
  BY <1>11 DEF TimeIsUp, SmsTypeOK
<1>12. ASSUME NEW i \in todo, Item(i) PROVE SmsTypeOK'
  <2>1. i \in Items
    BY DEF SmsTypeOK
  <2>2. CASE SkipSeen(i) \/ SkipDisabled(i)
    BY <2>1, <2>2 DEF SkipSeen, SkipDisabled, Takes, SmsTypeOK
  <2>3. CASE SeedItem(i) \/ PassOver(i)
    BY <2>1, <2>3 DEF SeedItem, PassOver, Fresh, Takes, MarkSeen, SmsTypeOK
  <2>4. CASE BeginItem(i)
    <3>1. cfg \in Configs \cup {NoSettings}
      BY <2>4 DEF BeginItem, Fresh, Takes, SmsTypeOK
    <3>2. cfg.targets \subseteq Targets
      BY <3>1, ConfigsAre
    <3>3. left' \in Seq(Task)
      BY <2>4, <3>2, TasksCover DEF BeginItem
    <3> QED BY <2>1, <2>4, <3>2, <3>3 DEF BeginItem, Fresh, Takes, SmsTypeOK
  <2> QED BY <1>12, <2>2, <2>3, <2>4 DEF Item
<1>13. CASE EndPoll
  BY <1>13 DEF EndPoll, SmsTypeOK
<1>14. ASSUME pc = "sending", left # <<>>, NEW success \in BOOLEAN, Returns(success),
              unmet' \in SUBSET (Items \X Targets), sent' \in SUBSET (Items \X Targets),
              clock' \in {"fresh", "slow", "over"}
       PROVE  SmsTypeOK'
  BY <1>14, HeadIsTask DEF Returns, SmsTypeOK
<1>15. ASSUME pc = "sending", left # <<>>, Delivered
       PROVE  unmet' \in SUBSET (Items \X Targets) /\ sent' \in SUBSET (Items \X Targets)
  BY <1>15, HeadIsTask DEF Delivered, SmsTypeOK
<1>16. CASE SmsSent \/ MailSent \/ WebhookSent
  <2>1. pc = "sending" /\ left # <<>> /\ Delivered /\ Returns(TRUE) /\ UNCHANGED clock
    BY <1>16 DEF SmsSent, MailSent, WebhookSent, Sending
  <2> QED BY <1>14, <1>15, <2>1 DEF SmsTypeOK
<1>17. CASE MailTrouble
  <2>1. pc = "sending" /\ left # <<>> /\ UNCHANGED clock
    BY <1>17 DEF MailTrouble, Sending
  <2>2. CASE Delivered /\ Returns(TRUE)
    BY <1>14, <1>15, <2>1, <2>2 DEF SmsTypeOK
  <2>3. CASE Returns(FALSE) /\ UNCHANGED history
    BY <1>14, <2>1, <2>3 DEF SmsTypeOK
  <2> QED BY <1>17, <2>2, <2>3 DEF MailTrouble
<1>18. CASE NoMailServer \/ WebhookFails
  <2>1. pc = "sending" /\ left # <<>> /\ Returns(FALSE) /\ UNCHANGED <<clock, history>>
    BY <1>18 DEF NoMailServer, WebhookFails, Sending
  <2> QED BY <1>14, <2>1 DEF SmsTypeOK
<1>19. CASE SmsFails
  <2>1. /\ pc = "sending" /\ left # <<>> /\ clock' \in {"fresh", "slow", "over"}
        /\ unmet' = unmet /\ sent' \in SUBSET (Items \X Targets)
    BY <1>19 DEF SmsFails, AttemptFails, Sending, SmsTypeOK
  <2>2. CASE attempt < 3 /\ Again(attempt + 1)
    BY <2>1, <2>2 DEF Again, SmsTypeOK
  <2>3. CASE Returns(FALSE)
    BY <1>14, <2>1, <2>3 DEF SmsTypeOK
  <2> QED BY <1>19, <2>2, <2>3 DEF SmsFails
<1>20. CASE Finish
  BY <1>20 DEF Finish, MarkSeen, Of, SmsTypeOK
<1>21. CASE UNCHANGED smsVars
  BY <1>21 DEF smsVars, SmsTypeOK
<1>22. CASE Works
  BY <1>9, <1>10, <1>12, <1>13, <1>16, <1>18, <1>19, <1>20, <1>22 DEF Works
<1> QED BY <1>1, <1>2, <1>3, <1>4, <1>6, <1>8, <1>11, <1>17, <1>21, <1>22 DEF SmsNext

-----------------------------------------------------------------------------
(* The rest of the invariant, by the kind of step.                         *)

(* What the marks, the item in hand and the histories hold on to.          *)
held == <<file, seen, pc, item, left, ok, history>>

LEMMA HeldKept == Kept /\ UNCHANGED held => Kept'
BY DEF Kept, held, history, MarksKept, InHand, UnmetIsOpen, SentIsKnown, Covers, Due, DueOf, Of

(* The process ends.                                                       *)
LEMMA EndsKept ==
  ASSUME SmsTypeOK, Kept, NEW kept \in {file, {}}, Ends(kept)
  PROVE  Kept'
<1>1. pc' = "down" /\ seen' = {} /\ file' = kept /\ unmet' = unmet
  BY DEF Ends
<1>2. MarksKept' /\ InHand'
  BY <1>1 DEF MarksKept, InHand
<1>3. UnmetIsOpen'
  BY <1>1 DEF Kept, UnmetIsOpen, Of
<1>4. ASSUME NEW i \in Items, NEW t \in Targets, <<i, t>> \in sent'
      PROVE  i \in kept
  <2>1. <<i, t>> \in sent /\ i \notin (seen \cup file) \ kept /\ i # item
    BY <1>4 DEF Ends
  <2> QED BY <2>1 DEF Kept, SentIsKnown
<1> QED BY <1>1, <1>2, <1>3, <1>4 DEF Kept, SentIsKnown

(* An item is marked, of which nothing is unmet then, and none is in hand  *)
(* any more.                                                               *)
LEMMA MarkKept ==
  ASSUME Kept, NEW i, MarkSeen(i), pc # "down", pc' = "polling",
         unmet' \subseteq unmet, unmet' \cap Of(i) = {}, sent' = sent,
         pc = "sending" => i = item
  PROVE  Kept'
<1>1. seen' = seen \cup {i} /\ file \subseteq file' /\ file' \subseteq file \cup {i}
  BY DEF MarkSeen
<1>2. MarksKept' /\ InHand'
  BY <1>1 DEF Kept, MarksKept, InHand
<1>3. UnmetIsOpen'
  BY <1>1 DEF Kept, UnmetIsOpen, Of
<1>4. SentIsKnown'
  BY <1>1 DEF Kept, SentIsKnown
<1> QED BY <1>2, <1>3, <1>4 DEF Kept

(* A send is over: the rest of the item is still due, as before.           *)
LEMMA ReturnsKept ==
  ASSUME SmsTypeOK, Kept, pc = "sending", left # <<>>, NEW success \in BOOLEAN, Returns(success),
         \/ success /\ Delivered
         \/ ~success /\ unmet' = unmet /\ sent' \subseteq sent
  PROVE  Kept'
<1> DEFINE t == Head(left).to
           must == Head(left).must
<1>1. t \in Targets /\ must \in BOOLEAN /\ left \in Seq(Task) /\ item \in Items /\ ok \in BOOLEAN
  BY HeadIsTask DEF SmsTypeOK
<1>2. pc' = pc /\ item' = item /\ file' = file /\ seen' = seen /\ left' = Tail(left)
      /\ ok' = (ok /\ (success \/ ~must))
  BY DEF Returns, poll
<1>3. Covers(left, Due) /\ Due \subseteq Targets
  BY DEF Kept, InHand, Due, DueOf
<1>4. Covers(left', Due') /\ Due' = IF must THEN Due \ {t} ELSE Due
  <2>1. Covers(left', IF must THEN Due \ {t} ELSE Due)
    BY <1>1, <1>2, <1>3, TailCovers
  <2>2. Due' = IF must THEN Due \ {t} ELSE Due
    BY <2>1, <1>3, DueIs DEF Due
  <2> QED BY <2>1, <2>2
<1>5. unmet' \subseteq unmet /\ sent' \subseteq sent \cup {<<item, t>>}
      /\ (success /\ must => <<item, t>> \notin unmet')
      /\ (~(success /\ must) => sent' \subseteq sent)
  BY DEF Delivered, history
<1> HIDE DEF t, must
<1>6. MarksKept'
  BY <1>2 DEF Kept, MarksKept
<1>7. InHand'
  <2>1. item' \notin seen'
    BY <1>2 DEF Kept, InHand
  <2>2. ok' => \A u \in Targets : <<item', u>> \in unmet' => u \in Due'
    BY <1>1, <1>2, <1>4, <1>5 DEF Kept, InHand
  <2>3. \A u \in Due' : <<item', u>> \notin sent'
    BY <1>1, <1>2, <1>4, <1>5 DEF Kept, InHand
  <2> QED BY <1>4, <2>1, <2>2, <2>3 DEF InHand
<1>8. UnmetIsOpen'
  BY <1>2, <1>5 DEF Kept, UnmetIsOpen, Of
<1>9. SentIsKnown'
  BY <1>2, <1>5 DEF Kept, SentIsKnown
<1> QED BY <1>6, <1>7, <1>8, <1>9 DEF Kept

(* An attempt fails and another follows: only the history of copies        *)
(* changes.                                                                *)
LEMMA AgainKept ==
  ASSUME Kept, pc = "sending", NEW n, Again(n), unmet' = unmet, sent' \subseteq sent
  PROVE  Kept'
<1>1. UNCHANGED <<pc, item, file, seen, left, ok>>
  BY DEF Again, poll
<1>2. Due' = Due /\ (Covers(left, Due) => Covers(left', Due'))
  BY <1>1 DEF Due, DueOf, Covers
<1>3. MarksKept' /\ UnmetIsOpen'
  BY <1>1 DEF Kept, MarksKept, UnmetIsOpen, Of
<1>4. InHand'
  BY <1>1, <1>2 DEF Kept, InHand
<1>5. SentIsKnown'
  BY <1>1 DEF Kept, SentIsKnown
<1> QED BY <1>3, <1>4, <1>5 DEF Kept

(* An item is taken in hand: all that is unmet of it is due, and none of   *)
(* that has been delivered.                                                *)
LEMMA BeginKept ==
  ASSUME SmsTypeOK, Kept, NEW i \in todo, BeginItem(i)
  PROVE  Kept'
<1>1. i \in Items /\ pc = "polling" /\ i \notin seen /\ cfg \in Configs \cup {NoSettings}
  BY DEF SmsTypeOK, BeginItem, Fresh, Takes
<1>2. /\ pc' = "sending" /\ item' = i /\ left' = Tasks
      /\ unmet' = (unmet \ Of(i)) \cup ({i} \X cfg.targets)
      /\ UNCHANGED <<file, seen, sent>>
  BY DEF BeginItem
<1>3. cfg.targets \subseteq Targets
  BY <1>1, ConfigsAre
<1>4. Covers(left', Due') /\ Due' = cfg.targets
  BY <1>2, <1>3, TasksCover, DueIs DEF Due
<1>5. i \notin seen \cup file
  BY <1>1 DEF Kept, MarksKept
<1>6. MarksKept'
  BY <1>1, <1>2 DEF Kept, MarksKept
<1>7. \A t \in Targets : <<i, t>> \notin sent
  BY <1>1, <1>5 DEF Kept, SentIsKnown
<1>8. \A t \in Targets : <<i, t>> \in unmet' => t \in cfg.targets
  BY <1>2 DEF Of
<1>9. InHand'
  BY <1>1, <1>2, <1>3, <1>4, <1>7, <1>8 DEF InHand
<1>10. UnmetIsOpen'
  BY <1>2, <1>5 DEF Kept, UnmetIsOpen, Of
<1>11. SentIsKnown'
  BY <1>1, <1>2 DEF Kept, SentIsKnown
<1> QED BY <1>6, <1>9, <1>10, <1>11 DEF Kept

(* The item in hand is done with.                                          *)
LEMMA FinishKept ==
  ASSUME SmsTypeOK, Kept, Finish
  PROVE  Kept'
<1>1. pc = "sending" /\ left = <<>> /\ pc' = "polling" /\ item \in Items
  BY DEF Finish, SmsTypeOK
<1>2. Due = {}
  BY <1>1 DEF Due, DueOf
<1>3. CASE ok /\ MarkSeen(item) /\ UNCHANGED history
  <2>1. unmet \cap Of(item) = {}
    BY <1>1, <1>2, <1>3 DEF Kept, InHand, Of
  <2> QED BY <1>1, <1>3, <2>1, MarkKept DEF history
<1>4. CASE ~ok /\ sent' = sent \ Of(item) /\ UNCHANGED <<file, seen, unmet>>
  <2>1. MarksKept' /\ InHand' /\ UnmetIsOpen'
    BY <1>1, <1>4 DEF Kept, MarksKept, InHand, UnmetIsOpen, Of
  <2>2. SentIsKnown'
    BY <1>1, <1>4 DEF Kept, SentIsKnown, Of
  <2> QED BY <2>1, <2>2 DEF Kept
<1> QED BY <1>3, <1>4 DEF Finish

LEMMA KeptStays == SmsTypeOK /\ Kept /\ [SmsNext]_smsVars => Kept'
<1> SUFFICES ASSUME SmsTypeOK, Kept, [SmsNext]_smsVars PROVE Kept'
  OBVIOUS
<1> USE DEF world, poll, sending, bounds
<1>1. CASE Arrive \/ SaveSettings \/ Break \/ Recover \/ TimeIsUp
  BY <1>1, HeldKept DEF Arrive, SaveSettings, Break, Recover, TimeIsUp, held
<1>2. CASE Stopped \/ FetchPanics \/ SmsPanics
  BY <1>2, EndsKept DEF Stopped, FetchPanics, SmsPanics, Panics
<1>3. CASE Start
  <2>1. pc = "down" /\ pc' = "fetching" /\ seen' = seen \cup file /\ UNCHANGED <<file, history>>
    BY <1>3 DEF Start
  <2>2. MarksKept' /\ InHand'
    BY <2>1 DEF MarksKept, InHand
  <2>3. UnmetIsOpen'
    BY <2>1 DEF Kept, UnmetIsOpen, Of, history
  <2>4. SentIsKnown'
    BY <2>1 DEF Kept, SentIsKnown, history
  <2> QED BY <2>2, <2>3, <2>4 DEF Kept
<1>4. CASE Tick \/ Fetch \/ EndPoll
  <2>1. pc \notin {"down", "sending"} /\ pc' \notin {"down", "sending"} /\ UNCHANGED <<file, seen, history>>
    BY <1>4 DEF Tick, Fetch, EndPoll
  <2>2. MarksKept' /\ InHand'
    BY <2>1 DEF Kept, MarksKept, InHand
  <2>3. UnmetIsOpen'
    BY <2>1 DEF Kept, UnmetIsOpen, Of, history
  <2>4. SentIsKnown'
    BY <2>1 DEF Kept, SentIsKnown, history
  <2> QED BY <2>2, <2>3, <2>4 DEF Kept
<1>5. ASSUME NEW i \in todo, Item(i) PROVE Kept'
  <2>1. CASE SkipSeen(i) \/ SkipDisabled(i)
    BY <2>1, HeldKept DEF SkipSeen, SkipDisabled, Takes, held
  <2>2. CASE SeedItem(i) \/ PassOver(i)
    BY <2>2, MarkKept DEF SeedItem, PassOver, Fresh, Takes, Of
  <2>3. CASE BeginItem(i)
    BY <2>3, BeginKept
  <2> QED BY <1>5, <2>1, <2>2, <2>3 DEF Item
<1>6. CASE SmsSent \/ MailSent \/ WebhookSent
  BY <1>6, ReturnsKept DEF SmsSent, MailSent, WebhookSent, Sending
<1>7. CASE MailTrouble \/ NoMailServer \/ WebhookFails
  BY <1>7, ReturnsKept DEF MailTrouble, NoMailServer, WebhookFails, Sending, history
<1>8. CASE SmsFails
  <2>1. pc = "sending" /\ left # <<>> /\ unmet' = unmet /\ sent' \subseteq sent
    BY <1>8 DEF SmsFails, AttemptFails, Sending
  <2> QED BY <1>8, <2>1, ReturnsKept, AgainKept DEF SmsFails
<1>9. CASE Works
  BY <1>3, <1>4, <1>5, <1>6, <1>7, <1>8, <1>9, FinishKept DEF Works
<1>10. CASE UNCHANGED smsVars
  BY <1>10, HeldKept DEF smsVars, held
<1> QED BY <1>1, <1>2, <1>7, <1>9, <1>10 DEF SmsNext

LEMMA SmsStarts == SmsInit => SmsTypeOK /\ Kept
<1> SUFFICES ASSUME SmsInit PROVE SmsTypeOK /\ Kept
  OBVIOUS
<1>1. SmsTypeOK
  BY SmsAssumption DEF SmsInit, SmsTypeOK, SmsAssumption
<1>2. Kept
  BY DEF SmsInit, Kept, MarksKept, InHand, UnmetIsOpen, SentIsKnown, Of
<1> QED BY <1>1, <1>2

LEMMA SmsInvariant == SmsSpec => [](SmsTypeOK /\ Kept)
BY SmsStarts, TypesStay, KeptStays, PTL DEF SmsSpec

-----------------------------------------------------------------------------
(* Every reachable state of the forwarder (pollOnce,                       *)
(* sms_forwarder.go:256) has its type.                                     *)
THEOREM SmsTypes == SmsSpec => []SmsTypeOK
BY SmsInvariant, PTL

(* What the invariant says of the item in hand: its sends are those due,   *)
(* and due are only targets that do not have it.                           *)
LEMMA KeptMeans == ASSUME SmsTypeOK, Kept PROVE KeepsItsWord /\ NoNeedlessCopy
<1>1. KeepsItsWord
  BY DEF Kept, UnmetIsOpen, KeepsItsWord
<1>2. NoNeedlessCopy
  <2> SUFFICES ASSUME pc = "sending", left # <<>>, Head(left).must
               PROVE  <<item, Head(left).to>> \notin sent
    BY DEF NoNeedlessCopy
  <2>1. left \in Seq(Task)
    BY DEF SmsTypeOK
  <2>2. Head(left) = left[1] /\ 1 \in 1..Len(left)
    BY <2>1
  <2>3. Head(left).to \in Due
    BY <2>2, HeadIsTask DEF Due, DueOf
  <2> QED BY <2>3 DEF Kept, InHand
<1> QED BY <1>1, <1>2

(* An item that the forwarder no longer looks at (sms_forwarder.go:328)    *)
(* has been delivered to every target of its last poll, or a seed has      *)
(* passed over it.                                                         *)
THEOREM WordIsKept == SmsSpec => []KeepsItsWord
BY KeptMeans, SmsInvariant, PTL

(* No target is sent an item a second time without a failure, a restart or *)
(* a lost mark in between (sms_forwarder.go:256).                          *)
THEOREM NoCopies == SmsSpec => []NoNeedlessCopy
BY KeptMeans, SmsInvariant, PTL

-----------------------------------------------------------------------------
(* The bandwidth collector. The base of the next sample and the counter    *)
(* differ by no more than the traffic since; a file that is not behind     *)
(* holds what was saved last, and the snapshot of a flush that nobody has  *)
(* overtaken is of this reset.                                             *)
BaseFits ==
  prev # Nothing =>
    /\ daemon # "down"
    /\ kernel <= prev + unsampled /\ (kernel < prev => kernel <= unsampled)

FileFits ==
  /\ ~behind /\ saved # Nothing => saved = flushed
  /\ ~misled => flushed + unsampled <= since

DownFits ==
  daemon = "down" =>
    /\ \A p \in Flushers : flush[p] = NoFlush
    /\ ~misled => ~behind
    /\ saved = Nothing => flushed = 0

Young(n) == n <= total /\ n + unsampled <= since

FlushFits ==
  ~misled => \A p \in Flushers : UnderWay(p) /\ ~flush[p].overtaken => Young(flush[p].snap)

TotalFits == daemon # "down" /\ ~misled => flushed <= total /\ total + unsampled <= since

BandInv ==
  BandTypeOK /\ BaseFits /\ FileFits /\ DownFits /\ FlushFits /\ TotalFits

LEMMA BandStarts == BandInit => BandInv
<1> SUFFICES ASSUME BandInit PROVE BandInv
  OBVIOUS
<1> USE DEF BandInit
<1>1. \A p \in Flushers : flush[p] = NoFlush /\ flush[p].at = "out" /\ ~UnderWay(p)
  BY DEF NoFlush, UnderWay
<1>2. 0 \in 0..MaxTraffic /\ 0 \in 0..MaxResets /\ 0 \in 0..MaxStops
  BY BandwidthAssumption
<1>3. BandTypeOK
  BY <1>1, <1>2 DEF BandTypeOK, NoFlush
<1>4. BaseFits /\ FileFits /\ DownFits /\ FlushFits /\ TotalFits
  BY <1>1 DEF BaseFits, FileFits, DownFits, FlushFits, TotalFits
<1> QED BY <1>3, <1>4 DEF BandInv

(* Sampling adds no more than what has come since the last sample.         *)
LEMMA SampleFits ==
  ASSUME BandTypeOK, BaseFits, CollectFirst \/ Collect
  PROVE  /\ total' \in Nat /\ total <= total' /\ total' <= total + unsampled
         /\ prev' = kernel /\ unsampled' = 0
BY BandwidthAssumption DEF BandTypeOK, BaseFits, CollectFirst, Collect, Samples

LEMMA FlushTypes ==
  ASSUME BandTypeOK, NEW p \in Flushers
  PROVE  /\ UnderWay(p) => flush[p].snap \in Nat
         /\ flush[p].at \in {"out", "zeroed", "writing", "removed"}
         /\ flush[p].overtaken \in BOOLEAN /\ flush[p].snap \in Nat \cup {Nothing}
BY DEF BandTypeOK, UnderWay

(* A flush that others overtake, or that begins, and one that leaves.      *)
LEMMA OvertakenFits ==
  ASSUME BandTypeOK, NEW p \in Flushers, NEW f, Overtakes(p, f),
         f.at \in {"zeroed", "writing"}, f.snap \in Nat \cup {Nothing}, f.overtaken = FALSE,
         f = [at |-> f.at, snap |-> f.snap, overtaken |-> f.overtaken],
         f.at = "writing" => f.snap \in Nat
  PROVE  /\ flush' \in [Flushers -> [at : {"out", "zeroed", "writing", "removed"},
                                     snap : Nat \cup {Nothing}, overtaken : BOOLEAN]]
         /\ \A q \in Flushers : flush'[q].at \in {"writing", "removed"} => flush'[q].snap \in Nat
         /\ flush'[p] = f
         /\ \A q \in Flushers \ {p} : UnderWay(q)' => flush'[q].overtaken
<1> DEFINE g(q) == IF q = p THEN f ELSE [flush[q] EXCEPT !.overtaken = @ \/ UnderWay(q)]
           R == [at : {"out", "zeroed", "writing", "removed"},
                 snap : Nat \cup {Nothing}, overtaken : BOOLEAN]
<1>1. flush' = [q \in Flushers |-> g(q)]
  BY DEF Overtakes
<1>2. f \in R
  BY DEF R
<1>3. ASSUME NEW q \in Flushers \ {p}
      PROVE  /\ g(q) \in R /\ g(q).at = flush[q].at /\ g(q).snap = flush[q].snap
             /\ UnderWay(q) => g(q).overtaken
  <2>1. flush[q] \in R
    BY DEF BandTypeOK, R
  <2>2. UnderWay(q) \in BOOLEAN
    BY DEF UnderWay
  <2>3. g(q) = [flush[q] EXCEPT !.overtaken = @ \/ UnderWay(q)]
    BY <1>3
  <2> HIDE DEF g
  <2> QED BY <2>1, <2>2, <2>3 DEF R
<1>4. \A q \in Flushers : flush'[q] = g(q)
  BY <1>1
<1>5. g(p) = f
  OBVIOUS
<1> HIDE DEF g, R
<1>6. flush' \in [Flushers -> R]
  BY <1>1, <1>2, <1>3, <1>5
<1>7. \A q \in Flushers : flush'[q].at \in {"writing", "removed"} => flush'[q].snap \in Nat
  BY <1>3, <1>4, <1>5, FlushTypes DEF UnderWay
<1>8. \A q \in Flushers \ {p} : UnderWay(q)' => flush'[q].overtaken
  BY <1>3, <1>4 DEF UnderWay
<1> QED BY <1>4, <1>5, <1>6, <1>7, <1>8 DEF R

LEMMA LeavesFits ==
  ASSUME BandTypeOK, NEW p \in Flushers, Leaves(p)
  PROVE  /\ flush' \in [Flushers -> [at : {"out", "zeroed", "writing", "removed"},
                                     snap : Nat \cup {Nothing}, overtaken : BOOLEAN]]
         /\ \A q \in Flushers : flush'[q].at \in {"writing", "removed"} => flush'[q].snap \in Nat
         /\ \A q \in Flushers : UnderWay(q)' => q # p /\ flush'[q] = flush[q]
<1>1. flush' = [flush EXCEPT ![p] = NoFlush] /\ NoFlush.at = "out"
      /\ NoFlush \in [at : {"out", "zeroed", "writing", "removed"},
                      snap : Nat \cup {Nothing}, overtaken : BOOLEAN]
  BY DEF Leaves, NoFlush
<1> HIDE DEF NoFlush
<1> QED BY <1>1 DEF BandTypeOK, UnderWay

LEMMA BandNextInv == BandInv /\ [BandNext]_bandVars => BandInv'
<1> SUFFICES ASSUME BandInv, [BandNext]_bandVars PROVE BandInv'
  OBVIOUS
<1> USE DEF BandInv, counters, limits, truth, claims
<1>t. /\ kernel \in Nat /\ total \in Nat /\ unsampled \in Nat /\ since \in Nat /\ flushed \in Nat
      /\ prev \in Nat \cup {Nothing} /\ saved \in Nat \cup {Nothing} /\ Nothing \notin Nat
      /\ behind \in BOOLEAN /\ misled \in BOOLEAN
  BY BandwidthAssumption DEF BandTypeOK
(* Where flushes do not change, nor the total, nothing is less young than  *)
(* it was, unless there was a reset.                                       *)
<1>y. ASSUME UNCHANGED <<flush, misled>>, total' \in Nat, total <= total',
             unsampled' \in Nat, since' \in Nat, since - unsampled <= since' - unsampled'
      PROVE  FlushFits'
  <2> SUFFICES ASSUME ~misled, NEW p \in Flushers, UnderWay(p), ~flush[p].overtaken
               PROVE  Young(flush[p].snap)'
    BY <1>y DEF FlushFits, UnderWay
  <2>1. flush[p].snap \in Nat /\ Young(flush[p].snap)
    BY FlushTypes DEF FlushFits
  <2> QED BY <1>t, <1>y, <2>1 DEF Young
<1>1. CASE Traffic
  <2> USE <1>1 DEF Traffic
  <2>1. BandTypeOK'
    BY <1>t, BandwidthAssumption DEF BandTypeOK
  <2>2. FlushFits'
    BY <1>t, <1>y
  <2>3. BaseFits' /\ FileFits' /\ TotalFits'
    BY <1>t DEF BaseFits, FileFits, TotalFits
  <2>4. DownFits'
    BY DEF DownFits
  <2> QED BY <2>1, <2>2, <2>3, <2>4
<1>2. CASE Recreated
  <2> USE <1>2 DEF Recreated
  <2>1. BandTypeOK'
    BY <1>t DEF BandTypeOK
  <2>2. FlushFits'
    BY <1>t, <1>y
  <2>3. BaseFits' /\ FileFits' /\ TotalFits'
    BY <1>t DEF BaseFits, FileFits, TotalFits
  <2>4. DownFits'
    BY DEF DownFits
  <2> QED BY <2>1, <2>2, <2>3, <2>4
<1>3. CASE CollectFirst \/ Collect
  <2>1. /\ total' \in Nat /\ total <= total' /\ total' <= total + unsampled
        /\ prev' = kernel /\ unsampled' = 0
    BY <1>3, SampleFits
  <2>2. UNCHANGED <<kernel, daemon, saved, flush, carried, resets, stops, since, claims>>
        /\ daemon # "down"
    BY <1>3 DEF CollectFirst, Collect, Samples
  <2>3. BandTypeOK'
    BY <1>t, <2>1, <2>2 DEF BandTypeOK
  <2>4. FlushFits'
    BY <1>t, <1>y, <2>1, <2>2
  <2>5. BaseFits'
    BY <1>t, <2>1, <2>2 DEF BaseFits
  <2>6. FileFits' /\ DownFits'
    BY <1>t, <2>1, <2>2 DEF FileFits, DownFits
  <2>7. TotalFits'
    <3>1. misled' = misled /\ flushed' = flushed /\ since' = since
      BY <2>2
    <3> SUFFICES ASSUME ~misled' PROVE flushed' <= total' /\ total' + unsampled' <= since'
      BY DEF TotalFits
    <3>2. flushed <= total /\ total + unsampled <= since
      BY <2>2, <3>1 DEF TotalFits
    <3>3. flushed <= total' /\ total' <= since
      BY <1>t, <2>1, <3>2
    <3>4. total' + unsampled' = total'
      <4>1. total' \in Nat /\ unsampled' = 0
        BY <2>1
      <4>2. \A n \in Nat : n + 0 = n
        OBVIOUS
      <4> QED BY <4>1, <4>2
    <3> QED BY <3>1, <3>3, <3>4
  <2> QED BY <2>3, <2>4, <2>5, <2>6, <2>7
<1>4. ASSUME NEW u \in Users, Reset(u) PROVE BandInv'
  <2> DEFINE f == [at |-> "zeroed", snap |-> Nothing, overtaken |-> FALSE]
  <2>1. Overtakes(u, f) /\ u \in Flushers
    BY <1>4 DEF Reset, Flushers
  <2>2. /\ f.at = "zeroed" /\ f.snap = Nothing /\ f.overtaken = FALSE
        /\ f = [at |-> f.at, snap |-> f.snap, overtaken |-> f.overtaken]
    BY DEF f
  <2> HIDE DEF f
  <2>3. /\ flush' \in [Flushers -> [at : {"out", "zeroed", "writing", "removed"},
                                    snap : Nat \cup {Nothing}, overtaken : BOOLEAN]]
        /\ \A q \in Flushers : flush'[q].at \in {"writing", "removed"} => flush'[q].snap \in Nat
        /\ flush'[u] = f
        /\ \A q \in Flushers \ {u} : UnderWay(q)' => flush'[q].overtaken
    BY <2>1, <2>2, OvertakenFits
  <2>4. /\ daemon # "down" /\ total' = 0 /\ since' = unsampled /\ flushed' = 0 /\ behind' = TRUE
        /\ misled' = FALSE /\ resets < MaxResets /\ resets' = resets + 1
        /\ UNCHANGED <<kernel, daemon, prev, saved, carried, stops, unsampled>>
    BY <1>4 DEF Reset
  <2>5. BandTypeOK'
    <3>1. resets' \in 0..MaxResets /\ carried' \in 0..MaxTraffic /\ stops' \in 0..MaxStops
      BY <2>4, BandwidthAssumption DEF BandTypeOK
    <3>2. /\ kernel' \in Nat /\ total' \in Nat /\ unsampled' \in Nat /\ since' \in Nat
          /\ flushed' \in Nat /\ prev' \in Nat \cup {Nothing} /\ saved' \in Nat \cup {Nothing}
          /\ behind' \in BOOLEAN /\ misled' \in BOOLEAN
          /\ daemon' \in {"up", "closing", "down"}
      BY <1>t, <2>4 DEF BandTypeOK
    <3> QED BY <2>3, <3>1, <3>2 DEF BandTypeOK
  <2>6. \A q \in Flushers : UnderWay(q)' => flush'[q].overtaken
    BY <2>2, <2>3 DEF UnderWay
  <2>7. FlushFits'
    BY <2>6 DEF FlushFits
  <2>8. BaseFits' /\ FileFits' /\ TotalFits'
    BY <1>t, <2>4 DEF BaseFits, FileFits, TotalFits
  <2>9. DownFits'
    BY <2>4 DEF DownFits
  <2> QED BY <2>5, <2>7, <2>8, <2>9
<1>5. ASSUME NEW p \in Flushers, TakeSnapshot(p), daemon # "down", daemon' \in {daemon, "closing"}
      PROVE  BandInv'
  <2> DEFINE f == [at |-> "writing", snap |-> total, overtaken |-> FALSE]
  <2>1. Overtakes(p, f)
    BY <1>5 DEF TakeSnapshot
  <2>2. /\ f.at = "writing" /\ f.snap = total /\ f.overtaken = FALSE
        /\ f = [at |-> f.at, snap |-> f.snap, overtaken |-> f.overtaken]
    OBVIOUS
  <2> HIDE DEF f
  <2>3. /\ flush' \in [Flushers -> [at : {"out", "zeroed", "writing", "removed"},
                                    snap : Nat \cup {Nothing}, overtaken : BOOLEAN]]
        /\ \A q \in Flushers : flush'[q].at \in {"writing", "removed"} => flush'[q].snap \in Nat
        /\ flush'[p] = f
        /\ \A q \in Flushers \ {p} : UnderWay(q)' => flush'[q].overtaken
    BY <1>t, <2>1, <2>2, OvertakenFits
  <2>4. UNCHANGED <<kernel, counters, saved, limits, truth, claims>>
    BY <1>5 DEF TakeSnapshot
  <2>5. BandTypeOK'
    BY <1>5, <2>3, <2>4 DEF BandTypeOK
  <2>6. ~misled => Young(total)
    BY <1>5, <1>t DEF TotalFits, Young
  <2>7. FlushFits'
    <3>1. ~misled => Young(total)'
      BY <2>4, <2>6 DEF Young
    <3> QED BY <2>2, <2>3, <2>4, <3>1 DEF FlushFits
  <2>8. daemon' # "down"
    BY <1>5
  <2>9. BaseFits' /\ FileFits' /\ TotalFits' /\ DownFits'
    BY <1>5, <2>4, <2>8 DEF BaseFits, FileFits, TotalFits, DownFits
  <2> QED BY <2>5, <2>7, <2>9
<1>6. CASE FlushTicker
  BY <1>5, <1>6 DEF FlushTicker, Flushers
<1>7. ASSUME NEW u \in Users, FlushReset(u) PROVE BandInv'
  <2>1. u \in Flushers /\ TakeSnapshot(u) /\ daemon' = daemon /\ flush[u].at = "zeroed"
    BY <1>7 DEF FlushReset, Flushers
  <2>2. daemon # "down"
    BY <2>1 DEF DownFits, NoFlush
  <2> QED BY <1>5, <2>1, <2>2
<1>8. CASE Close
  BY <1>5, <1>8 DEF Close, Flushers
(* What is under way after a flush that leaves was under way before.       *)
<1>9. ASSUME NEW p \in Flushers, Leaves(p), UNCHANGED <<total, unsampled, since, misled>>
      PROVE  FlushFits'
  <2>1. \A q \in Flushers : UnderWay(q)' => q # p /\ flush'[q] = flush[q]
    BY <1>9, LeavesFits
  <2> QED BY <1>9, <2>1 DEF FlushFits, UnderWay, Young
<1>10. ASSUME NEW p \in Flushers, flush[p].at # "out" PROVE daemon # "down"
  BY <1>10 DEF DownFits, NoFlush
<1>11. ASSUME NEW p \in Flushers, WriteFails(p) PROVE BandInv'
  <2>1. /\ flush[p].at = "writing" /\ Leaves(p) /\ daemon # "down"
        /\ UNCHANGED <<kernel, daemon, counters, saved, limits, truth, claims>>
    BY <1>10, <1>11 DEF WriteFails
  <2>2. BandTypeOK'
    BY <2>1, LeavesFits DEF BandTypeOK
  <2>3. FlushFits'
    BY <1>9, <2>1
  <2> QED BY <2>1, <2>2, <2>3 DEF BaseFits, FileFits, TotalFits, DownFits
<1>12. ASSUME NEW p \in Flushers, RemoveOld(p) PROVE BandInv'
  <2>1. /\ flush[p].at = "writing" /\ daemon # "down" /\ saved' = Nothing
        /\ flush' = [flush EXCEPT ![p].at = "removed"]
        /\ UNCHANGED <<kernel, daemon, counters, limits, truth, claims>>
    BY <1>10, <1>12 DEF RemoveOld
  <2>2. \A q \in Flushers : /\ UnderWay(q)' <=> UnderWay(q)
                            /\ flush'[q].snap = flush[q].snap
                            /\ flush'[q].overtaken = flush[q].overtaken
    BY <2>1 DEF UnderWay, BandTypeOK
  <2>3. BandTypeOK'
    <3>1. flush' \in [Flushers -> [at : {"out", "zeroed", "writing", "removed"},
                                   snap : Nat \cup {Nothing}, overtaken : BOOLEAN]]
      BY <2>1 DEF BandTypeOK
    <3>2. \A q \in Flushers : flush'[q].at \in {"writing", "removed"} => flush'[q].snap \in Nat
      BY <2>2, FlushTypes DEF UnderWay
    <3> QED BY <1>t, <2>1, <3>1, <3>2 DEF BandTypeOK
  <2>4. FlushFits'
    BY <2>1, <2>2 DEF FlushFits, Young
  <2> QED BY <2>1, <2>3, <2>4 DEF BaseFits, FileFits, TotalFits, DownFits
<1>13. ASSUME NEW p \in Flushers, RenameNew(p) PROVE BandInv'
  <2>1. /\ flush[p].at = "removed" /\ Leaves(p) /\ daemon # "down"
        /\ saved' = flush[p].snap /\ behind' = flush[p].overtaken
        /\ flushed' = IF flush[p].overtaken THEN flushed ELSE flush[p].snap
        /\ UNCHANGED <<kernel, daemon, counters, limits, truth, misled>>
    BY <1>10, <1>13 DEF RenameNew
  <2>2. flush[p].snap \in Nat /\ flush[p].overtaken \in BOOLEAN /\ UnderWay(p)
    BY <2>1, FlushTypes DEF UnderWay
  <2>3. BandTypeOK'
    BY <1>t, <2>1, <2>2, LeavesFits DEF BandTypeOK
  <2>4. FlushFits'
    BY <1>9, <2>1
  <2>5. ~misled /\ ~flush[p].overtaken => Young(flush[p].snap)
    BY <2>2 DEF FlushFits
  <2>6. FileFits' /\ TotalFits'
    BY <1>t, <2>1, <2>2, <2>5 DEF FileFits, TotalFits, Young
  <2> QED BY <2>1, <2>3, <2>4, <2>6 DEF BaseFits, DownFits
<1>s. Saved \in Nat /\ Saved <= flushed /\ (saved = Nothing => Saved = 0)
      /\ (saved # Nothing => Saved = flushed)
  BY <1>t DEF Saved
<1>14. ASSUME NEW p \in Flushers, RenameFails(p) PROVE BandInv'
  <2>1. /\ flush[p].at = "removed" /\ Leaves(p) /\ daemon # "down" /\ flushed' = Saved
        /\ UNCHANGED <<kernel, daemon, counters, saved, limits, truth, behind, misled>>
    BY <1>10, <1>14 DEF RenameFails
  <2>2. BandTypeOK'
    BY <1>s, <2>1, LeavesFits DEF BandTypeOK
  <2>3. FlushFits'
    BY <1>9, <2>1
  <2>4. FileFits' /\ TotalFits'
    BY <1>s, <1>t, <2>1 DEF FileFits, TotalFits
  <2> QED BY <2>1, <2>2, <2>3, <2>4 DEF BaseFits, DownFits
<1>15. ASSUME Gone, kernel' \in Nat, stops' \in 0..MaxStops PROVE BandInv'
  <2>1. /\ daemon' = "down" /\ prev' = Nothing /\ total' = 0 /\ flush' = [p \in Flushers |-> NoFlush]
        /\ flushed' = Saved /\ misled' = (misled \/ behind)
        /\ UNCHANGED <<saved, carried, resets, truth, behind>>
    BY <1>15 DEF Gone
  <2>2. \A p \in Flushers : flush'[p] = NoFlush /\ flush'[p].at = "out" /\ ~UnderWay(p)'
    BY <2>1 DEF NoFlush, UnderWay
  <2>3. BandTypeOK'
    <3>1. NoFlush \in [at : {"out", "zeroed", "writing", "removed"},
                       snap : Nat \cup {Nothing}, overtaken : BOOLEAN]
      BY DEF NoFlush
    <3>2. flush' \in [Flushers -> [at : {"out", "zeroed", "writing", "removed"},
                                   snap : Nat \cup {Nothing}, overtaken : BOOLEAN]]
      BY <2>1, <3>1
    <3>3. \A q \in Flushers : flush'[q].at \in {"writing", "removed"} => flush'[q].snap \in Nat
      BY <2>2
    <3> QED BY <1>15, <1>s, <1>t, <2>1, <3>2, <3>3 DEF BandTypeOK
  <2>4. FlushFits'
    BY <2>2 DEF FlushFits
  <2>5. FileFits' /\ DownFits'
    BY <1>s, <1>t, <2>1, <2>2 DEF FileFits, DownFits
  <2> QED BY <2>1, <2>3, <2>4, <2>5 DEF BaseFits, TotalFits
<1>16. CASE Exit
  <2>1. Gone /\ kernel' \in Nat /\ stops' \in 0..MaxStops
    BY <1>16 DEF Exit, BandTypeOK
  <2> QED BY <1>15, <2>1
<1>17. CASE Killed
  <2>1. Gone /\ kernel' \in Nat /\ stops' \in 0..MaxStops
    BY <1>17, <1>t, BandwidthAssumption DEF Killed, BandTypeOK
  <2> QED BY <1>15, <2>1
<1>18. CASE StartCollector
  <2>1. /\ daemon = "down" /\ daemon' = "up" /\ total' = IF saved = Nothing THEN 0 ELSE saved
        /\ UNCHANGED <<kernel, prev, saved, flush, limits, truth, claims>>
    BY <1>18 DEF StartCollector
  <2>2. BandTypeOK'
    BY <1>t, <2>1 DEF BandTypeOK
  <2>3. \A p \in Flushers : ~UnderWay(p)
    BY <2>1 DEF DownFits, UnderWay, NoFlush
  <2>4. FlushFits'
    BY <2>1, <2>3 DEF FlushFits, UnderWay
  <2>5. ~misled => total' = flushed
    BY <2>1 DEF DownFits, FileFits
  <2>6. TotalFits'
    BY <1>t, <2>1, <2>5 DEF TotalFits, FileFits
  <2> QED BY <2>1, <2>2, <2>4, <2>6 DEF BaseFits, FileFits, DownFits
<1>19. CASE UNCHANGED bandVars
  BY <1>19
  DEF bandVars, BandTypeOK, BaseFits, FileFits, DownFits, FlushFits, TotalFits, UnderWay, Young
<1> QED
  BY <1>1, <1>2, <1>3, <1>4, <1>6, <1>7, <1>8, <1>11, <1>12, <1>13, <1>14, <1>16, <1>17, <1>18, <1>19
  DEF BandNext

(* The types of the collector.                                             *)
THEOREM BandTypes == BandSpec => []BandTypeOK
<1>1. BandInv => BandTypeOK
  BY DEF BandInv
<1> QED BY <1>1, BandStarts, BandNextInv, PTL DEF BandSpec

(* What the collector counts is traffic of after the last reset, counted   *)
(* once, and no less than the last flush has saved, whatever flushes       *)
(* overlap and wherever process or device stop; but for a start from a     *)
(* file that is older than the last reset.                                 *)
THEOREM CountersHold == BandSpec => []CountersAreTrue
<1>1. BandInv => CountersAreTrue
  BY DEF BandInv, BandTypeOK, TotalFits, CountersAreTrue
<1> QED BY <1>1, BandStarts, BandNextInv, PTL DEF BandSpec

-----------------------------------------------------------------------------
(* The manager of the SSH server. Whoever has changed the settings is on   *)
(* its way to close the server that ran with the old ones; and while calls *)
(* come one at a time, the caller's place tells what runs.                 *)
FitsConfig == server # NoServer => ssh.enabled /\ server = ssh.port

Fixed == FitsConfig \/ refused \/ \E c \in Callers : place[c] \in {"reload", "closing"}

AskedFor == \A c \in Callers : place[c] = "update" => want[c] \in SshSettings

Active(c) == place[c] \notin {"out", "over"}

AloneAt(c) ==
  /\ c = Main => place[c] = "start"
  /\ place[c] \in {"reload", "closing"} => ssh = want[c]
  /\ listening = IF place[c] = "closing" THEN {} ELSE {server} \ {NoServer}
  /\ place[c] = "start" => server = NoServer

NobodyActive ==
  /\ listening = {server} \ {NoServer}
  /\ ~refused /\ ssh.enabled /\ ~lastErr => server # NoServer

Alone ==
  ~crossed =>
    /\ place[Main] # "over"
    /\ \A c, d \in Callers : Active(c) /\ Active(d) => c = d
    /\ \A c \in Callers : Active(c) => AloneAt(c)
    /\ ~Busy => NobodyActive

SshInv == SshTypeOK /\ Fixed /\ AskedFor /\ Alone

LEMMA MainIs == Main \in Callers /\ NoServer \notin Callers
BY SshAssumption DEF SshAssumption, Callers

LEMMA SettingsAre ==
  ASSUME NEW s \in SshSettings
  PROVE  s.enabled \in BOOLEAN /\ s.port \in Ports /\ s.port # NoServer
BY SshAssumption DEF SshAssumption, SshSettings

(* A process that starts. *)
LEMMA StartingFits ==
  ASSUME place' = Starting, want' = [c \in Callers |-> NoServer],
         server' = NoServer, listening' = {}, holder' = NoServer,
         sessions' = [c \in Clients |-> NoServer],
         ssh' \in SshSettings, onDisk' \in SshSettings,
         lastErr' = FALSE, requests' \in 0..MaxRequests, refused' = FALSE, crossed' = FALSE
  PROVE  SshInv'
<1>1. \A c \in Callers : place'[c] = IF c = Main THEN "start" ELSE "out"
  BY DEF Starting
<1>2. SshTypeOK'
  BY DEF SshTypeOK, Starting
<1>3. Fixed' /\ AskedFor'
  BY <1>1 DEF Fixed, FitsConfig, AskedFor
<1>4. \A c \in Callers : Active(c)' <=> c = Main
  BY <1>1 DEF Active
<1>5. AloneAt(Main)' /\ place'[Main] # "over" /\ Busy'
  BY <1>1, MainIs DEF AloneAt, Busy
<1> QED BY <1>2, <1>3, <1>4, <1>5 DEF Alone, SshInv

LEMMA SshNextInv == SshInv /\ [SshNext]_sshVars => SshInv'
<1> SUFFICES ASSUME SshInv, [SshNext]_sshVars PROVE SshInv'
  OBVIOUS
<1> USE DEF SshInv, sshConfig, calls, servers
<1>t. /\ ssh \in SshSettings /\ onDisk \in SshSettings /\ MaxRequests \in Nat
      /\ place \in [Callers -> {"out", "update", "reload", "closing", "start", "over"}]
      /\ want \in [Callers -> SshSettings \cup {NoServer}]
      /\ refused \in BOOLEAN /\ crossed \in BOOLEAN /\ lastErr \in BOOLEAN
      /\ requests \in 0..MaxRequests
  BY SshAssumption DEF SshTypeOK, SshAssumption
<1>b. Busy <=> \E c \in Callers : Active(c)
  BY DEF Busy, Active
<1>1. ASSUME NEW c \in Callers, Ask(c) PROVE SshInv'
  <2>1. /\ place[c] = "out" /\ c # Main /\ place[Main] # "start"
        /\ place' = [place EXCEPT ![c] = "update"] /\ crossed' = (crossed \/ Busy)
        /\ UNCHANGED <<sshConfig, holder, servers, sessions, refused>>
        /\ requests < MaxRequests /\ requests' = requests + 1
    BY <1>1 DEF Ask, At
  <2>2. PICK s \in SshSettings : want' = [want EXCEPT ![c] = s]
    BY <1>1 DEF Ask
  <2>3. /\ place'[c] = "update" /\ want'[c] = s
        /\ \A d \in Callers \ {c} : place'[d] = place[d] /\ want'[d] = want[d]
    BY <1>t, <2>1, <2>2
  <2>4. SshTypeOK'
    <3>1. requests' \in 0..MaxRequests /\ crossed' \in BOOLEAN
      BY <1>t, <2>1 DEF Busy
    <3> QED BY <1>t, <2>1, <2>2, <3>1 DEF SshTypeOK
  <2>5. Fixed' /\ AskedFor'
    BY <2>1, <2>3 DEF Fixed, FitsConfig, AskedFor
  <2>6. Alone'
    <3> SUFFICES ASSUME ~crossed, ~Busy PROVE Alone'
      BY <1>t, <2>1 DEF Alone
    <3>1. \A d \in Callers : Active(d)' <=> d = c
      BY <1>b, <2>3 DEF Active
    <3>2. listening = {server} \ {NoServer} /\ place'[Main] # "over"
      BY <2>1, <2>3, MainIs DEF Alone, NobodyActive
    <3>3. AloneAt(c)' /\ Busy'
      BY <2>1, <2>3, <3>2 DEF AloneAt, Busy
    <3> QED BY <3>1, <3>2, <3>3 DEF Alone
  <2> QED BY <2>4, <2>5, <2>6
<1>2. CASE AskStop
  <2>1. /\ place[Main] = "out" /\ place' = [place EXCEPT ![Main] = "reload"] /\ crossed' = TRUE
        /\ UNCHANGED <<want, requests, sshConfig, holder, servers, sessions, refused>>
    BY <1>2 DEF AskStop, At, Moves
  <2>2. place'[Main] = "reload" /\ \A d \in Callers \ {Main} : place'[d] = place[d]
    BY <1>t, <2>1, MainIs
  <2>3. SshTypeOK' /\ Alone'
    BY <1>t, <2>1 DEF SshTypeOK, Alone
  <2>4. Fixed' /\ AskedFor'
    BY <2>1, <2>2, MainIs DEF Fixed, AskedFor
  <2> QED BY <2>3, <2>4
<1>3. ASSUME NEW c \in Callers, UpdateConfig(c) PROVE SshInv'
  <2>1. /\ place[c] = "update" /\ ssh' = want[c] /\ want' = want /\ requests' = requests
        /\ UNCHANGED <<holder, servers, sessions, crossed>>
        /\ want[c] \in SshSettings
    BY <1>3 DEF UpdateConfig, At, Moves, AskedFor
  <2>2. \/ onDisk' = ssh' /\ refused' = refused /\ place' = [place EXCEPT ![c] = "reload"]
        \/ onDisk' = onDisk /\ refused' = TRUE /\ place' = [place EXCEPT ![c] = "out"]
    BY <1>3 DEF UpdateConfig, Moves
  <2>3. /\ place'[c] \in {"reload", "out"}
        /\ place'[c] = "reload" \/ (place'[c] = "out" /\ refused' = TRUE)
        /\ \A d \in Callers \ {c} : place'[d] = place[d]
    BY <1>t, <2>2
  <2>4. SshTypeOK'
    BY <1>t, <2>1, <2>2 DEF SshTypeOK
  <2>5. Fixed' /\ AskedFor'
    BY <2>1, <2>3 DEF Fixed, AskedFor
  <2>6. Alone'
    <3> SUFFICES ASSUME ~crossed PROVE Alone'
      BY <2>1 DEF Alone
    <3>1. c # Main /\ Active(c)
      BY <2>1 DEF Alone, AloneAt, Active
    <3>2. \A d \in Callers \ {c} : ~Active(d)
      BY <3>1 DEF Alone
    <3>3. listening = {server} \ {NoServer}
      BY <2>1, <3>1 DEF Alone, AloneAt
    <3>4. \A d \in Callers : Active(d)' => d = c
      BY <2>3, <3>2 DEF Active
    <3>5. place'[Main] # "over"
      BY <2>3, <3>1, MainIs DEF Alone
    <3>6. Active(c)' => AloneAt(c)'
      BY <2>1, <2>3, <3>1, <3>3 DEF Active, AloneAt
    <3>7. ~Busy' => NobodyActive'
      <4>1. place'[c] = "reload" => Busy'
        BY DEF Busy
      <4> QED BY <2>1, <2>3, <3>3, <4>1 DEF NobodyActive
    <3> QED BY <3>4, <3>5, <3>6, <3>7 DEF Alone
  <2> QED BY <2>4, <2>5, <2>6
(* The caller that goes on once no server is left.                         *)
<1>4. ASSUME NEW c \in Callers, place[c] \in {"reload", "closing"}, GoesOn(c),
             server' = NoServer, listening' = listening,
             place[c] = "closing" \/ server = NoServer,
             holder' = NoServer,
             UNCHANGED <<sshConfig, lastErr, sessions, refused, crossed>>
      PROVE  SshInv'
  <2>1. /\ want' = want /\ requests' = requests
        /\ place' = [place EXCEPT ![c] = IF c = Main THEN "over"
                                         ELSE IF want[c].enabled THEN "start" ELSE "out"]
    BY <1>4 DEF GoesOn, Moves
  <2>2. /\ place'[c] = (IF c = Main THEN "over" ELSE IF want[c].enabled THEN "start" ELSE "out")
        /\ place'[c] \in {"over", "start", "out"}
        /\ \A d \in Callers \ {c} : place'[d] = place[d]
    BY <1>t, <2>1
  <2>3. SshTypeOK'
    BY <1>t, <1>4, <2>1, <2>2 DEF SshTypeOK
  <2>4. Fixed' /\ AskedFor'
    BY <1>4, <2>1, <2>2 DEF Fixed, FitsConfig, AskedFor
  <2>5. Alone'
    <3> SUFFICES ASSUME ~crossed PROVE Alone'
      BY <1>4 DEF Alone
    <3>1. c # Main /\ Active(c) /\ ssh = want[c]
      BY <1>4 DEF Alone, AloneAt, Active
    <3>2. \A d \in Callers \ {c} : ~Active(d)
      BY <3>1 DEF Alone
    <3>3. listening' = {}
      BY <1>4, <3>1 DEF Alone, AloneAt
    <3>4. \A d \in Callers : Active(d)' => d = c
      BY <2>2, <3>2 DEF Active
    <3>5. place'[Main] # "over"
      BY <2>2, <3>1, MainIs DEF Alone
    <3>6. Active(c)' => AloneAt(c)'
      BY <1>4, <2>2, <3>1, <3>3 DEF Active, AloneAt
    <3>7. ~Busy' => NobodyActive'
      <4>1. ASSUME ~Busy' PROVE ~want[c].enabled
        <5>1. place'[c] # "start"
          BY <4>1 DEF Busy
        <5> QED BY <2>2, <3>1, <5>1
      <4> QED BY <1>4, <3>1, <3>3, <4>1 DEF NobodyActive
    <3> QED BY <3>4, <3>5, <3>6, <3>7 DEF Alone
  <2> QED BY <2>3, <2>4, <2>5
<1>5. ASSUME NEW c \in Callers, NothingToClose(c) PROVE SshInv'
  BY <1>4, <1>5 DEF NothingToClose, At
<1>6. ASSUME NEW c \in Callers, Closed(c) PROVE SshInv'
  BY <1>4, <1>6 DEF Closed, At
<1>7. ASSUME NEW c \in Callers, CloseListener(c) PROVE SshInv'
  <2>1. /\ place[c] = "reload" /\ server # NoServer /\ holder' = c
        /\ listening' = listening \ {server} /\ place' = [place EXCEPT ![c] = "closing"]
        /\ UNCHANGED <<want, requests, sshConfig, server, lastErr, sessions, refused, crossed>>
    BY <1>7 DEF CloseListener, At, Moves
  <2>2. place'[c] = "closing" /\ \A d \in Callers \ {c} : place'[d] = place[d]
    BY <1>t, <2>1
  <2>3. SshTypeOK'
    BY <1>t, <2>1 DEF SshTypeOK
  <2>4. Fixed' /\ AskedFor'
    BY <2>1, <2>2 DEF Fixed, AskedFor
  <2>5. Alone'
    <3> SUFFICES ASSUME ~crossed PROVE Alone'
      BY <2>1 DEF Alone
    <3>1. c # Main /\ Active(c) /\ ssh = want[c] /\ listening = {server} \ {NoServer}
      BY <2>1 DEF Alone, AloneAt, Active
    <3>2. \A d \in Callers \ {c} : ~Active(d)
      BY <3>1 DEF Alone
    <3>3. \A d \in Callers : Active(d)' => d = c
      BY <2>2, <3>2 DEF Active
    <3>4. place'[Main] # "over" /\ Busy'
      BY <2>2, <3>1, MainIs DEF Alone, Busy
    <3>5. AloneAt(c)'
      BY <2>1, <2>2, <3>1 DEF AloneAt
    <3> QED BY <3>3, <3>4, <3>5 DEF Alone
  <2> QED BY <2>3, <2>4, <2>5
<1>8. ASSUME NEW c \in Callers, StartServer(c) PROVE SshInv'
  <2>1. /\ place[c] = "start" /\ place' = [place EXCEPT ![c] = "out"]
        /\ UNCHANGED <<want, requests, sshConfig, holder, sessions, refused, crossed>>
    BY <1>8 DEF StartServer, At, Moves
  <2>2. \/ /\ ssh.enabled /\ ssh.port \notin listening
           /\ server' = ssh.port /\ listening' = listening \cup {ssh.port} /\ lastErr' = FALSE
        \/ ssh.enabled /\ lastErr' = TRUE /\ UNCHANGED <<server, listening>>
        \/ ~ssh.enabled /\ UNCHANGED servers
    BY <1>8 DEF StartServer
  <2>3. place'[c] = "out" /\ \A d \in Callers \ {c} : place'[d] = place[d]
    BY <1>t, <2>1
  <2>4. ssh.port \in Ports /\ ssh.port # NoServer
    BY <1>t, SettingsAre
  <2>5. SshTypeOK'
    BY <1>t, <2>1, <2>2, <2>4 DEF SshTypeOK
  <2>6. Fixed' /\ AskedFor'
    BY <2>1, <2>2, <2>3 DEF Fixed, FitsConfig, AskedFor
  <2>7. Alone'
    <3> SUFFICES ASSUME ~crossed PROVE Alone'
      BY <2>1 DEF Alone
    <3>1. Active(c) /\ server = NoServer /\ listening = {}
      BY <2>1 DEF Alone, AloneAt, Active
    <3>2. \A d \in Callers : ~Active(d)'
      BY <2>3, <3>1 DEF Alone, Active
    <3>3. place'[Main] # "over"
      BY <2>3, MainIs DEF Alone
    <3>4. NobodyActive'
      BY <2>1, <2>2, <2>4, <3>1 DEF NobodyActive
    <3> QED BY <3>2, <3>3, <3>4 DEF Alone
  <2> QED BY <2>5, <2>6, <2>7
<1>9. ASSUME UNCHANGED <<ssh, calls, holder, servers, refused, crossed>>,
             onDisk' \in SshSettings, sessions' \in [Clients -> Ports \cup {NoServer}]
      PROVE  SshInv'
  <2>1. SshTypeOK'
    BY <1>9 DEF SshTypeOK
  <2>2. Fixed' /\ AskedFor'
    BY <1>9 DEF Fixed, FitsConfig, AskedFor
  <2>3. Alone'
    BY <1>9 DEF Alone, AloneAt, NobodyActive, Active, Busy
  <2> QED BY <2>1, <2>2, <2>3
<1>10. ASSUME NEW s \in Clients, Connect(s) PROVE SshInv'
  <2>1. PICK p \in listening : sessions' = [sessions EXCEPT ![s] = p]
    BY <1>10 DEF Connect
  <2>2. sessions' \in [Clients -> Ports \cup {NoServer}]
    BY <2>1 DEF SshTypeOK
  <2> QED BY <1>t, <1>9, <1>10, <2>2 DEF Connect
<1>11. ASSUME NEW s \in Clients, Leave(s) PROVE SshInv'
  <2>1. sessions' \in [Clients -> Ports \cup {NoServer}]
    BY <1>11 DEF Leave, SshTypeOK
  <2> QED BY <1>t, <1>9, <1>11, <2>1 DEF Leave
<1>12. CASE SaveOthers
  BY <1>t, <1>9, <1>12 DEF SaveOthers, SshTypeOK
<1>13. CASE Restart
  BY <1>t, <1>13, StartingFits DEF Restart
<1>14. CASE UNCHANGED sshVars
  BY <1>t, <1>9, <1>14 DEF sshVars, SshTypeOK
<1> QED
  BY <1>1, <1>2, <1>3, <1>5, <1>6, <1>7, <1>8, <1>10, <1>11, <1>12, <1>13, <1>14 DEF SshNext

LEMMA SshStarts == SshInit => SshInv
<1> SUFFICES ASSUME SshInit PROVE SshInv
  OBVIOUS
<1>1. \A c \in Callers : place[c] = IF c = Main THEN "start" ELSE "out"
  BY DEF SshInit, Starting
<1>2. 0 \in 0..MaxRequests
  BY SshAssumption DEF SshAssumption
<1>3. SshTypeOK
  BY <1>2 DEF SshInit, SshTypeOK, Starting
<1>4. Fixed /\ AskedFor
  BY <1>1 DEF SshInit, Fixed, FitsConfig, AskedFor
<1>5. \A c \in Callers : Active(c) <=> c = Main
  BY <1>1 DEF Active
<1>6. AloneAt(Main) /\ place[Main] # "over" /\ Busy
  BY <1>1, MainIs DEF SshInit, AloneAt, Busy
<1> QED BY <1>3, <1>4, <1>5, <1>6 DEF Alone, SshInv

(* The types of the manager.                                               *)
THEOREM SshTypes == SshSpec => []SshTypeOK
<1>1. SshInv => SshTypeOK
  BY DEF SshInv
<1> QED BY <1>1, SshStarts, SshNextInv, PTL DEF SshSpec

(* Once no call is under way, the manager's server is the one that the     *)
(* settings in memory ask for, however many requests there were and in     *)
(* whatever order; and after calls one at a time it is the only listener   *)
(* and there unless an error says why not.                                 *)
THEOREM ServerIsAsAsked == SshSpec => []ServerFollowsConfig
<1>1. SshInv => ServerFollowsConfig
  <2> SUFFICES ASSUME SshInv, ~Busy, ~refused
               PROVE  /\ FitsConfig
                      /\ ~crossed => NobodyActive
    BY DEF ServerFollowsConfig, FitsConfig, NobodyActive
  <2>1. \A c \in Callers : place[c] \in {"out", "over"}
    BY DEF Busy
  <2>2. FitsConfig
    BY <2>1 DEF SshInv, Fixed
  <2> QED BY <2>2 DEF SshInv, Alone
<1> QED BY <1>1, SshStarts, SshNextInv, PTL DEF SshSpec

-----------------------------------------------------------------------------
(* The SIM profiles. Who has the mutex has work; what work needs and has   *)
(* not to set any more is set or lost; and while applies do not overlap,   *)
(* the one that waits is of the active profile.                            *)
Needs(v) == {"apn"} \cup v.has

ToSet(t) == {work[t].todo[k] : k \in 1..Len(work[t].todo)}

VersionsFit ==
  /\ \A i \in Ids : profiles[i] # Nobody => profiles[i].id = i
  /\ \A t \in Workers : work[t].version = Nobody => work[t] = NoWork

OwnerWorks == owner # Nobody => owner \in Workers /\ work[owner] # NoWork

WorkFits ==
  \A t \in Waiting :
    \A x \in Needs(work[t].version) :
      x \in ToSet(t) \/ (t = owner /\ (x \in lost \/ modem[x] = work[t].version))

ActiveFits ==
  ~unsure => \A t \in Waiting : active \in {work[t].version.id, Nobody}

ProfileInv ==
  /\ ProfileTypeOK /\ VersionsFit /\ OwnerWorks /\ WorkFits /\ ActiveFits
  /\ ModemIsAsStated /\ ActiveExists /\ ActiveIsApplied

LEMMA NobodyIs ==
  /\ Nobody \notin Ids /\ Nobody \notin Workers /\ Nobody \notin Version
  /\ MaxVersions \in Nat /\ MaxApplies \in Nat /\ MaxEnds \in Nat
BY ProfileAssumption DEF ProfileAssumption

LEMMA ThingsNeeded ==
  ASSUME NEW v \in Version
  PROVE  /\ v.id \in Ids /\ v.has \subseteq {"login", "ttl"} /\ Needs(v) \subseteq Things
         /\ v # Nobody
BY NobodyIs, ProfileAssumption DEF ProfileAssumption, Version, Needs, Things

LEMMA IdleTypes ==
  /\ Idle \in [version : Version \cup {Nobody}, done : BOOLEAN]
  /\ Idle.version = Nobody
  /\ NoWork \in [version : Version \cup {Nobody}, todo : Seq(Things)]
BY DEF Idle, NoWork

(* All that a version needs is on its list.                                *)
On(x, s) == \E k \in 1..Len(s) : s[k] = x

LEMMA OnBoth ==
  ASSUME NEW s \in Seq(Things), NEW r \in Seq(Things), NEW x, On(x, s) \/ On(x, r)
  PROVE  On(x, s \o r)
<1>1. Len(s \o r) = Len(s) + Len(r) /\ Len(s) \in Nat /\ Len(r) \in Nat
  OBVIOUS
<1>2. \A k \in 1..Len(s) : (s \o r)[k] = s[k]
  OBVIOUS
<1>3. \A k \in 1..Len(r) : (s \o r)[Len(s) + k] = r[k]
  OBVIOUS
<1>4. CASE On(x, s)
  <2>1. PICK k \in 1..Len(s) : s[k] = x
    BY <1>4 DEF On
  <2>2. k \in 1..Len(s \o r)
    BY <1>1
  <2> QED BY <1>2, <2>1, <2>2 DEF On
<1>5. CASE On(x, r)
  <2>1. PICK k \in 1..Len(r) : r[k] = x
    BY <1>5 DEF On
  <2>2. Len(s) + k \in 1..Len(s \o r)
    BY <1>1
  <2> QED BY <1>3, <2>1, <2>2 DEF On
<1> QED BY <1>4, <1>5

LEMMA StepsCover ==
  ASSUME NEW v \in Version
  PROVE  /\ Steps(v) \in Seq(Things)
         /\ \A x \in Needs(v) : On(x, Steps(v))
<1> DEFINE l == IF "login" \in v.has THEN <<"login">> ELSE <<>>
           t == IF "ttl" \in v.has THEN <<"ttl">> ELSE <<>>
<1>1. /\ \A x \in Things : <<x>> \in Seq(Things) /\ On(x, <<x>>)
      /\ <<>> \in Seq(Things)
      /\ {"apn", "login", "ttl"} \subseteq Things
  BY DEF Things, On
<1>2. /\ l \in Seq(Things) /\ t \in Seq(Things)
      /\ "login" \in v.has => On("login", l)
      /\ "ttl" \in v.has => On("ttl", t)
  BY <1>1
<1>3. Steps(v) = (<<"apn">> \o l) \o t
  BY DEF Steps
<1> HIDE DEF l, t
<1>4. <<"apn">> \o l \in Seq(Things) /\ Steps(v) \in Seq(Things)
  BY <1>1, <1>2, <1>3
<1>5. On("apn", <<"apn">> \o l) /\ ("login" \in v.has => On("login", <<"apn">> \o l))
  BY <1>1, <1>2, OnBoth
<1>6. /\ On("apn", Steps(v))
      /\ "login" \in v.has => On("login", Steps(v))
      /\ "ttl" \in v.has => On("ttl", Steps(v))
  BY <1>2, <1>3, <1>4, <1>5, OnBoth
<1> QED BY <1>4, <1>6, ThingsNeeded DEF Needs

LEMMA ProfileStarts == ProfileInit => ProfileInv
<1> SUFFICES ASSUME ProfileInit PROVE ProfileInv
  OBVIOUS
<1>1. /\ \A i \in Ids : profiles[i] = Nobody
      /\ \A t \in Workers : work[t] = NoWork
      /\ Waiting = {}
  BY DEF ProfileInit, Waiting
<1>2. 0 \in 0..MaxVersions /\ 0 \in 0..MaxApplies /\ 0 \in 0..MaxEnds
  BY NobodyIs
<1>3. ProfileTypeOK
  BY <1>2, IdleTypes DEF ProfileInit, ProfileTypeOK
<1>4. VersionsFit /\ OwnerWorks /\ WorkFits /\ ActiveFits
  BY <1>1 DEF ProfileInit, VersionsFit, OwnerWorks, WorkFits, ActiveFits
<1>5. ModemIsAsStated /\ ActiveExists /\ ActiveIsApplied
  BY DEF ProfileInit, ModemIsAsStated, ActiveExists, ActiveIsApplied, Complete, Idle
<1> QED BY <1>3, <1>4, <1>5 DEF ProfileInv

(* Waiting for work, in terms of the version.                              *)
LEMMA WaitingIs ==
  ASSUME ProfileTypeOK, VersionsFit, NEW t \in Workers
  PROVE  /\ t \in Waiting <=> work[t].version # Nobody
         /\ t \in Waiting => work[t].version \in Version /\ work[t].todo \in Seq(Things)
BY DEF ProfileTypeOK, VersionsFit, Waiting, NoWork

(* A process that ends leaves no work and touches only what is unsure then.*)
LEMMA EndFits ==
  ASSUME ProfileInv, End,
         profiles' \in [Ids -> Version \cup {Nobody}], active' \in Ids \cup {Nobody},
         orphan' \in BOOLEAN, unsure' \in BOOLEAN,
         \A i \in Ids : profiles'[i] # Nobody => profiles'[i].id = i,
         ActiveExists',
         unsure' \/ (Waiting = {} /\ unsure' = unsure /\ active' = active)
  PROVE  ProfileInv'
<1> USE DEF ProfileInv
<1>1. /\ ends' \in 0..MaxEnds /\ versions' = versions /\ applies' = applies
      /\ work' = [t \in Workers |-> NoWork] /\ owner' = Nobody
      /\ lost' = IF owner = Nobody THEN lost ELSE Things
  BY NobodyIs DEF End, ProfileTypeOK
<1>2. \/ progress' = progress /\ modem' = modem
      \/ progress' = Idle /\ modem' = [modem EXCEPT !["ttl"] = Nobody]
  BY DEF End
<1>3. ProfileTypeOK'
  <2>1. progress' \in [version : Version \cup {Nobody}, done : BOOLEAN]
    BY <1>2, IdleTypes DEF ProfileTypeOK
  <2>2. modem' \in [Things -> Version \cup {Nobody}]
    BY <1>2 DEF ProfileTypeOK
  <2>3. work' \in [Workers -> [version : Version \cup {Nobody}, todo : Seq(Things)]]
    BY <1>1 DEF NoWork
  <2>4. lost' \subseteq Things
    BY <1>1 DEF ProfileTypeOK
  <2> QED BY <1>1, <2>1, <2>2, <2>3, <2>4 DEF ProfileTypeOK
<1>4. Waiting' = {} /\ \A t \in Workers : work'[t] = NoWork
  BY <1>1 DEF Waiting
<1>5. VersionsFit' /\ OwnerWorks' /\ WorkFits' /\ ActiveFits'
  BY <1>1, <1>4 DEF VersionsFit, OwnerWorks, WorkFits, ActiveFits
<1>6. ModemIsAsStated'
  <2>1. CASE progress' = Idle
    BY <2>1 DEF ModemIsAsStated, Complete, Idle
  <2>2. CASE progress' = progress /\ modem' = modem
    <3> SUFFICES ASSUME Complete', NEW x \in Needs(progress.version)
                 PROVE  x \in lost' \/ modem[x] = progress.version
      BY <2>2 DEF ModemIsAsStated, Needs
    <3>1. progress.version \in Version /\ x \in Things
      BY <2>2, ThingsNeeded DEF Complete, ProfileTypeOK
    <3>2. owner = Nobody => Complete
      BY <2>2 DEF Complete
    <3> QED BY <1>1, <3>1, <3>2 DEF ModemIsAsStated, Needs
  <2> QED BY <1>2, <2>1, <2>2
<1>7. ActiveIsApplied'
  <2>1. CASE progress' = Idle
    BY <2>1 DEF ActiveIsApplied, Complete, Idle
  <2>2. CASE progress' = progress /\ ~unsure'
    <3>1. Waiting = {} /\ ~unsure /\ active' = active
      BY <2>2 DEF ProfileTypeOK
    <3>2. owner = Nobody
      BY <3>1 DEF OwnerWorks, Waiting
    <3> QED BY <2>2, <3>1, <3>2 DEF ActiveIsApplied, Complete
  <2> QED BY <1>2, <2>1, <2>2 DEF ActiveIsApplied
<1> QED BY <1>3, <1>5, <1>6, <1>7

LEMMA ProfileNextInv == ProfileInv /\ [ProfileNext]_profileVars => ProfileInv'
<1> SUFFICES ASSUME ProfileInv, [ProfileNext]_profileVars PROVE ProfileInv'
  OBVIOUS
<1> USE DEF ProfileInv, profileFiles, profileBounds
<1>t. /\ profiles \in [Ids -> Version \cup {Nobody}] /\ active \in Ids \cup {Nobody}
      /\ progress \in [version : Version \cup {Nobody}, done : BOOLEAN]
      /\ work \in [Workers -> [version : Version \cup {Nobody}, todo : Seq(Things)]]
      /\ modem \in [Things -> Version \cup {Nobody}]
      /\ versions \in 0..MaxVersions /\ applies \in 0..MaxApplies
      /\ orphan \in BOOLEAN /\ unsure \in BOOLEAN
      /\ owner \in Workers \cup {Nobody}
  BY DEF ProfileTypeOK
(* The work is as it was.                                                  *)
<1>w. ASSUME UNCHANGED <<work, owner, modem, lost>>
      PROVE  OwnerWorks' /\ WorkFits' /\ Waiting' = Waiting
  BY <1>w DEF OwnerWorks, WorkFits, Waiting, ToSet
<1>1. ASSUME NEW i \in Ids, Save(i) PROVE ProfileInv'
  <2>1. /\ versions < MaxVersions /\ versions' = versions + 1
        /\ UNCHANGED <<active, progress, work, owner, modem, applies, ends, lost, orphan, unsure>>
    BY <1>1 DEF Save
  <2>2. PICK has \in Shapes :
          profiles' = [profiles EXCEPT ![i] = [id |-> i, number |-> versions', has |-> has]]
    BY <1>1 DEF Save
  <2> DEFINE v == [id |-> i, number |-> versions', has |-> has]
  <2>3. v.id = i
    OBVIOUS
  <2>4. v \in Version
    <3>1. versions' \in Nat
      BY <1>t, <2>1, NobodyIs
    <3>2. has \in SUBSET {"login", "ttl"}
      BY ProfileAssumption DEF ProfileAssumption
    <3> QED BY <3>1, <3>2 DEF Version
  <2> HIDE DEF v
  <2>5. profiles' = [profiles EXCEPT ![i] = v]
    BY <2>2 DEF v
  <2>6. \A j \in Ids : profiles'[j] = IF j = i THEN v ELSE profiles[j]
    BY <1>t, <2>5
  <2>7. ProfileTypeOK'
    <3>1. versions' \in 0..MaxVersions
      BY <1>t, <2>1, NobodyIs
    <3>2. profiles' \in [Ids -> Version \cup {Nobody}]
      BY <1>t, <2>4, <2>5
    <3> QED BY <2>1, <3>1, <3>2 DEF ProfileTypeOK
  <2>8. VersionsFit'
    BY <2>1, <2>3, <2>6 DEF VersionsFit
  <2>9. ActiveExists'
    BY <1>t, <2>1, <2>4, <2>6, NobodyIs DEF ActiveExists
  <2> QED BY <1>w, <2>1, <2>7, <2>8, <2>9 DEF ActiveFits, ModemIsAsStated, ActiveIsApplied, Complete
<1>2. ASSUME NEW i \in Ids, Delete(i) PROVE ProfileInv'
  <2>1. /\ profiles' = [profiles EXCEPT ![i] = Nobody]
        /\ active' = IF active = i THEN Nobody ELSE active
        /\ UNCHANGED <<progress, work, owner, modem, profileBounds, lost, orphan, unsure>>
    BY <1>2 DEF Delete
  <2>2. \A j \in Ids : profiles'[j] = IF j = i THEN Nobody ELSE profiles[j]
    BY <1>t, <2>1
  <2>3. ProfileTypeOK'
    BY <1>t, <2>1 DEF ProfileTypeOK
  <2>4. VersionsFit' /\ ActiveExists'
    BY <1>t, <2>1, <2>2 DEF VersionsFit, ActiveExists
  <2>5. active' \in {active, Nobody}
    BY <2>1
  <2> QED BY <1>w, <2>1, <2>3, <2>4, <2>5 DEF ActiveFits, ModemIsAsStated, ActiveIsApplied, Complete
<1>3. CASE Deactivate
  <2>1. /\ active' = Nobody /\ progress' = Idle /\ orphan' = FALSE
        /\ UNCHANGED <<profiles, work, owner, modem, profileBounds, lost, unsure>>
    BY <1>3 DEF Deactivate
  <2>2. ProfileTypeOK'
    BY <1>t, <2>1 DEF ProfileTypeOK, Idle
  <2>3. ~Complete'
    BY <2>1 DEF Complete, Idle
  <2> QED BY <1>w, <2>1, <2>2, <2>3
          DEF VersionsFit, ActiveFits, ActiveExists, ModemIsAsStated, ActiveIsApplied
<1>4. ASSUME NEW i \in Ids, NEW t \in Workers, Apply(i, t) PROVE ProfileInv'
  <2> DEFINE v == profiles[i]
  <2>1. /\ owner = Nobody /\ v # Nobody /\ work[t] = NoWork
        /\ applies < MaxApplies /\ applies' = applies + 1
        /\ progress' = [version |-> v, done |-> FALSE]
        /\ work' = [work EXCEPT ![t] = [version |-> v, todo |-> Steps(v)]]
        /\ UNCHANGED <<profiles, owner, modem, versions, ends, lost>>
    BY <1>4 DEF Apply
  <2>2. \/ active' = i /\ orphan' = FALSE /\ unsure' = (Waiting # {})
        \/ active' = active /\ orphan' = orphan /\ unsure' = TRUE
    BY <1>4 DEF Apply
  <2>3. v \in Version /\ v.id = i
    BY <1>t, <2>1 DEF VersionsFit
  <2>s. Steps(v) \in Seq(Things) /\ \A x \in Needs(v) : On(x, Steps(v))
    BY <2>3, StepsCover
  <2> HIDE DEF v
  <2>4. /\ work'[t] = [version |-> v, todo |-> Steps(v)]
        /\ \A u \in Workers \ {t} : work'[u] = work[u]
    BY <1>t, <2>1
  <2>5. ProfileTypeOK'
    <3>1. applies' \in 0..MaxApplies
      BY <1>t, <2>1, NobodyIs
    <3>2. work' \in [Workers -> [version : Version \cup {Nobody}, todo : Seq(Things)]]
      BY <1>t, <2>1, <2>3, <2>s
    <3>3. active' \in Ids \cup {Nobody} /\ orphan' \in BOOLEAN /\ unsure' \in BOOLEAN
      BY <1>t, <2>2
    <3>4. progress' \in [version : Version \cup {Nobody}, done : BOOLEAN]
      BY <2>1, <2>3
    <3> QED BY <2>1, <3>1, <3>2, <3>3, <3>4 DEF ProfileTypeOK
  <2>6. VersionsFit'
    BY <2>1, <2>3, <2>4, NobodyIs DEF VersionsFit
  <2>7. Waiting' \subseteq Waiting \cup {t}
    BY <2>4 DEF Waiting
  <2>8. OwnerWorks'
    BY <2>1 DEF OwnerWorks
  <2>9. WorkFits'
    <3> SUFFICES ASSUME NEW u \in Waiting', NEW x \in Needs(work'[u].version)
                 PROVE  x \in ToSet(u)'
      BY DEF WorkFits, Needs
    <3>1. CASE u = t
      BY <2>4, <2>s, <3>1 DEF ToSet, On
    <3>2. CASE u # t
      <4>1. u \in Waiting /\ work'[u] = work[u] /\ u # owner
        BY <2>1, <2>4, <2>7, <3>2, NobodyIs DEF Waiting
      <4> QED BY <4>1 DEF WorkFits, ToSet
    <3> QED BY <3>1, <3>2
  <2>10. ActiveFits'
    <3> SUFFICES ASSUME ~unsure', NEW u \in Waiting' PROVE active' \in {work'[u].version.id, Nobody}
      BY DEF ActiveFits
    <3>1. active' = i /\ Waiting = {}
      BY <2>2
    <3>2. u = t
      BY <2>7, <3>1
    <3> QED BY <2>3, <2>4, <3>1, <3>2
  <2>11. ~Complete'
    BY <2>1 DEF Complete
  <2>12. ActiveExists'
    BY <2>1, <2>2 DEF ActiveExists, v
  <2> QED BY <2>5, <2>6, <2>8, <2>9, <2>10, <2>11, <2>12 DEF ModemIsAsStated, ActiveIsApplied
<1>5. ASSUME NEW t \in Workers, BeginWork(t) PROVE ProfileInv'
  <2>1. /\ owner = Nobody /\ work[t] # NoWork /\ owner' = t
        /\ UNCHANGED <<profileFiles, work, modem, profileBounds, lost, orphan, unsure>>
    BY <1>5 DEF BeginWork
  <2>2. owner' # Nobody
    BY <2>1, NobodyIs
  <2>3. ProfileTypeOK'
    BY <1>t, <2>1 DEF ProfileTypeOK
  <2>4. Waiting' = Waiting /\ \A u \in Waiting : u # owner
    BY <2>1, NobodyIs DEF Waiting
  <2>5. WorkFits'
    BY <2>1, <2>4 DEF WorkFits, ToSet
  <2> QED BY <2>1, <2>2, <2>3, <2>4, <2>5
          DEF VersionsFit, OwnerWorks, ActiveFits, ActiveExists, ModemIsAsStated, ActiveIsApplied, Complete
<1>6. ASSUME NEW t \in Workers, Set(t) PROVE ProfileInv'
  <2> DEFINE v == work[t].version
             q == work[t].todo
             y == Head(q)
  <2>1. /\ owner = t /\ q # <<>> /\ work' = [work EXCEPT ![t].todo = Tail(q)]
        /\ UNCHANGED <<profileFiles, owner, profileBounds, orphan, unsure>>
    BY <1>6 DEF Set
  <2>2. \/ modem' = [modem EXCEPT ![y] = v] /\ lost' = lost \ {y}
        \/ modem' = modem /\ lost' = lost \cup {y}
    BY <1>6 DEF Set
  <2>3. owner # Nobody /\ t \in Waiting /\ v \in Version /\ v # Nobody /\ q \in Seq(Things)
    BY <2>1, NobodyIs, WaitingIs DEF OwnerWorks, Waiting
  <2>4. y \in Things /\ Tail(q) \in Seq(Things)
        /\ \A k \in 1..Len(q) : q[k] = y \/ \E j \in 1..Len(Tail(q)) : Tail(q)[j] = q[k]
    <3>1. Len(q) \in Nat /\ Len(q) >= 1 /\ Len(Tail(q)) = Len(q) - 1 /\ y = q[1] /\ q[1] \in Things
          /\ Tail(q) \in Seq(Things)
      BY <2>1, <2>3
    <3>2. \A j \in 1..Len(Tail(q)) : Tail(q)[j] = q[j + 1]
      BY <2>1, <2>3
    <3>3. ASSUME NEW k \in 1..Len(q), k # 1
          PROVE  \E j \in 1..Len(Tail(q)) : Tail(q)[j] = q[k]
      <4>1. k - 1 \in 1..Len(Tail(q)) /\ (k - 1) + 1 = k
        BY <3>1, <3>3
      <4> QED BY <3>2, <4>1
    <3> QED BY <3>1, <3>3
  <2> HIDE DEF v, q, y
  <2>5. /\ work'[t].version = v /\ work'[t].todo = Tail(q)
        /\ \A u \in Workers \ {t} : work'[u] = work[u]
    BY <1>t, <2>1 DEF v
  <2>6. ProfileTypeOK'
    <3>1. work' \in [Workers -> [version : Version \cup {Nobody}, todo : Seq(Things)]]
      BY <1>t, <2>1, <2>4
    <3>2. modem' \in [Things -> Version \cup {Nobody}] /\ lost' \subseteq Things
      BY <1>t, <2>2, <2>3, <2>4 DEF ProfileTypeOK
    <3> QED BY <2>1, <3>1, <3>2 DEF ProfileTypeOK
  <2>7. VersionsFit'
    BY <2>1, <2>3, <2>5 DEF VersionsFit
  <2>8. Waiting' = Waiting
    <3>1. work'[t] # NoWork
      BY <2>3, <2>5 DEF NoWork
    <3> QED BY <2>3, <2>5, <3>1 DEF Waiting
  <2>9. WorkFits'
    <3> SUFFICES ASSUME NEW u \in Waiting, NEW x \in Needs(work'[u].version)
                 PROVE  x \in ToSet(u)' \/ (u = t /\ (x \in lost' \/ modem'[x] = work'[u].version))
      BY <2>1, <2>8 DEF WorkFits, Needs
    <3>1. CASE u # t
      <4>1. work'[u] = work[u] /\ u # owner
        BY <2>1, <2>5, <3>1 DEF Waiting
      <4> QED BY <4>1 DEF WorkFits, ToSet
    <3>2. CASE u = t
      <4>1. x \in Needs(v) /\ x \in Things
        BY <2>3, <2>5, <3>2, ThingsNeeded
      <4>2. x \in ToSet(t) \/ x \in lost \/ modem[x] = v
        BY <2>3, <4>1 DEF WorkFits, v
      <4>3. CASE x = y
        BY <1>t, <2>2, <2>5, <3>2, <4>1, <4>3
      <4>4. CASE x # y /\ x \in ToSet(t)
        <5>1. PICK k \in 1..Len(q) : q[k] = x
          BY <4>4 DEF ToSet, q
        <5>2. \E j \in 1..Len(Tail(q)) : Tail(q)[j] = x
          BY <2>4, <4>4, <5>1
        <5> QED BY <2>5, <3>2, <5>2 DEF ToSet
      <4>5. CASE x # y /\ (x \in lost \/ modem[x] = v)
        BY <1>t, <2>2, <2>5, <3>2, <4>1, <4>5
      <4> QED BY <4>2, <4>3, <4>4, <4>5
    <3> QED BY <3>1, <3>2
  <2>10. OwnerWorks'
    BY <2>1, <2>3, <2>8 DEF OwnerWorks, Waiting
  <2>11. ActiveFits'
    BY <2>1, <2>3, <2>5, <2>8 DEF ActiveFits, Waiting, v
  <2>12. ~Complete' /\ ActiveExists'
    BY <2>1, <2>3 DEF Complete, ActiveExists
  <2> QED BY <2>6, <2>7, <2>9, <2>10, <2>11, <2>12 DEF ModemIsAsStated, ActiveIsApplied
<1>7. ASSUME NEW t \in Workers, EndWork(t) PROVE ProfileInv'
  <2> DEFINE v == work[t].version
  <2>1. /\ owner = t /\ work[t].todo = <<>>
        /\ progress' = [version |-> v, done |-> TRUE]
        /\ work' = [work EXCEPT ![t] = NoWork] /\ owner' = Nobody
        /\ UNCHANGED <<profiles, active, modem, profileBounds, lost, orphan, unsure>>
    BY <1>7 DEF EndWork
  <2>2. owner # Nobody /\ t \in Waiting /\ v \in Version /\ v # Nobody
    BY <2>1, NobodyIs, WaitingIs DEF OwnerWorks, Waiting
  <2>3. \A x \in Needs(v) : x \in lost \/ modem[x] = v
    BY <2>1, <2>2 DEF WorkFits, ToSet
  <2>a. ~unsure => active \in {v.id, Nobody}
    BY <2>2 DEF ActiveFits
  <2> HIDE DEF v
  <2>4. work'[t] = NoWork /\ \A u \in Workers \ {t} : work'[u] = work[u]
    BY <1>t, <2>1
  <2>5. ProfileTypeOK'
    <3>1. work' \in [Workers -> [version : Version \cup {Nobody}, todo : Seq(Things)]]
      BY <1>t, <2>1 DEF NoWork
    <3>2. progress' \in [version : Version \cup {Nobody}, done : BOOLEAN]
      BY <2>1, <2>2
    <3> QED BY <2>1, <3>1, <3>2 DEF ProfileTypeOK
  <2>6. VersionsFit'
    BY <2>1, <2>4 DEF VersionsFit
  <2>7. Waiting' = Waiting \ {t}
    BY <2>4 DEF Waiting
  <2>8. OwnerWorks' /\ ActiveExists'
    BY <2>1 DEF OwnerWorks, ActiveExists
  <2>9. WorkFits'
    <3> SUFFICES ASSUME NEW u \in Waiting', NEW x \in Needs(work'[u].version)
                 PROVE  x \in ToSet(u)'
      BY DEF WorkFits, Needs
    <3>1. u \in Waiting /\ work'[u] = work[u] /\ u # owner
      BY <2>1, <2>4, <2>7 DEF Waiting
    <3> QED BY <3>1 DEF WorkFits, ToSet
  <2>10. ActiveFits'
    BY <2>1, <2>4, <2>7 DEF ActiveFits, Waiting
  <2>11. ModemIsAsStated' /\ ActiveIsApplied'
    BY <2>1, <2>3, <2>a DEF ModemIsAsStated, ActiveIsApplied, Needs
  <2> QED BY <2>5, <2>6, <2>8, <2>9, <2>10, <2>11
<1>8. CASE Stop
  <2>1. End /\ unsure' = (unsure \/ Waiting # {}) /\ UNCHANGED <<profiles, active, orphan>>
    BY <1>8 DEF Stop
  <2>2. unsure' \in BOOLEAN /\ ActiveExists' /\ (unsure' \/ (Waiting = {} /\ unsure' = unsure))
    BY <1>t, <2>1 DEF ActiveExists
  <2> QED BY <1>t, <2>1, <2>2, EndFits DEF VersionsFit
<1>9. ASSUME NEW i \in Ids, StopInDelete(i) PROVE ProfileInv'
  <2>1. /\ End /\ profiles' = [profiles EXCEPT ![i] = Nobody]
        /\ orphan' = (orphan \/ active = i) /\ unsure' = (unsure \/ Waiting # {})
        /\ active' = active
    BY <1>9 DEF StopInDelete
  <2>2. \A j \in Ids : profiles'[j] = IF j = i THEN Nobody ELSE profiles[j]
    BY <1>t, <2>1
  <2>3. profiles' \in [Ids -> Version \cup {Nobody}] /\ orphan' \in BOOLEAN /\ unsure' \in BOOLEAN
    BY <1>t, <2>1
  <2>4. \A j \in Ids : profiles'[j] # Nobody => profiles'[j].id = j
    BY <2>2 DEF VersionsFit
  <2>5. ActiveExists' /\ (unsure' \/ (Waiting = {} /\ unsure' = unsure))
    BY <1>t, <2>1, <2>2 DEF ActiveExists
  <2> QED BY <1>t, <2>1, <2>3, <2>4, <2>5, EndFits
<1>10. ASSUME NEW i \in Ids, StopInApply(i) PROVE ProfileInv'
  <2>1. /\ profiles[i] # Nobody /\ End /\ active' = i /\ orphan' = FALSE /\ unsure' = TRUE
        /\ profiles' = profiles
    BY <1>10 DEF StopInApply
  <2>2. ActiveExists'
    BY <2>1 DEF ActiveExists
  <2> QED BY <1>t, <2>1, <2>2, EndFits DEF VersionsFit
<1>11. CASE UNCHANGED profileVars
  <2>1. UNCHANGED <<profiles, active, progress, work, owner, modem, versions, applies, ends,
                    lost, orphan, unsure>>
    BY <1>11 DEF profileVars
  <2> QED BY <1>w, <2>1
          DEF ProfileTypeOK, VersionsFit, ActiveFits, ModemIsAsStated, ActiveExists,
              ActiveIsApplied, Complete
<1> QED
  BY <1>1, <1>2, <1>3, <1>4, <1>5, <1>6, <1>7, <1>8, <1>9, <1>10, <1>11 DEF ProfileNext

(* The types of the profiles.                                              *)
THEOREM ProfileTypes == ProfileSpec => []ProfileTypeOK
<1>1. ProfileInv => ProfileTypeOK
  BY DEF ProfileInv
<1> QED BY <1>1, ProfileStarts, ProfileNextInv, PTL DEF ProfileSpec

(* Modem, state file, marker and files agree, for any number of profiles,  *)
(* of saves, of applies that wait for the mutex and of stops.              *)
THEOREM ProfilesAlwaysAgree == ProfileSpec => []ProfilesAgree
<1>1. ProfileInv => ProfilesAgree
  BY DEF ProfileInv, ProfilesAgree
<1> QED BY <1>1, ProfileStarts, ProfileNextInv, PTL DEF ProfileSpec

-----------------------------------------------------------------------------
(* The daemon with the four parts.                                         *)

(* Each part takes its own steps and sees nothing of the others.           *)
LEMMA PartSteps ==
  ASSUME [BackgroundNext]_partVars
  PROVE  [SmsNext]_smsVars /\ [BandNext]_bandVars /\ [SshNext]_sshVars /\ [ProfileNext]_profileVars
<1>1. CASE InSms
  BY <1>1 DEF InSms, Sms
<1>2. CASE InBandwidth
  BY <1>2 DEF InBandwidth
<1>3. CASE InSsh
  BY <1>3 DEF InSsh
<1>4. CASE InProfiles
  BY <1>4 DEF InProfiles
<1>5. CASE UNCHANGED partVars
  BY <1>5 DEF partVars
<1> QED BY <1>1, <1>2, <1>3, <1>4, <1>5 DEF BackgroundNext

(* Every behaviour of the daemon is one of each of its parts.              *)
THEOREM PartsInDaemon ==
  BackgroundSpec => (SmsInit /\ [][SmsNext]_smsVars) /\ BandSpec /\ SshSpec /\ ProfileSpec
<1>1. BackgroundInit => SmsInit /\ BandInit /\ SshInit /\ ProfileInit
  BY DEF BackgroundInit, NoSsh
<1> QED
  BY <1>1, PartSteps, PTL DEF BackgroundSpec, BandSpec, SshSpec, ProfileSpec

(* So the daemon keeps what its parts promise.                             *)
THEOREM DaemonKeepsAll ==
  BackgroundSpec =>
    [](KeepsItsWord /\ NoNeedlessCopy /\ CountersAreTrue /\ ServerFollowsConfig /\ ProfilesAgree)
<1>1. SmsTypeOK /\ Kept => KeepsItsWord /\ NoNeedlessCopy
  BY KeptMeans
<1>2. SmsInit /\ [][SmsNext]_smsVars => [](SmsTypeOK /\ Kept)
  BY SmsStarts, TypesStay, KeptStays, PTL
<1> QED
  BY <1>1, <1>2, PartsInDaemon, CountersHold, ServerIsAsAsked, ProfilesAlwaysAgree, PTL
=============================================================================
