---------------------------- MODULE SmsForwarder ----------------------------
(* The SMS forwarder (src/backend/internal/telemetry/sms_forwarder.go): a  *)
(* goroutine that lists the modem's inbox every 15 seconds and sends what  *)
(* it has not seen to a phone, a mailbox and a webhook. What it has seen   *)
(* is kept in memory and in a file on tmpfs.                               *)
(*                                                                         *)
(* An item is a message as a listing shows it. A long message (two parts)  *)
(* is one item in PDU mode, of the parts that have arrived; in text mode   *)
(* each part is an item of its own, and the time stamp is cut to the date: *)
(* every way of showing a message has a fingerprint of its own, so that    *)
(* the item stands for its fingerprint. The order of a batch (newest       *)
(* first by the text of the time stamp) is left open.                      *)
EXTENDS Naturals, Sequences, FiniteSets

CONSTANTS
  Messages,     \* the messages that may arrive
  Long,         \* those of them that come in two parts
  Relays,       \* those that look like a relay of our own
  Keyed,        \* the pairs <<message, part>> whose text holds the keyword
  PoolOf,       \* the storage pool of each message, "ME" or "SM"
  Configs,      \* the settings the user may save
  None,
  MaxOutages,   \* bound: times that something outside fails
  MaxRestarts,  \* bound: stops of the process or the device from outside
  MaxSaves      \* bound: times the user saves the settings

Targets  == {"phone", "mail", "webhook"}
Services == {"modem", "mail", "webhook", "disk"}
Pools    == {"ME", "SM"}

ASSUME SmsAssumption ==
  /\ Long \subseteq Messages /\ Relays \subseteq Messages /\ Keyed \subseteq Messages \X {1, 2}
  /\ PoolOf \in [Messages -> Pools]
  /\ Configs \subseteq [enabled : BOOLEAN, targets : SUBSET Targets, keyword : BOOLEAN,
                        server : BOOLEAN, rule : Targets \cup {None}]
  /\ {MaxOutages, MaxRestarts, MaxSaves} \subseteq Nat

VARIABLES
  stored,    \* the parts of each message that are in the inbox
  config,    \* the settings file
  outage,    \* the services that may fail at present
  file,      \* the file of fingerprints, on tmpfs
  seen,      \* the same in memory
  pc,        \* where the forwarder is
  seed,      \* seedOnly, the argument of pollOnce
  cfg,       \* the settings this poll has read
  todo,      \* the items this poll has not come to
  item,      \* the one it is forwarding
  left,      \* the sends it still has to do for it
  attempt,   \* which of the three attempts of sendSMSWithRetry
  ok,        \* forwardSuccess
  clock,     \* the context of 20 seconds: "fresh", "slow" or "over"
  outages, restarts, saves,
  unmet,     \* history: the pairs <<item, target>> still to be delivered
  sent       \* history: the pairs delivered, with no excuse for another copy

world   == <<stored, config, outage>>
bounds  == <<outages, restarts, saves>>
poll    == <<seed, cfg, todo>>
sending == <<item, left, attempt, ok>>
history == <<unmet, sent>>
smsVars == <<world, file, seen, pc, poll, sending, clock, bounds, history>>

Whole(m) == IF m \in Long THEN {1, 2} ELSE {1}

Items == [msg : Messages, parts : SUBSET {1, 2}, how : {"pdu", "text"}]

(* A send that counts for forwardSuccess, and one of a rule, which does    *)
(* not.                                                                    *)
Task == [to : Targets, must : BOOLEAN]

(* A settings file that is missing.                                        *)
NoSettings ==
  [enabled |-> FALSE, targets |-> {}, keyword |-> FALSE, server |-> FALSE, rule |-> None]

SmsTypeOK ==
  /\ stored \in [Messages -> SUBSET {1, 2}] /\ config \in Configs \cup {NoSettings}
  /\ outage \in SUBSET Services
  /\ file \in SUBSET Items /\ seen \in SUBSET Items
  /\ pc \in {"down", "fetching", "polling", "sending", "idle"}
  /\ seed \in BOOLEAN /\ todo \in SUBSET Items
  /\ cfg \in IF pc \in {"down", "idle"} THEN {None} ELSE Configs \cup {NoSettings}
  /\ item \in Items \cup {None} /\ (pc = "sending" => item \in Items)
  /\ left \in Seq(Task)
  /\ attempt \in 1..3 /\ ok \in BOOLEAN /\ clock \in {"fresh", "slow", "over"}
  /\ outages \in 0..MaxOutages /\ restarts \in 0..MaxRestarts /\ saves \in 0..MaxSaves
  /\ unmet \in SUBSET (Items \X Targets) /\ sent \in SUBSET (Items \X Targets)

SmsInit ==
  /\ stored = [m \in Messages |-> {}] /\ config = NoSettings /\ outage = {}
  /\ file = {} /\ seen = {}
  /\ pc = "down" /\ seed = TRUE /\ cfg = None /\ todo = {}
  /\ item = None /\ left = <<>> /\ attempt = 1 /\ ok = TRUE /\ clock = "fresh"
  /\ outages = 0 /\ restarts = 0 /\ saves = 0
  /\ unmet = {} /\ sent = {}

-----------------------------------------------------------------------------
(* The modem, the user and the services outside.                           *)

Arrive ==
  /\ \E m \in Messages : \E p \in Whole(m) \ stored[m] :
       stored' = [stored EXCEPT ![m] = @ \cup {p}]
  /\ UNCHANGED <<config, outage, file, seen, pc, poll, sending, clock, bounds, history>>

(* The handler renames a complete file into place. It is served once the   *)
(* seed is done.                                                           *)
SaveSettings ==
  /\ pc # "down" /\ (seed => pc = "idle")
  /\ saves < MaxSaves /\ saves' = saves + 1
  /\ config' \in Configs
  /\ UNCHANGED <<stored, outage, file, seen, pc, poll, sending, clock, outages, restarts, history>>

Break ==
  /\ outages < MaxOutages /\ outages' = outages + 1
  /\ outage = {} /\ \E s \in Services : outage' = {s}
  /\ UNCHANGED <<stored, config, file, seen, pc, poll, sending, clock, restarts, saves, history>>

Recover ==
  /\ outage # {} /\ outage' = {}
  /\ UNCHANGED <<stored, config, file, seen, pc, poll, sending, clock, bounds, history>>

-----------------------------------------------------------------------------
(* The process ends, with what it has in memory; with the device, the file *)
(* goes too. A mark that is on no file any more, or a send broken off,     *)
(* excuses another copy.                                                   *)
Ends(kept) ==
  /\ pc' = "down" /\ seen' = {} /\ file' = kept /\ cfg' = None
  /\ todo' = {} /\ item' = None /\ left' = <<>> /\ attempt' = 1 /\ ok' = TRUE /\ clock' = "fresh"
  /\ sent' = sent \ ((((seen \cup file) \ kept) \cup {item}) \X Targets)
  /\ UNCHANGED <<world, seed, unmet>>

Stopped ==
  /\ restarts < MaxRestarts /\ restarts' = restarts + 1
  /\ \E kept \in {file, {}} : Ends(kept)
  /\ UNCHANGED <<outages, saves>>

(* ExecContext has returned no result, only the error of its context, and  *)
(* the code reads the result: the panic ends the daemon.                   *)
Panics == Ends(file) /\ UNCHANGED bounds

(* Start: loadSeen, then pollOnce(true) before the loop.                   *)
Start ==
  /\ pc = "down" /\ pc' = "fetching"
  /\ seen' = seen \cup file /\ seed' = TRUE /\ cfg' = config /\ clock' = "fresh"
  /\ UNCHANGED <<world, file, todo, sending, bounds, history>>

(* The ticker. The reload flag has loadSeen read marks that memory has     *)
(* already, since every mark is set in both.                               *)
Tick ==
  /\ pc = "idle" /\ pc' = "fetching"
  /\ seed' = FALSE /\ cfg' = config /\ clock' = "fresh"
  /\ UNCHANGED <<world, file, seen, todo, sending, bounds, history>>

-----------------------------------------------------------------------------
(* The listing of the inbox: PDU mode, text mode where that failed, and    *)
(* nothing of a pool where both did. Errors are not reported.              *)
Shown(m, how) ==
  CASE stored[m] = {} \/ how = "none" -> {}
    [] how = "pdu"  -> {[msg |-> m, parts |-> stored[m], how |-> "pdu"]}
    [] how = "text" -> {[msg |-> m, parts |-> {p}, how |-> "text"] : p \in stored[m]}

Listings ==
  IF "modem" \in outage THEN [Pools -> {"pdu", "text", "none"}] ELSE {[q \in Pools |-> "pdu"]}

Fetch ==
  /\ pc = "fetching" /\ pc' = "polling"
  /\ \E how \in Listings : todo' = UNION {Shown(m, how[PoolOf[m]]) : m \in Messages}
  /\ UNCHANGED <<world, file, seen, seed, cfg, sending, clock, bounds, history>>

FetchPanics ==
  /\ pc = "fetching" /\ "modem" \in outage
  /\ Panics

(* The 20 seconds are long enough while everything works; retries and      *)
(* services that do not answer use them up.                                *)
TimeIsUp ==
  /\ pc \in {"polling", "sending"}
  /\ clock = "slow" \/ outage # {}
  /\ clock # "over" /\ clock' = "over"
  /\ UNCHANGED <<world, file, seen, pc, poll, sending, bounds, history>>

-----------------------------------------------------------------------------
(* markSeen: an error of the file is ignored.                              *)
MarkSeen(i) ==
  /\ seen' = seen \cup {i}
  /\ \/ file' = file \cup {i}
     \/ "disk" \in outage /\ file' = file

Of(i) == {i} \X Targets

Takes(i) == pc = "polling" /\ i \in todo /\ todo' = todo \ {i}

SkipSeen(i) ==
  /\ Takes(i) /\ i \in seen
  /\ UNCHANGED <<world, file, seen, pc, seed, cfg, sending, clock, bounds, history>>

SeedItem(i) ==
  /\ Takes(i) /\ i \notin seen /\ seed
  /\ MarkSeen(i) /\ unmet' = unmet \ Of(i)
  /\ UNCHANGED <<world, pc, seed, cfg, sending, clock, bounds, sent>>

(* Forwarding is off: the item is left unmarked.                           *)
SkipDisabled(i) ==
  /\ Takes(i) /\ i \notin seen /\ ~seed /\ ~cfg.enabled
  /\ UNCHANGED <<world, file, seen, pc, seed, cfg, sending, clock, bounds, history>>

IsRelay(i) == i.msg \in Relays /\ 1 \in i.parts

MatchesKeyword(i) == cfg.keyword => \E p \in i.parts : <<i.msg, p>> \in Keyed

Fresh(i) == Takes(i) /\ i \notin seen /\ ~seed /\ cfg.enabled

PassOver(i) ==
  /\ Fresh(i) /\ (IsRelay(i) \/ ~MatchesKeyword(i))
  /\ MarkSeen(i) /\ unmet' = unmet \ Of(i)
  /\ UNCHANGED <<world, pc, seed, cfg, sending, clock, bounds, sent>>

(* The sends of an item, in the order of the code.                         *)
TaskFor(t) == IF t \in cfg.targets THEN <<[to |-> t, must |-> TRUE]>> ELSE <<>>

RuleTask == IF cfg.rule \in Targets THEN <<[to |-> cfg.rule, must |-> FALSE]>> ELSE <<>>

Tasks == TaskFor("phone") \o TaskFor("mail") \o TaskFor("webhook") \o RuleTask

BeginItem(i) ==
  /\ Fresh(i) /\ ~IsRelay(i) /\ MatchesKeyword(i)
  /\ pc' = "sending" /\ item' = i /\ left' = Tasks /\ attempt' = 1 /\ ok' = TRUE
  /\ unmet' = (unmet \ Of(i)) \cup ({i} \X cfg.targets)
  /\ UNCHANGED <<world, file, seen, seed, cfg, clock, bounds, sent>>

EndPoll ==
  /\ pc = "polling" /\ todo = {} /\ pc' = "idle" /\ cfg' = None /\ clock' = "fresh"
  /\ UNCHANGED <<world, file, seen, seed, todo, sending, bounds, history>>

-----------------------------------------------------------------------------
(* One send. What a rule sends is not followed: its errors are ignored.    *)

Sending(t) == pc = "sending" /\ left # <<>> /\ Head(left).to = t

Delivered ==
  LET pair == {<<item, Head(left).to>>}
  IN IF Head(left).must THEN unmet' = unmet \ pair /\ sent' = sent \cup pair
                        ELSE UNCHANGED history

Returns(success) ==
  /\ left' = Tail(left) /\ attempt' = 1
  /\ ok' = (ok /\ (success \/ ~Head(left).must))
  /\ UNCHANGED <<world, file, seen, pc, poll, item, bounds>>

Again(n) ==
  /\ attempt' = n
  /\ UNCHANGED <<world, file, seen, pc, poll, item, left, ok, bounds>>

SmsSentAgain ==
  /\ Sending("phone") /\ clock # "over" /\ Delivered /\ UNCHANGED clock
  /\ \/ attempt < 3 /\ Again(attempt + 1)
     \/ attempt = 3 /\ Returns(TRUE)

SmsSent ==
  /\ Sending("phone") /\ clock # "over"
  /\ Delivered /\ Returns(TRUE) /\ UNCHANGED clock

(* An attempt fails: no registration, an error, or an answer that got lost *)
(* after the message had left. Once the 20 seconds are over the engine     *)
(* writes nothing any more.                                                *)
AttemptFails ==
  /\ Sending("phone") /\ ("modem" \in outage \/ clock = "over")
  /\ clock' = IF clock = "fresh" THEN "slow" ELSE clock
  /\ sent' = IF Head(left).must THEN sent \ {<<item, "phone">>} ELSE sent
  /\ UNCHANGED unmet

SmsFailsQuietly ==
  /\ AttemptFails
  /\ \/ attempt < 3 /\ Again(attempt + 1)
     \/ attempt = 3 /\ Returns(TRUE)

SmsFailsForEver ==
  /\ AttemptFails
  /\ \/ attempt < 3 /\ Again(attempt + 1)
     \/ attempt = 3 /\ Again(1)

SmsFails ==
  /\ AttemptFails
  /\ \/ attempt < 3 /\ Again(attempt + 1)
     \/ attempt = 3 /\ Returns(FALSE)

(* Time runs out before or while the engine has the command: it returns    *)
(* no result, and the text of the error reads it.                          *)
SmsPanics ==
  /\ Sending("phone") /\ (clock # "fresh" \/ outage # {})
  /\ Panics

(* Mail has no deadline: where the server is silent, SendMail does not     *)
(* return. The server is read from the file again.                         *)
MailSent ==
  /\ Sending("mail") /\ config.server /\ "mail" \notin outage
  /\ Delivered /\ Returns(TRUE) /\ UNCHANGED clock

MailTrouble ==
  /\ Sending("mail") /\ config.server /\ "mail" \in outage
  /\ \/ Delivered /\ Returns(TRUE)
     \/ Returns(FALSE) /\ UNCHANGED history
  /\ UNCHANGED clock

NoMailServer ==
  /\ Sending("mail") /\ ~config.server
  /\ Returns(FALSE) /\ UNCHANGED <<clock, history>>

WebhookSent ==
  /\ Sending("webhook") /\ clock # "over"
  /\ Delivered /\ Returns(TRUE) /\ UNCHANGED clock

WebhookFails ==
  /\ Sending("webhook") /\ (clock = "over" \/ "webhook" \in outage)
  /\ Returns(FALSE) /\ UNCHANGED <<clock, history>>

(* Marked only when every send that counts has succeeded; a failure is     *)
(* recorded and the item is forwarded again by the next poll.              *)
Finish ==
  /\ pc = "sending" /\ left = <<>> /\ pc' = "polling" /\ item' = None
  /\ left' = <<>> /\ attempt' = 1 /\ ok' = TRUE
  /\ \/ ok /\ MarkSeen(item) /\ UNCHANGED history
     \/ ~ok /\ sent' = sent \ Of(item) /\ UNCHANGED <<file, seen, unmet>>
  /\ UNCHANGED <<world, poll, clock, bounds>>

-----------------------------------------------------------------------------
Item(i) ==
  SkipSeen(i) \/ SeedItem(i) \/ SkipDisabled(i) \/ PassOver(i) \/ BeginItem(i)

(* The steps that the goroutine takes of its own accord.                   *)
Works ==
  \/ Start \/ Tick \/ Fetch \/ EndPoll \/ Finish
  \/ \E i \in todo : Item(i)
  \/ SmsSent \/ SmsFails \/ MailSent \/ NoMailServer \/ WebhookSent \/ WebhookFails

SmsNext ==
  \/ Arrive \/ SaveSettings \/ Break \/ Recover
  \/ Stopped \/ FetchPanics \/ TimeIsUp \/ SmsPanics \/ MailTrouble
  \/ Works

(* The goroutine is scheduled and systemd starts the daemon again; what    *)
(* failed outside works again some day. Nothing else has to happen: mail   *)
(* that hangs need not return before that.                                 *)
SmsFairness == WF_smsVars(Works) /\ WF_smsVars(Recover)

SmsSpec == SmsInit /\ [][SmsNext]_smsVars /\ SmsFairness

-----------------------------------------------------------------------------
(* What the forwarder has undertaken to forward and then ceases to look at *)
(* (pollOnce, sms_forwarder.go:328) has been delivered to every target     *)
(* that the settings named, whatever failed meanwhile, was retried,        *)
(* changed or restarted; the one exception is what the seed of a restart   *)
(* passes over.                                                            *)
KeepsItsWord == \A i \in seen : unmet \cap Of(i) = {}

(* No target is about to get an item that it has, unless since then a send *)
(* of it failed, the process ended in the middle of it, or its mark was    *)
(* lost with memory and file: the polls of a forwarder that works          *)
(* (sms_forwarder.go:256) never repeat one.                                *)
NoNeedlessCopy ==
  pc = "sending" /\ left # <<>> /\ Head(left).must => <<item, Head(left).to>> \notin sent

(* A message that has arrived completely is dealt with: forwarded, passed  *)
(* over or seeded, whatever failed on the way and however often the daemon *)
(* fell over it; unless forwarding is off, or mail is asked for without a  *)
(* server, which fails every 15 seconds for ever.                          *)
NeverDone == ~config.enabled \/ ("mail" \in config.targets /\ ~config.server)

EventuallyDealtWith ==
  \A m \in Messages :
    stored[m] = Whole(m) ~>
      (NeverDone \/ [msg |-> m, parts |-> Whole(m), how |-> "pdu"] \in seen)
=============================================================================
