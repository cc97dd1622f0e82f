----------------------------- MODULE WebConsole -----------------------------
(***************************************************************************)
(* The web socket of the console page: useWebConsole in                    *)
(* src/frontend/hooks/use-web-console.ts.  The terminal and the protocol   *)
(* inside the socket are left out, and so are the lengths of the pauses    *)
(* between attempts.                                                       *)
(***************************************************************************)
EXTENDS Naturals

CONSTANT MaxRapidFailures  (* MAX_RAPID_FAILURES                           *)

ASSUME RapidAssumption == MaxRapidFailures \in Nat \ {0}

VARIABLES
  open,        (* the page is open                                         *)
  starting,    (* the timeout of the mount effect, which connects          *)
  connection,  (* connectionState                                          *)
  socket,      (* "none", "opening" or "open"                              *)
  retrying,    (* the timer of the next attempt runs                       *)
  rapid,       (* rapidFailCountRef                                        *)
  opened,      (* everOpenedRef                                            *)
  failure      (* why it is not connected                                  *)

attempt == <<rapid, opened>>
consoleVars == <<open, starting, connection, socket, retrying, attempt, failure>>

ConsoleInit ==
  /\ open = TRUE /\ starting = TRUE
  /\ connection = "connecting" /\ socket = "none" /\ retrying = FALSE
  /\ rapid = 0 /\ opened = FALSE
  /\ failure = "none"

-----------------------------------------------------------------------------
(* A new socket takes the place of the old one, whose handlers are gone.   *)
Connect ==
  /\ socket' = "opening" /\ connection' = "connecting"
  /\ failure' = "none"

Starts ==
  /\ starting /\ starting' = FALSE
  /\ Connect
  /\ UNCHANGED <<open, retrying, attempt>>

RetryFires ==
  /\ retrying /\ retrying' = FALSE
  /\ Connect
  /\ UNCHANGED <<open, starting, attempt>>

SocketOpens ==
  /\ socket = "opening"
  /\ socket' = "open" /\ connection' = "connected"
  /\ opened' = TRUE /\ rapid' = 0
  /\ UNCHANGED <<open, starting, retrying, failure>>

Settle(kind, state) ==
  /\ failure' = kind /\ connection' = state
  /\ UNCHANGED <<retrying, rapid>>

ScheduleReconnect == connection' = "reconnecting" /\ retrying' = TRUE /\ UNCHANGED failure

(* A socket counts as closed rapidly when it never opened, or not long ago.*)
Rapid(soon) == soon \/ socket = "opening"

CountClose(soon) == rapid' = IF Rapid(soon) THEN rapid + 1 ELSE 0
GivesUpAfter(soon) == Rapid(soon) /\ rapid + 1 >= MaxRapidFailures

GiveUp(linkIsDown) ==
  /\ IF opened \/ linkIsDown
     THEN failure' = "dropped" /\ connection' = "disconnected"
     ELSE failure' = "unreachable" /\ connection' = "unavailable"
  /\ UNCHANGED retrying

(* code is "clean", "refusal" (of the server) or "other".                  *)
SocketCloses(code, soon, linkIsDown) ==
  /\ socket # "none" /\ socket' = "none"
  /\ \/ code = "clean" /\ socket = "open" /\ Settle("ended", "unavailable")
     \/ code = "refusal" /\ Settle("refused", "disconnected")
     \/ /\ code = "other" \/ (code = "clean" /\ socket = "opening")
        /\ CountClose(soon)
        /\ IF GivesUpAfter(soon) THEN GiveUp(linkIsDown) ELSE ScheduleReconnect
  /\ UNCHANGED <<open, starting, opened>>

(* The user comes after the timeout of no length with which it begins.     *)
Reconnect ==
  /\ open /\ ~starting
  /\ retrying' = FALSE /\ rapid' = 0 /\ opened' = FALSE
  /\ Connect
  /\ UNCHANGED <<open, starting>>

(* Fault: the timer of the next attempt is left running.                   *)
DisconnectForNow ==
  /\ open /\ ~starting
  /\ socket' = "none"
  /\ failure' = "ended" /\ connection' = "unavailable"
  /\ UNCHANGED <<open, starting, retrying, attempt>>

Disconnect ==
  /\ open /\ ~starting
  /\ retrying' = FALSE /\ socket' = "none"
  /\ failure' = "ended" /\ connection' = "unavailable"
  /\ UNCHANGED <<open, starting, attempt>>

CloseConsole ==
  /\ open /\ open' = FALSE
  /\ starting' = FALSE /\ retrying' = FALSE /\ socket' = "none"
  /\ UNCHANGED <<connection, attempt, failure>>

-----------------------------------------------------------------------------
ConsoleNext ==
  \/ Starts \/ RetryFires \/ SocketOpens
  \/ \E code \in {"clean", "refusal", "other"}, soon, linkIsDown \in BOOLEAN :
       SocketCloses(code, soon, linkIsDown)
  \/ Reconnect \/ Disconnect \/ CloseConsole

ConsoleSpec == ConsoleInit /\ [][ConsoleNext]_consoleVars

-----------------------------------------------------------------------------
ConsoleFlags == /\ open \in BOOLEAN /\ starting \in BOOLEAN
                /\ retrying \in BOOLEAN /\ opened \in BOOLEAN

ConsoleTypeOK ==
  /\ ConsoleFlags
  /\ connection \in {"connecting", "connected", "reconnecting", "disconnected", "unavailable"}
  /\ socket \in {"none", "opening", "open"}
  /\ rapid \in 0..MaxRapidFailures
  /\ failure \in {"none", "ended", "refused", "dropped", "unreachable"}

(* What the console says of its connection is so, and there is never more  *)
(* than one thing on its way: no socket that opens behind a page that says *)
(* it is over, and no second timer or socket beside the one that counts.   *)
ConsoleIsTrue ==
  /\ open =>
       /\ (connection = "connected") = (socket = "open")
       /\ (connection = "reconnecting") = (retrying /\ socket = "none")
       /\ connection = "connecting" => socket = "opening" \/ starting
       /\ connection \in {"disconnected", "unavailable"} => socket = "none" /\ failure # "none"
  /\ ~(retrying /\ socket # "none")
  /\ ~open => ~starting /\ ~retrying /\ socket = "none"
=============================================================================
