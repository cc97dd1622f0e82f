------------------------------- MODULE ATSend -------------------------------
(***************************************************************************)
(* What the engine relies on when it calls Transport.Send, whatever the    *)
(* transport: the interface Transport of atengine/transport.go.            *)
(*                                                                         *)
(* One command is in a transport at a time.  While it is there, the modem  *)
(* receives it at most MaxWrites times, and Send may report an answer of   *)
(* the modem only if it received the command.  ATEngine uses the three     *)
(* actions as the calls it makes; ATTransport implements them.             *)
(***************************************************************************)
EXTENDS Naturals

CONSTANTS
  Requests,    (* the commands, one per call of the engine                 *)
  NoReq,       (* the transport is idle                                    *)
  MaxWrites    (* 1 for one way to the modem, 2 for a device with fallback *)

VARIABLES
  sending,     (* the command in Send                                      *)
  sent,        (* how often the modem received each command                *)
  outcome      (* what Send returned for each command                      *)

sendVars == <<sending, sent, outcome>>

(* The modem gave a final result (OK, or an error it reports), or the      *)
(* transport failed or ran out of time without one.                        *)
Kinds == {"answer", "fail"}

TypeOK ==
  /\ sending \in Requests \cup {NoReq}
  /\ sent \in [Requests -> 0..MaxWrites]
  /\ outcome \in [Requests -> Kinds \cup {"none"}]

Init ==
  /\ sending = NoReq
  /\ sent = [r \in Requests |-> 0]
  /\ outcome = [r \in Requests |-> "none"]

Begin(r) ==
  /\ sending = NoReq
  /\ outcome[r] = "none"
  /\ sending' = r
  /\ UNCHANGED <<sent, outcome>>

Write ==
  /\ sending # NoReq
  /\ sent[sending] < MaxWrites
  /\ sent' = [sent EXCEPT ![sending] = @ + 1]
  /\ UNCHANGED <<sending, outcome>>

End(kind) ==
  /\ sending # NoReq
  /\ kind = "answer" => sent[sending] > 0
  /\ outcome' = [outcome EXCEPT ![sending] = kind]
  /\ sending' = NoReq
  /\ UNCHANGED sent

Next ==
  \/ \E r \in Requests : Begin(r)
  \/ Write
  \/ \E kind \in Kinds : End(kind)

Spec == Init /\ [][Next]_sendVars
=============================================================================
