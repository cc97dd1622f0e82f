----------------------------- MODULE ATService -----------------------------
(***************************************************************************)
(* What the AT engine promises to the programs that use it, without tiers, *)
(* channels, worker and transport: what a caller of                        *)
(* ExecContextWithPriority can know of its command (atengine/engine.go).   *)
(* ATEngine is shown to implement it.                                      *)
(*                                                                         *)
(* A caller that is refused can be sure that the modem never receives its  *)
(* command, and one that was told how it ended that the modem does not     *)
(* receive it again.  A caller that left can be sure of nothing until      *)
(* Close has returned.                                                     *)
(***************************************************************************)
EXTENDS Naturals

CONSTANTS
  Calls,       (* the calls made to the engine                             *)
  MaxWrites    (* how often the modem may receive one command              *)

VARIABLES
  phase,       (* what each caller knows                                   *)
  received,    (* how often the modem received each command                *)
  closed       (* Close has returned                                       *)

serviceVars == <<phase, received, closed>>

(* The caller was told of an answer of the modem, or that there is none.   *)
Verdicts == {"answer", "fail"}

Init ==
  /\ phase = [c \in Calls |-> "idle"]
  /\ received = [c \in Calls |-> 0]
  /\ closed = FALSE

Ask(c) ==
  /\ phase[c] = "idle"
  /\ phase' = [phase EXCEPT ![c] = "asked"]
  /\ UNCHANGED <<received, closed>>

(* The low tier was full, the context done or the engine closed.           *)
Refuse(c) ==
  /\ phase[c] = "asked"
  /\ received[c] = 0
  /\ phase' = [phase EXCEPT ![c] = "refused"]
  /\ UNCHANGED <<received, closed>>

(* The modem receives the command, also when its caller has left.          *)
Deliver(c) ==
  /\ phase[c] \in {"asked", "left"}
  /\ received[c] < MaxWrites
  /\ ~closed
  /\ received' = [received EXCEPT ![c] = @ + 1]
  /\ UNCHANGED <<phase, closed>>

Tell(c, verdict) ==
  /\ phase[c] = "asked"
  /\ verdict = "answer" => received[c] > 0
  /\ phase' = [phase EXCEPT ![c] = verdict]
  /\ UNCHANGED <<received, closed>>

(* The caller's context is done, or the engine closed, before a verdict.   *)
Leave(c) ==
  /\ phase[c] = "asked"
  /\ phase' = [phase EXCEPT ![c] = "left"]
  /\ UNCHANGED <<received, closed>>

Close ==
  /\ ~closed
  /\ closed' = TRUE
  /\ UNCHANGED <<phase, received>>

Next ==
  \/ \E c \in Calls :
       \/ Ask(c) \/ Refuse(c) \/ Deliver(c) \/ Leave(c)
       \/ \E verdict \in Verdicts : Tell(c, verdict)
  \/ Close

Spec == Init /\ [][Next]_serviceVars
=============================================================================
