----------------------------- MODULE MCATStack -----------------------------
EXTENDS ATStack, TLC
CONSTANTS n, l

(* Two calls of different tiers, and channels that one request fills. *)
MCCalls == {n, l}
MCCallsPrio == (n :> "norm") @@ (l :> "low")
MCPlaces == [t \in Tiers |-> 1]

(* A device without a fallback and a modem that prints nothing by itself:  *)
(* few enough states for liveness.                                         *)
MCStackSpec ==
  /\ StackInit /\ mode = "device"
  /\ [][StackNext /\ ~noisy']_stackVars
  /\ StackFairness
=============================================================================
