----------------------------- MODULE MCATEngine -----------------------------
EXTENDS ATEngine, TLC
CONSTANTS h, n, l1, l2

(* One call of each tier. *)
MCTiers == {h, n, l1}
MCTiersPrio == (h :> "high") @@ (n :> "norm") @@ (l1 :> "low")

(* Two calls that compete for a place in the low tier, and a high one. *)
MCFull == {h, l1, l2}
MCFullPrio == (h :> "high") @@ (l1 :> "low") @@ (l2 :> "low")
MCFullSymmetry == Permutations({l1, l2})

(* The smallest channels: full with one request. *)
MCCap == [t \in Tiers |-> 1]
=============================================================================
