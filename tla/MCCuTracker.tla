---------------------------- MODULE MCCuTracker ----------------------------
(***************************************************************************)
(* CuTracker for TLC: one plan, two providers, amounts that do not divide  *)
(* the credit evenly.                                                      *)
(***************************************************************************)
EXTENDS CuTracker, TLC

CONSTANT basic

OnePrice == [p \in PlanIndices |-> 5]
ProviderSymmetry == Permutations(Providers)
=============================================================================
