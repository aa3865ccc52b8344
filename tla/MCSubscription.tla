--------------------------- MODULE MCSubscription ---------------------------
(***************************************************************************)
(* Subscription for TLC: prices and limits of the instances.  Epochs of    *)
(* two blocks, a memory of two blocks and months of five, so that months   *)
(* end at both positions of an epoch.                                      *)
(***************************************************************************)
EXTENDS Subscription

CONSTANTS basic, premium

\* Everything but renewals; deleted projects; renewals.
Sales == {"add_plan", "buy", "extend", "advance"}
SalesScenarios ==
    {Sales \cup {"upgrade", "del_plan"},
     {"add_plan", "buy", "upgrade", "del_project"},
     Sales \cup {"auto_renewal"}}

CheapAndDear == [p \in PlanIndices |-> IF p = basic THEN 2 ELSE 3]
=============================================================================
