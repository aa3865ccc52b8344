--------------------------- MODULE MCFixationStore ---------------------------
(***************************************************************************)
(* FixationStore as its users drive it.  An epoch has EpochBlocks blocks.  *)
(***************************************************************************)
EXTENDS FixationStore

CONSTANT EpochBlocks

EpochStart(b) == b - (b % EpochBlocks)
NextEpoch(b)  == EpochStart(b) + EpochBlocks

\* Subscriptions, projects, plans, developer keys: versions that start now or
\* in the next epoch, deletes in the next epoch.
NowOrNextEpoch == [b \in Blocks |-> {b, NextEpoch(b)}]
AtNextEpoch    == [b \in Blocks |-> {NextEpoch(b)}]
==============================================================================
