----------------------------- MODULE MCConflict -----------------------------
(***************************************************************************)
(* ReliabilityManager and Conflict for TLC.  Epochs of two blocks; one     *)
(* juror runs the software, the others send what they like; one of them    *)
(* has most of the stake.                                                  *)
(***************************************************************************)
EXTENDS ReliabilityManager

CONSTANTS j1, j2, j3

Stakes == [p \in Jury |-> IF p = j2 THEN 3 ELSE 1]
=============================================================================
