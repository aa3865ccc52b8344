--------------------------- MODULE MCEpochStorage ---------------------------
(***************************************************************************)
(* EpochStorage for TLC.  Epochs of one to three blocks and a memory of    *)
(* none to two epochs, so that one change makes the memory longer than the *)
(* history and another shorter than an epoch.                              *)
(***************************************************************************)
EXTENDS EpochStorage
=============================================================================
