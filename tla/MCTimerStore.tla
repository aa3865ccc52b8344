---------------------------- MODULE MCTimerStore ----------------------------
(***************************************************************************)
(* TimerStore on a small chain: enough heights for a timer to be overtaken *)
(* by earlier and later ones, two keys so that two timers share an expiry. *)
(***************************************************************************)
EXTENDS TimerStore
=============================================================================
