------------------------- MODULE MCProviderSession -------------------------
(***************************************************************************)
(* ProviderSession for TLC.  The goroutines are interchangeable.           *)
(***************************************************************************)
EXTENDS ProviderSession, TLC

Symmetry == Permutations(Relays)
=============================================================================
