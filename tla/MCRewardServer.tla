--------------------------- MODULE MCRewardServer ---------------------------
(***************************************************************************)
(* RewardServer for TLC: three sessions of a consumer in two epochs, one   *)
(* with a badge.                                                           *)
(***************************************************************************)
EXTENDS RewardServer

CONSTANTS alice, badge

Session(i, c, e, b) == [id |-> i, consumer |-> c, epoch |-> e, badge |-> b]

TwoEpochs == {Session(1, alice, 1, NoBadge), Session(2, alice, 1, badge),
              Session(3, alice, 2, NoBadge)}
RunnerSymmetry == Permutations(Runners)
=============================================================================
