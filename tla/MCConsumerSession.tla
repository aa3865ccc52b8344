--------------------------- MODULE MCConsumerSession ---------------------------
(***************************************************************************)
(* Two providers, of which one supports an addon, and two epochs: the      *)
(* second pairing drops one provider and keeps the other.  A behaviour has *)
(* two relays across the epochs; or three relays on one provider within an *)
(* epoch, which is what it takes to fill its sessions and to block it for  *)
(* them; or one relay with both providers and the ticker that reconnects   *)
(* reported providers, across the epochs.                                  *)
(***************************************************************************)
EXTENDS ConsumerSession

CONSTANTS p1, p2

MCSupports(k) == IF k = "addon" THEN {p2} ELSE {p1, p2}
MCPairingOf(e) == IF e = 1 THEN {p1, p2} ELSE {p2}
MCSlowProbes == {<<1, p2>>}

Setting(epochs, relays, picks, keys, ticker) ==
    [epochs |-> epochs, relays |-> relays, picks |-> picks, keys |-> keys, ticker |-> ticker]

MCSettings ==
    {Setting(2, 2, 1, Keys, FALSE),
     Setting(1, 3, 1, {"addon"}, FALSE),
     Setting(2, 1, 2, Keys, TRUE)}
================================================================================
