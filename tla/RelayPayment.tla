---------------------------- MODULE RelayPayment ----------------------------
(***************************************************************************)
(* Relay payments of x/pairing, for one provider on one chain: a claim     *)
(* carries the last signed relay of some sessions; each is checked against *)
(* the payments the chain remembers, its badge and the consumer's CU       *)
(* limits, and charged to its project and subscription.  The payments of   *)
(* an epoch are forgotten with the epoch.                                  *)
(*                                                                         *)
(* Epochs are numbered; a relay carries the start of its epoch.  A         *)
(* consumer is a developer key with a project of its own, which exists     *)
(* throughout; the month of its subscription does not end here (see        *)
(* Subscription) and the pairing of a remembered epoch is valid.           *)
(***************************************************************************)
EXTENDS Integers, Sequences, FiniteSets, FiniteSetsExt, Functions, SequencesExt

CONSTANTS
    Sessions,       \* records [id, consumer, epoch, badge]
    NoBadge,        \* badge of a session without one
    EpochsToSave,   \* epochs the chain remembers
    EpochCuLimit,   \* of the strictest policy of a project
    TotalCuLimit,   \* of the strictest policy of a project
    MonthCu,        \* CU of the subscription's month
    CuAllocation,   \* CU of a badge
    Word            \* integers wrap at this value: 2^64 in the code

Consumers == {s.consumer : s \in Sessions}
Badges == {s.badge : s \in Sessions} \ {NoBadge}

\* The consumer's signature covers the session's id: ids are 63-bit random numbers.
ASSUME SessionsAssumption ==
    /\ \A s \in Sessions : s.epoch \in Nat \ {0} /\ s.id \in Nat
    /\ \A s, t \in Sessions : s.id = t.id => s = t
ASSUME LimitsAssumption ==
    /\ {EpochsToSave, EpochCuLimit, TotalCuLimit, MonthCu, CuAllocation} \subseteq Nat
    /\ Word \in Nat /\ Word > TotalCuLimit + MonthCu

-----------------------------------------------------------------------------
(* The chain's state, a record: the epoch, the payments of remembered      *)
(* epochs, the CU used of a project, left of a subscription and used of a  *)
(* badge, and as a history how often a session was paid, which were paid   *)
(* without a record and with how much CU a payment was credited.           *)

InitPayments ==
    [now      |-> 1,
     payments |-> {},                               \* [sess, cu]
     used     |-> [c \in Consumers |-> 0],          \* project.UsedCu
     left     |-> [c \in Consumers |-> MonthCu],    \* sub.MonthCuLeft
     badge    |-> [b \in Badges |-> 0],             \* BadgeUsedCu
     paid     |-> [s \in Sessions |-> 0],
     unrecorded |-> {},
     credited |-> {}]                               \* [sess, cu, credit, used]

Earliest(st) == IF st.now > EpochsToSave THEN st.now - EpochsToSave ELSE 0

\* IsDoubleSpend: the key has no epoch, the session's id is enough.
IsDoubleSpend(st, r) == \E p \in st.payments : p.sess = r.sess

\* checkBadge: the entry of used CU expires with the badge's epoch.
BadgeExpired(st, r) == r.sess.epoch + EpochsToSave <= st.now
CheckBadge(st, r) ==
    r.sess.badge # NoBadge =>
        /\ ~BadgeExpired(st, r)
        /\ r.cu + st.badge[r.sess.badge] <= CuAllocation

\* The checks that reject one relay of a claim.
Rejected(st, r) == ~CheckBadge(st, r) \/ IsDoubleSpend(st, r)

\* AddEpochPayment and handleBadgeCu, and the CU of the consumer's payments in
\* that epoch.  A payment of a forgotten epoch is not recorded.
Forgotten(st, s) == s.epoch < Earliest(st)
AddEpochPayment(st, r) ==
    [st EXCEPT !.payments = IF Forgotten(st, r.sess) THEN @ ELSE @ \cup {r},
               !.badge = IF r.sess.badge = NoBadge THEN @
                         ELSE [st.badge EXCEPT ![r.sess.badge] = @ + r.cu]]
CuOf(payments) == SumFunctionOnSet([p \in payments |-> p.cu], payments)
PaymentsOf(st, s) ==
    {p \in st.payments : p.sess.epoch = s.epoch /\ p.sess.consumer = s.consumer}
TotalCuInEpoch(st, s) == CuOf(PaymentsOf(st, s))

\* CalculateEffectiveAllowedCuPerEpochFromPolicies: unsigned, so that a
\* project beyond its limit has a large remainder.
CuLeftInProject(st, c) == (TotalCuLimit - st.used[c]) % Word
AllowedCu(st, c) == Min({EpochCuLimit, CuLeftInProject(st, c), st.left[c]})

\* EnforceClientCUsUsageInEpoch, after the payment was added.
RewardedWholeLimit(st, r) ==
    IF TotalCuInEpoch(st, r.sess) >= TotalCuLimit THEN TotalCuLimit ELSE r.cu
RewardedCu(st, r) ==
    LET c == r.sess.consumer
        total == TotalCuInEpoch(st, r.sess)
        allowed == AllowedCu(st, c)
        before == total - r.cu
    IN  IF total >= TotalCuLimit THEN CuLeftInProject(st, c)
        ELSE IF total <= allowed THEN r.cu
        ELSE IF before <= allowed THEN allowed - before
        ELSE 0

\* The checks that fail the whole claim: no stake entries of the epoch, which
\* validatePairingCache answers for every epoch once the consumer is in it, or no
\* CU left in the subscription.
Fails(st, r, cache) ==
    \/ Forgotten(st, r.sess) /\ r.sess.consumer \notin cache
    \/ st.left[r.sess.consumer] = 0

\* chargeCuToSubscriptionAndCreditProvider.
Charge(st, r) ==
    LET c == r.sess.consumer
    IN  [st EXCEPT !.used[c] = @ + r.cu,
                   !.left[c] = IF @ < r.cu THEN 0 ELSE @ - r.cu,
                   !.paid[r.sess] = @ + 1,
                   !.unrecorded = IF Forgotten(st, r.sess) THEN @ \cup {r.sess} ELSE @,
                   !.credited = @ \cup {[sess |-> r.sess, cu |-> r.cu, used |-> st.used[c],
                                         credit |-> RewardedCu(st, r)]}]

\* One relay of the claim: acc is the state with the outcome so far.
PayRelay(acc, r) ==
    IF acc.failed THEN acc
    ELSE IF Rejected(acc.st, r) THEN [acc EXCEPT !.rejected = @ + 1]
    ELSE LET added == AddEpochPayment(acc.st, r)
         IN  IF Fails(added, r, acc.cache) THEN [acc EXCEPT !.failed = TRUE]
             ELSE [acc EXCEPT !.st = Charge(added, r), !.cache = @ \cup {r.sess.consumer}]

\* RelayPayment of the relays in some order.  A claim with a rejected relay
\* fails, and a failed transaction changes nothing.
Payment(st, relays) ==
    FoldLeft(PayRelay, [st |-> st, cache |-> {}, rejected |-> 0, failed |-> FALSE], relays)
PaymentSucceeds(result) == ~result.failed /\ result.rejected = 0

\* The next epoch begins: RemoveOldEpochPayment, and the badges' timers.
ForgetTooMuch(st) == {p \in st.payments : p.sess.epoch > Earliest(st)}
ForgetEpochs(st) == {p \in st.payments : p.sess.epoch >= Earliest(st)}
NextEpochPayments(st) ==
    LET new == [st EXCEPT !.now = @ + 1]
    IN  [new EXCEPT !.payments = ForgetEpochs(new),
                    !.badge = [b \in Badges |->
                        IF \A s \in Sessions : s.badge = b => s.epoch + EpochsToSave <= new.now
                        THEN 0 ELSE st.badge[b]]]

-----------------------------------------------------------------------------
\* Every session is paid at most once: after the payment is forgotten, its
\* epoch is as well.  The exception is a session whose forgotten epoch was not
\* noticed, because validatePairingCache knew its consumer from another epoch.
Once(st) == \A s \in Sessions \ st.unrecorded : st.paid[s] <= 1

\* A payment is credited with at most the CU that were served, as long as the
\* project was within its limit.
WithinServed(st) ==
    \A p \in st.credited : p.used <= TotalCuLimit => p.credit \in 0..p.cu

\* The provider is paid no more than the badge's allocation.
WithinAllocation(st) ==
    \A b \in Badges : CuOf({p \in st.credited : p.sess.badge = b}) <= CuAllocation
=============================================================================
