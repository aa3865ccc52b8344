------------------------- MODULE RewardServerProofs -------------------------
(***************************************************************************)
(* Relay payments and the reward server, for any sessions, limits,         *)
(* goroutines and faults.                                                  *)
(***************************************************************************)
EXTENDS RewardServer, SumTheorems

-----------------------------------------------------------------------------
(* Payments: what holds of the chain's state. *)

Relay == [sess : Sessions, cu : Nat]
Credit == [sess : Sessions, cu : Nat, used : Nat, credit : Int]
Chain ==
    [now : Nat, payments : SUBSET Relay, used : [Consumers -> Nat], left : [Consumers -> Nat],
     badge : [Badges -> Nat], paid : [Sessions -> Nat], unrecorded : SUBSET Sessions,
     credited : SUBSET Credit]

\* A paid session is recorded as long as its epoch is remembered.
Recorded(st) ==
    \A s \in Sessions : st.paid[s] > 0 /\ ~Forgotten(st, s) => \E p \in st.payments : p.sess = s

\* Only payments of remembered epochs are kept, and the project was charged for them.
Remembered(st) == \A p \in st.payments : ~Forgotten(st, p.sess)
Charged(st) == \A s \in Sessions : TotalCuInEpoch(st, s) <= st.used[s.consumer]

\* While a badge is valid its used CU cover what was paid for it.
CreditOf(st, b) == {p \in st.credited : p.sess.badge = b}
Expired(st, b) == \A s \in Sessions : s.badge = b => s.epoch + EpochsToSave <= st.now
BadgeCharged(st) ==
    \A b \in Badges : ~Expired(st, b) => CuOf(CreditOf(st, b)) <= st.badge[b]

ChainInv(st) ==
    /\ st \in Chain /\ IsFiniteSet(st.payments) /\ IsFiniteSet(st.credited)
    /\ Once(st) /\ Recorded(st) /\ Remembered(st) /\ Charged(st)
    /\ WithinServed(st) /\ WithinAllocation(st) /\ BadgeCharged(st)

-----------------------------------------------------------------------------
(* The server *)

Run == [pc : {"idle", "begun", "retry", "gather", "claim"}, epoch : Nat, earliest : Nat,
        batch : SUBSET Relay]
Failure == [sess : Sessions, cu : Nat, attempts : Nat]
Transaction == [by : Runners \cup {Nobody}, server : Nat, batch : SUBSET Relay]

ServerTypes ==
    /\ rewards \in SUBSET Relay /\ rewardDB \in SUBSET Relay
    /\ failed \in SUBSET Failure
    /\ runs \in [Runners -> Run] /\ mempool \in SUBSET Transaction
    /\ owed \in SUBSET Sessions

\* The batches are finite.
Finite ==
    /\ IsFiniteSet(rewards) /\ IsFiniteSet(rewardDB) /\ IsFiniteSet(failed)
    /\ \A g \in Runners : IsFiniteSet(runs[g].batch)
    /\ \A tx \in mempool : IsFiniteSet(tx.batch)

\* A goroutine has a batch while it sends it, and knows an earliest epoch that the
\* chain had; a transaction that is waited for is the one of the goroutine's batch.
RunsInv ==
    /\ \A g \in Runners :
         /\ runs[g].pc \in {"idle", "begun", "gather"} => runs[g].batch = {}
         /\ runs[g].earliest <= Earliest(chain)
    /\ \A tx \in mempool : tx.by # Nobody =>
         /\ runs[tx.by].pc \in {"retry", "claim"} /\ tx.batch = runs[tx.by].batch
         /\ \A other \in mempool : other.by = tx.by => other = tx

ServerInv == ChainInv(chain) /\ ServerTypes /\ Finite /\ RunsInv /\ NothingMislaid

-----------------------------------------------------------------------------
(* Sums of CU. *)

\* The CU of finitely many payments.
LEMMA CuOfNat ==
    ASSUME NEW S, IsFiniteSet(S), \A p \in S : p.cu \in Nat
    PROVE  CuOf(S) \in Nat
<1> DEFINE f == [p \in S |-> p.cu]
<1>1. \A p \in S : f[p] \in Nat
  OBVIOUS
<1> HIDE DEF f
<1>2. SumFunctionOnSet(f, S) \in Nat
  BY <1>1, SumNat
<1> QED BY <1>2 DEF CuOf, f

\* No payments.
LEMMA CuOfNone == CuOf({}) = 0
  BY SumEmpty DEF CuOf

\* One payment more.
LEMMA CuOfMore ==
    ASSUME NEW S, IsFiniteSet(S), \A p \in S : p.cu \in Nat, NEW r, r \notin S, r.cu \in Nat
    PROVE  CuOf(S \cup {r}) = CuOf(S) + r.cu
<1> DEFINE f == [p \in S |-> p.cu]
           e == [p \in S \cup {r} |-> p.cu]
<1>1. /\ \A p \in S : f[p] \in Int /\ e[p] = f[p]
      /\ e[r] = r.cu /\ e[r] \in Int
  OBVIOUS
<1> HIDE DEF f, e
<1>2. SumFunctionOnSet(e, S \cup {r}) = SumFunctionOnSet(f, S) + e[r]
  BY <1>1, SumExtend DEF Summable
<1> QED BY <1>1, <1>2 DEF CuOf, f, e

-----------------------------------------------------------------------------
(* One relay of a claim. *)

\* The fields of the chain's state.
LEMMA ChainFields ==
    ASSUME NEW st \in Chain
    PROVE  /\ st.now \in Nat /\ st.payments \in SUBSET Relay /\ st.used \in [Consumers -> Nat]
           /\ st.left \in [Consumers -> Nat] /\ st.badge \in [Badges -> Nat]
           /\ st.paid \in [Sessions -> Nat] /\ st.unrecorded \in SUBSET Sessions
           /\ st.credited \in SUBSET Credit
  BY DEF Chain

\* The earliest epoch in memory is a number and depends on the epoch only.
LEMMA EarliestNat ==
    ASSUME NEW st, st.now \in Nat
    PROVE  Earliest(st) \in Nat
  BY LimitsAssumption DEF Earliest

\* The payment is added.
LEMMA AddedFields ==
    ASSUME NEW st \in Chain, NEW r \in Relay
    PROVE  LET new == AddEpochPayment(st, r)
           IN  /\ new \in Chain
               /\ new.now = st.now /\ new.used = st.used /\ new.left = st.left
               /\ new.paid = st.paid /\ new.unrecorded = st.unrecorded
               /\ new.credited = st.credited
               /\ new.payments = IF Forgotten(st, r.sess) THEN st.payments ELSE st.payments \cup {r}
               /\ r.sess.badge = NoBadge => new.badge = st.badge
               /\ \A b \in Badges : b # r.sess.badge => new.badge[b] = st.badge[b]
               /\ r.sess.badge # NoBadge => /\ r.sess.badge \in Badges
                                            /\ new.badge[r.sess.badge] = st.badge[r.sess.badge] + r.cu
<1> DEFINE B == IF r.sess.badge = NoBadge THEN st.badge
                ELSE [st.badge EXCEPT ![r.sess.badge] = st.badge[r.sess.badge] + r.cu]
           P == IF Forgotten(st, r.sess) THEN st.payments ELSE st.payments \cup {r}
           new == [st EXCEPT !.payments = P, !.badge = B]
<1>1. AddEpochPayment(st, r) = new
  BY DEF AddEpochPayment
<1>2. r.sess \in Sessions /\ r.cu \in Nat
  BY DEF Relay
<1>3. r.sess.badge # NoBadge => r.sess.badge \in Badges
  BY <1>2 DEF Badges
<1>4. st.badge \in [Badges -> Nat] /\ st.payments \in SUBSET Relay
  BY ChainFields
<1>5. /\ B \in [Badges -> Nat]
      /\ r.sess.badge = NoBadge => B = st.badge
      /\ \A b \in Badges : b # r.sess.badge => B[b] = st.badge[b]
      /\ r.sess.badge # NoBadge => B[r.sess.badge] = st.badge[r.sess.badge] + r.cu
  BY <1>2, <1>3, <1>4
<1>6. P \in SUBSET Relay
  BY <1>4
<1> HIDE DEF B, P
<1>7. /\ new \in Chain /\ new.now = st.now /\ new.used = st.used /\ new.left = st.left
      /\ new.paid = st.paid /\ new.unrecorded = st.unrecorded
      /\ new.credited = st.credited /\ new.payments = P /\ new.badge = B
  BY <1>5, <1>6 DEF Chain
<1> HIDE DEF new
<1> QED BY <1>1, <1>3, <1>5, <1>7 DEF P

\* The project and the subscription are charged.
LEMMA ChargedFields ==
    ASSUME NEW st \in Chain, NEW r \in Relay, RewardedCu(st, r) \in Int
    PROVE  LET new == Charge(st, r)
               c == r.sess.consumer
           IN  /\ new \in Chain /\ c \in Consumers
               /\ new.now = st.now /\ new.payments = st.payments /\ new.badge = st.badge
               /\ new.used = [st.used EXCEPT ![c] = st.used[c] + r.cu]
               /\ new.paid = [st.paid EXCEPT ![r.sess] = st.paid[r.sess] + 1]
               /\ new.unrecorded = IF Forgotten(st, r.sess) THEN st.unrecorded \cup {r.sess}
                                   ELSE st.unrecorded
               /\ new.credited = st.credited \cup {[sess |-> r.sess, cu |-> r.cu, used |-> st.used[c],
                                                    credit |-> RewardedCu(st, r)]}
<1> DEFINE c == r.sess.consumer
           U == [st.used EXCEPT ![c] = st.used[c] + r.cu]
           F == [st.left EXCEPT ![c] = IF st.left[c] < r.cu THEN 0 ELSE st.left[c] - r.cu]
           P == [st.paid EXCEPT ![r.sess] = st.paid[r.sess] + 1]
           N == IF Forgotten(st, r.sess) THEN st.unrecorded \cup {r.sess} ELSE st.unrecorded
           x == [sess |-> r.sess, cu |-> r.cu, used |-> st.used[c], credit |-> RewardedCu(st, r)]
           new == [st EXCEPT !.used = U, !.left = F, !.paid = P, !.unrecorded = N,
                             !.credited = st.credited \cup {x}]
<1>1. r.sess \in Sessions /\ r.cu \in Nat
  BY DEF Relay
<1>2. c \in Consumers
  BY <1>1 DEF Consumers
<1>3. /\ st.used \in [Consumers -> Nat] /\ st.left \in [Consumers -> Nat]
      /\ st.paid \in [Sessions -> Nat] /\ st.unrecorded \in SUBSET Sessions
      /\ st.credited \in SUBSET Credit
  BY ChainFields
<1>4. Charge(st, r) = new
  BY DEF Charge, Chain
<1>5. U \in [Consumers -> Nat] /\ F \in [Consumers -> Nat] /\ P \in [Sessions -> Nat]
  BY <1>1, <1>2, <1>3
<1>6. N \in SUBSET Sessions
  BY <1>1, <1>3
<1>7. x \in Credit
  BY <1>1, <1>2, <1>3 DEF Credit
<1>8. st.credited \cup {x} \in SUBSET Credit
  BY <1>3, <1>7
<1> HIDE DEF U, F, P, N, x
<1>9. /\ new \in Chain /\ new.now = st.now /\ new.payments = st.payments /\ new.badge = st.badge
      /\ new.used = U /\ new.paid = P /\ new.unrecorded = N /\ new.credited = st.credited \cup {x}
  BY <1>5, <1>6, <1>8 DEF Chain
<1> HIDE DEF new
<1> QED BY <1>2, <1>4, <1>9 DEF U, P, N, x

\* The sums of a chain's state are numbers.
LEMMA SumsNat ==
    ASSUME NEW st, ChainInv(st)
    PROVE  /\ \A s \in Sessions : /\ IsFiniteSet(PaymentsOf(st, s)) /\ TotalCuInEpoch(st, s) \in Nat
                                  /\ \A p \in PaymentsOf(st, s) : p.cu \in Nat
           /\ \A b \in Badges : /\ IsFiniteSet(CreditOf(st, b)) /\ CuOf(CreditOf(st, b)) \in Nat
                                /\ \A p \in CreditOf(st, b) : p.cu \in Nat
<1>1. /\ st \in Chain /\ IsFiniteSet(st.payments) /\ IsFiniteSet(st.credited)
  BY DEF ChainInv
<1>2. \A p \in st.payments : p.cu \in Nat
  BY <1>1, ChainFields DEF Relay
<1>3. \A p \in st.credited : p.cu \in Nat
  BY <1>1, ChainFields DEF Credit
<1>4. ASSUME NEW s \in Sessions
      PROVE  /\ IsFiniteSet(PaymentsOf(st, s)) /\ TotalCuInEpoch(st, s) \in Nat
             /\ \A p \in PaymentsOf(st, s) : p.cu \in Nat
  <2>1. PaymentsOf(st, s) \in SUBSET st.payments
    BY DEF PaymentsOf
  <2>2. IsFiniteSet(PaymentsOf(st, s)) /\ \A p \in PaymentsOf(st, s) : p.cu \in Nat
    BY <1>1, <1>2, <2>1, FS_Subset
  <2> QED BY <2>2, CuOfNat DEF TotalCuInEpoch
<1>5. ASSUME NEW b \in Badges
      PROVE  /\ IsFiniteSet(CreditOf(st, b)) /\ CuOf(CreditOf(st, b)) \in Nat
             /\ \A p \in CreditOf(st, b) : p.cu \in Nat
  <2>1. CreditOf(st, b) \in SUBSET st.credited
    BY DEF CreditOf
  <2>2. IsFiniteSet(CreditOf(st, b)) /\ \A p \in CreditOf(st, b) : p.cu \in Nat
    BY <1>1, <1>3, <2>1, FS_Subset
  <2> QED BY <2>2, CuOfNat
<1> QED BY <1>4, <1>5

\* What the consumer's payments of an epoch are after one was added.
LEMMA AddedTotal ==
    ASSUME NEW st, ChainInv(st), NEW r \in Relay, ~IsDoubleSpend(st, r), NEW s \in Sessions
    PROVE  LET new == AddEpochPayment(st, r)
               same == s.epoch = r.sess.epoch /\ s.consumer = r.sess.consumer
           IN  /\ same /\ ~Forgotten(st, r.sess) =>
                    TotalCuInEpoch(new, s) = TotalCuInEpoch(st, s) + r.cu
               /\ same /\ Forgotten(st, r.sess) => TotalCuInEpoch(new, s) = 0
               /\ ~same => TotalCuInEpoch(new, s) = TotalCuInEpoch(st, s)
<1> DEFINE new == AddEpochPayment(st, r)
           same == s.epoch = r.sess.epoch /\ s.consumer = r.sess.consumer
<1>1. st \in Chain /\ Remembered(st)
  BY DEF ChainInv
<1>2. new.payments = IF Forgotten(st, r.sess) THEN st.payments ELSE st.payments \cup {r}
  BY <1>1, AddedFields
<1> HIDE DEF new
<1>3. r \notin st.payments
  BY DEF IsDoubleSpend
<1>4. CASE same /\ ~Forgotten(st, r.sess)
  <2>1. PaymentsOf(new, s) = PaymentsOf(st, s) \cup {r} /\ r \notin PaymentsOf(st, s)
    BY <1>2, <1>3, <1>4 DEF PaymentsOf
  <2>2. IsFiniteSet(PaymentsOf(st, s)) /\ \A p \in PaymentsOf(st, s) : p.cu \in Nat
    BY SumsNat
  <2>3. r.cu \in Nat
    BY DEF Relay
  <2>4. TotalCuInEpoch(new, s) = TotalCuInEpoch(st, s) + r.cu
    BY <2>1, <2>2, <2>3, CuOfMore DEF TotalCuInEpoch
  <2> QED BY <1>4, <2>4 DEF new
<1>5. CASE same /\ Forgotten(st, r.sess)
  <2>1. PaymentsOf(new, s) = {}
    BY <1>1, <1>2, <1>5 DEF PaymentsOf, Remembered, Forgotten
  <2> QED BY <1>5, <2>1, CuOfNone DEF TotalCuInEpoch, new
<1>6. CASE ~same
  <2>1. PaymentsOf(new, s) = PaymentsOf(st, s)
    BY <1>2, <1>6 DEF PaymentsOf
  <2> QED BY <1>6, <2>1 DEF TotalCuInEpoch, new
<1> QED BY <1>4, <1>5, <1>6

\* A payment is credited with no more than its CU.
LEMMA RewardedWithin ==
    ASSUME NEW st, ChainInv(st), NEW r \in Relay, ~IsDoubleSpend(st, r)
    PROVE  LET new == AddEpochPayment(st, r)
           IN  /\ RewardedCu(new, r) \in Int
               /\ new.used[r.sess.consumer] <= TotalCuLimit => RewardedCu(new, r) \in 0..r.cu
<1> DEFINE new == AddEpochPayment(st, r)
           c == r.sess.consumer
           total == TotalCuInEpoch(new, r.sess)
           old == TotalCuInEpoch(st, r.sess)
           left == CuLeftInProject(new, c)
           allowed == AllowedCu(new, c)
<1>1. st \in Chain /\ Charged(st)
  BY DEF ChainInv
<1>2. r.sess \in Sessions /\ r.cu \in Nat
  BY DEF Relay
<1>3. c \in Consumers
  BY <1>2 DEF Consumers
<1>4. new \in Chain /\ new.used = st.used
  BY <1>1, AddedFields
<1>5. new.used[c] \in Nat /\ new.left[c] \in Nat
  BY <1>3, <1>4, ChainFields
<1>6. old \in Nat /\ old <= new.used[c]
  BY <1>1, <1>2, <1>4, SumsNat DEF Charged
<1>7. total = old + r.cu \/ total = 0
  <2>1. \/ TotalCuInEpoch(AddEpochPayment(st, r), r.sess) = TotalCuInEpoch(st, r.sess) + r.cu
        \/ TotalCuInEpoch(AddEpochPayment(st, r), r.sess) = 0
    BY <1>2, AddedTotal
  <2> QED BY <2>1
<1> HIDE DEF new, total, old
<1>8. /\ TotalCuLimit \in Nat /\ EpochCuLimit \in Nat /\ Word \in Nat /\ Word > TotalCuLimit
  BY LimitsAssumption
<1>9. left \in Nat /\ (new.used[c] <= TotalCuLimit => left = TotalCuLimit - new.used[c])
  <2>1. \A x \in Int : x % Word \in Nat /\ (x >= 0 /\ x < Word => x % Word = x)
    BY <1>8
  <2>2. /\ TotalCuLimit - new.used[c] \in Int
        /\ new.used[c] <= TotalCuLimit =>
             TotalCuLimit - new.used[c] >= 0 /\ TotalCuLimit - new.used[c] < Word
    BY <1>5, <1>8
  <2> QED BY <2>1, <2>2 DEF CuLeftInProject
<1> HIDE DEF left
<1>10. allowed \in Nat
  <2> DEFINE S == {EpochCuLimit, left, new.left[c]}
  <2>1. \E x \in S : \A y \in S : x <= y
    BY <1>5, <1>8, <1>9
  <2>2. S \in SUBSET Nat
    BY <1>5, <1>8, <1>9
  <2>3. Min(S) \in S
    <3> HIDE DEF S
    <3> QED BY <2>1 DEF Min
  <2>4. allowed = Min(S)
    BY DEF AllowedCu, left
  <2> QED BY <2>2, <2>3, <2>4
<1> HIDE DEF allowed
<1>11. RewardedCu(new, r) = IF total >= TotalCuLimit THEN left
                            ELSE IF total <= allowed THEN r.cu
                            ELSE IF total - r.cu <= allowed THEN allowed - (total - r.cu)
                            ELSE 0
  BY DEF RewardedCu, total, left, allowed
<1>12. RewardedCu(new, r) \in Int
  BY <1>2, <1>6, <1>7, <1>9, <1>10, <1>11
<1>13. ASSUME new.used[c] <= TotalCuLimit PROVE RewardedCu(new, r) \in 0..r.cu
  <2>1. CASE total >= TotalCuLimit
    BY <1>2, <1>5, <1>6, <1>7, <1>8, <1>9, <1>11, <1>13, <2>1
  <2>2. CASE ~ (total >= TotalCuLimit)
    BY <1>2, <1>6, <1>7, <1>8, <1>10, <1>11, <2>2
  <2> QED BY <2>1, <2>2
<1> QED BY <1>12, <1>13 DEF new

\* A relay that is not rejected is paid, and everything holds afterwards.
LEMMA RelayPaid ==
    ASSUME NEW st, ChainInv(st), NEW r \in Relay, ~Rejected(st, r)
    PROVE  LET new == Charge(AddEpochPayment(st, r), r)
           IN  /\ ChainInv(new) /\ new.now = st.now /\ new.paid[r.sess] > 0
               /\ \A s \in Sessions : new.paid[s] >= st.paid[s]
<1> DEFINE mid == AddEpochPayment(st, r)
           new == Charge(mid, r)
           s0 == r.sess
           c == s0.consumer
           b0 == s0.badge
           x == [sess |-> s0, cu |-> r.cu, used |-> mid.used[c], credit |-> RewardedCu(mid, r)]
<1>1. /\ st \in Chain /\ IsFiniteSet(st.payments) /\ IsFiniteSet(st.credited)
      /\ Once(st) /\ Recorded(st) /\ Remembered(st) /\ Charged(st)
      /\ WithinServed(st) /\ WithinAllocation(st) /\ BadgeCharged(st)
  BY DEF ChainInv
<1>2. CheckBadge(st, r) /\ ~IsDoubleSpend(st, r)
  BY DEF Rejected
<1>3. s0 \in Sessions /\ r.cu \in Nat
  BY DEF Relay
<1>4. /\ mid \in Chain /\ mid.now = st.now /\ mid.used = st.used
      /\ mid.paid = st.paid /\ mid.unrecorded = st.unrecorded /\ mid.credited = st.credited
      /\ mid.payments = IF Forgotten(st, s0) THEN st.payments ELSE st.payments \cup {r}
      /\ b0 = NoBadge => mid.badge = st.badge
      /\ \A b \in Badges : b # b0 => mid.badge[b] = st.badge[b]
      /\ b0 # NoBadge => b0 \in Badges /\ mid.badge[b0] = st.badge[b0] + r.cu
  BY <1>1, AddedFields
<1>5. /\ RewardedCu(mid, r) \in Int
      /\ mid.used[c] <= TotalCuLimit => RewardedCu(mid, r) \in 0..r.cu
  BY <1>2, RewardedWithin
<1>6. \A s \in Sessions : /\ s.epoch = s0.epoch /\ s.consumer = c =>
                               TotalCuInEpoch(mid, s) = TotalCuInEpoch(st, s) + r.cu
                               \/ TotalCuInEpoch(mid, s) = 0
                          /\ ~ (s.epoch = s0.epoch /\ s.consumer = c) =>
                               TotalCuInEpoch(mid, s) = TotalCuInEpoch(st, s)
  <2> SUFFICES ASSUME NEW s \in Sessions
               PROVE  /\ s.epoch = s0.epoch /\ s.consumer = c =>
                           TotalCuInEpoch(mid, s) = TotalCuInEpoch(st, s) + r.cu
                           \/ TotalCuInEpoch(mid, s) = 0
                      /\ ~ (s.epoch = s0.epoch /\ s.consumer = c) =>
                           TotalCuInEpoch(mid, s) = TotalCuInEpoch(st, s)
    OBVIOUS
  <2> QED BY <1>2, AddedTotal
<1> HIDE DEF mid
<1>7. /\ new \in Chain /\ c \in Consumers
      /\ new.now = mid.now /\ new.payments = mid.payments /\ new.badge = mid.badge
      /\ new.used = [mid.used EXCEPT ![c] = mid.used[c] + r.cu]
      /\ new.paid = [mid.paid EXCEPT ![s0] = mid.paid[s0] + 1]
      /\ new.unrecorded = IF Forgotten(mid, s0) THEN mid.unrecorded \cup {s0} ELSE mid.unrecorded
      /\ new.credited = mid.credited \cup {x}
  BY <1>4, <1>5, ChargedFields
<1> HIDE DEF new, x
<1>8. \A s : /\ Forgotten(new, s) <=> Forgotten(st, s)
             /\ Forgotten(mid, s) <=> Forgotten(st, s)
  BY <1>4, <1>7 DEF Forgotten, Earliest
<1>9. /\ st.paid \in [Sessions -> Nat] /\ st.used \in [Consumers -> Nat] /\ st.badge \in [Badges -> Nat]
  BY <1>1, ChainFields
<1>10. /\ new.paid[s0] = st.paid[s0] + 1 /\ st.paid[s0] \in Nat
       /\ \A s \in Sessions : s # s0 => new.paid[s] = st.paid[s]
  BY <1>3, <1>4, <1>7, <1>9
<1>11. IsFiniteSet(new.payments) /\ IsFiniteSet(new.credited)
  <2>1. IsFiniteSet(st.payments \cup {r}) /\ IsFiniteSet(st.credited \cup {x})
    BY <1>1, FS_AddElement
  <2> QED BY <1>1, <1>4, <1>7, <2>1
<1>12. ~Forgotten(st, s0) => st.paid[s0] = 0
  BY <1>1, <1>2, <1>3, <1>9 DEF Recorded, IsDoubleSpend
<1>13. Once(new)
  BY <1>1, <1>4, <1>7, <1>8, <1>10, <1>12 DEF Once
<1>14. Recorded(new)
  BY <1>1, <1>4, <1>7, <1>8, <1>10 DEF Recorded
<1>15. Remembered(new)
  BY <1>1, <1>4, <1>7, <1>8 DEF Remembered
<1>16. Charged(new)
  <2> SUFFICES ASSUME NEW s \in Sessions PROVE TotalCuInEpoch(new, s) <= new.used[s.consumer]
    BY DEF Charged
  <2>1. TotalCuInEpoch(new, s) = TotalCuInEpoch(mid, s)
    BY <1>7 DEF TotalCuInEpoch, PaymentsOf
  <2>2. s.consumer \in Consumers
    BY DEF Consumers
  <2>3. /\ st.used[s.consumer] \in Nat /\ TotalCuInEpoch(st, s) \in Nat
        /\ TotalCuInEpoch(st, s) <= st.used[s.consumer]
    BY <1>1, <1>9, <2>2, SumsNat DEF Charged
  <2>4. new.used[s.consumer] = IF s.consumer = c THEN st.used[s.consumer] + r.cu
                               ELSE st.used[s.consumer]
    BY <1>4, <1>7, <1>9, <2>2
  <2> QED BY <1>3, <1>6, <2>1, <2>3, <2>4
<1>17. WithinServed(new)
  <2>1. x.used = mid.used[c] /\ x.cu = r.cu /\ x.credit = RewardedCu(mid, r)
    BY DEF x
  <2>2. x.used <= TotalCuLimit => x.credit \in 0..x.cu
    BY <1>5, <2>1
  <2> QED BY <1>1, <1>4, <1>7, <2>2 DEF WithinServed
<1>18. ASSUME NEW b \in Badges
       PROVE  /\ CuOf(CreditOf(new, b)) <= CuAllocation
              /\ ~Expired(new, b) => CuOf(CreditOf(new, b)) <= new.badge[b]
  <2> DEFINE old == CuOf(CreditOf(st, b))
  <2>1. Expired(new, b) <=> Expired(st, b)
    BY <1>4, <1>7 DEF Expired
  <2>2. /\ old \in Nat /\ old <= CuAllocation /\ (~Expired(st, b) => old <= st.badge[b])
        /\ st.badge[b] \in Nat /\ IsFiniteSet(CreditOf(st, b))
        /\ \A p \in CreditOf(st, b) : p.cu \in Nat
    BY <1>1, <1>9, SumsNat DEF WithinAllocation, BadgeCharged, CreditOf
  <2>3. CASE b # b0
    <3>1. CreditOf(new, b) = CreditOf(st, b)
      BY <1>4, <1>7, <2>3 DEF CreditOf, x
    <3>2. new.badge[b] = st.badge[b]
      BY <1>4, <1>7, <2>3
    <3> QED BY <2>1, <2>2, <3>1, <3>2
  <2>4. CASE b = b0
    <3>1. b0 # NoBadge
      BY <2>4 DEF Badges
    <3>2. ~BadgeExpired(st, r) /\ r.cu + st.badge[b] <= CuAllocation
      BY <1>2, <2>4, <3>1 DEF CheckBadge
    <3>3. ~Expired(st, b)
      BY <1>3, <2>4, <3>2 DEF Expired, BadgeExpired
    <3>4. new.badge[b] = st.badge[b] + r.cu
      BY <1>4, <1>7, <2>4, <3>1
    <3>5. CreditOf(new, b) = CreditOf(st, b) \cup {x} /\ x.cu = r.cu
      BY <1>4, <1>7, <2>4 DEF CreditOf, x
    <3>6. CuOf(CreditOf(new, b)) = old \/ CuOf(CreditOf(new, b)) = old + r.cu
      <4>1. CASE x \in CreditOf(st, b)
        <5>1. CreditOf(new, b) = CreditOf(st, b)
          BY <3>5, <4>1
        <5> QED BY <5>1
      <4>2. CASE x \notin CreditOf(st, b)
        BY <1>3, <2>2, <3>5, <4>2, CuOfMore
      <4> QED BY <4>1, <4>2
    <3>7. CuAllocation \in Nat
      BY LimitsAssumption
    <3> HIDE DEF old
    <3> QED BY <1>3, <2>2, <3>2, <3>3, <3>4, <3>6, <3>7
  <2> QED BY <2>3, <2>4
<1>19. WithinAllocation(new) /\ BadgeCharged(new)
  BY <1>18 DEF WithinAllocation, BadgeCharged, CreditOf
<1>20. ChainInv(new)
  BY <1>7, <1>11, <1>13, <1>14, <1>15, <1>16, <1>17, <1>19 DEF ChainInv
<1>21. new.paid[s0] > 0 /\ \A s \in Sessions : new.paid[s] >= st.paid[s]
  BY <1>9, <1>10
<1> QED BY <1>4, <1>7, <1>20, <1>21 DEF new, mid

-----------------------------------------------------------------------------
(* The relays of a claim, one after the other. *)

Begin(st) == [st |-> st, cache |-> {}, rejected |-> 0, failed |-> FALSE]

\* g gives the outcome for the relays with the numbers in a set.
IsFold(g, st, relays) ==
    g = [s \in SUBSET DOMAIN relays |->
           IF s = {} THEN Begin(st) ELSE PayRelay(g[s \ {Max(s)}], relays[Max(s)])]

\* Payment is the fold of the library.
LEMMA PaymentDef ==
    ASSUME NEW st, NEW relays
    PROVE  Payment(st, relays) = (CHOOSE g : IsFold(g, st, relays))[DOMAIN relays]
  BY DEF Payment, FoldLeft, MapThenFoldSet, IsFold, Begin

\* The greatest number of a non-empty part of 1..n.
LEMMA GreatestOf ==
    ASSUME NEW n \in Nat, NEW s \in SUBSET (1..n), s # {}
    PROVE  Max(s) \in s /\ \A y \in s : Max(s) >= y
<1> DEFINE U == {n - x : x \in s}
<1>0. \A x \in s : x \in Int /\ n - x \in Nat
  <2>1. \A x \in 1..n : x \in Int /\ n - x \in Nat
    OBVIOUS
  <2>2. \A x \in s : x \in 1..n
    OBVIOUS
  <2> HIDE DEF U
  <2> QED BY <2>1, <2>2, Zenon
<1>1. U \in SUBSET Nat /\ U # {}
  BY <1>0
<1>2. PICK m \in U : \A u \in U : m <= u
  <2> HIDE DEF U
  <2> QED BY <1>1, LeastNumber
<1>3. PICK x \in s : m = n - x
  BY <1>2
<1>4. ASSUME NEW y \in s PROVE x >= y
  <2>1. x \in Int /\ y \in Int
    BY <1>0
  <2>2. n - x <= n - y
    BY <1>2, <1>3
  <2> QED BY <2>1, <2>2
<1> QED BY <1>4 DEF Max

\* The fold exists: the least number of relays for which it does not can be neither
\* 0 nor more.
LEMMA FoldExists ==
    ASSUME NEW n \in Nat, NEW st, NEW relays, DOMAIN relays = 1..n
    PROVE  \E g : IsFold(g, st, relays)
<1> DEFINE P(k) == {s \in SUBSET (1..n) : Cardinality(s) <= k}
           Body(g, s) == IF s = {} THEN Begin(st) ELSE PayRelay(g[s \ {Max(s)}], relays[Max(s)])
           Ok(k) == \E g : g = [s \in P(k) |-> g[s]] /\ \A s \in P(k) : g[s] = Body(g, s)
           T == {k \in Nat : ~Ok(k)}
<1>1. IsFiniteSet(1..n) /\ Cardinality(1..n) = n
  BY FS_Interval
<1>2. \A s \in SUBSET (1..n) : IsFiniteSet(s) /\ Cardinality(s) \in Nat /\ Cardinality(s) <= n
  BY <1>1, FS_Subset, FS_CardinalityType
<1>3. ASSUME NEW s \in SUBSET (1..n), s # {}
      PROVE  s \ {Max(s)} \in SUBSET (1..n) /\ Cardinality(s \ {Max(s)}) = Cardinality(s) - 1
  BY <1>2, <1>3, GreatestOf, FS_RemoveElement
<1>4. Ok(0)
  <2>1. P(0) = {{}}
    BY <1>2, FS_EmptySet
  <2> DEFINE g == [s \in {{}} |-> Begin(st)]
  <2>2. g = [s \in P(0) |-> g[s]]
    BY <2>1
  <2>3. \A s \in P(0) : g[s] = Body(g, s)
    BY <2>1
  <2> QED BY <2>2, <2>3
<1>5. ASSUME NEW k \in Nat, Ok(k) PROVE Ok(k + 1)
  <2>1. PICK g : g = [s \in P(k) |-> g[s]] /\ \A s \in P(k) : g[s] = Body(g, s)
    BY <1>5
  <2> DEFINE h == [s \in P(k + 1) |-> Body(g, s)]
  <2>2. ASSUME NEW s \in P(k + 1), s # {} PROVE s \ {Max(s)} \in P(k)
    <3>1. s \in SUBSET (1..n) /\ Cardinality(s) \in Nat /\ Cardinality(s) <= k + 1
      BY <1>2
    <3>2. s \ {Max(s)} \in SUBSET (1..n) /\ Cardinality(s \ {Max(s)}) = Cardinality(s) - 1
      BY <1>3, <2>2, <3>1
    <3>3. Cardinality(s) - 1 <= k
      BY <3>1
    <3> QED BY <3>2, <3>3
  <2>3. \A s \in P(k) : s \in P(k + 1)
    BY <1>2
  <2>4. \A s \in P(k) : h[s] = g[s]
    BY <2>1, <2>3
  <2>5. \A s \in P(k + 1) : h[s] = Body(h, s)
    BY <2>2, <2>4
  <2>6. h = [s \in P(k + 1) |-> h[s]]
    OBVIOUS
  <2> HIDE DEF h
  <2> QED BY <2>5, <2>6
<1> HIDE DEF Ok
<1>6. T = {}
  <2> SUFFICES ASSUME T # {} PROVE FALSE
    OBVIOUS
  <2>1. PICK m \in T : \A k \in T : m <= k
    <3>1. T \in SUBSET Nat
      OBVIOUS
    <3> HIDE DEF T
    <3> QED BY <3>1, LeastNumber
  <2>2. m \in Nat /\ m # 0
    BY <1>4
  <2>3. m - 1 \in Nat /\ m - 1 \notin T
    BY <2>1, <2>2
  <2> QED BY <1>5, <2>2, <2>3
<1>7. PICK g : g = [s \in P(n) |-> g[s]] /\ \A s \in P(n) : g[s] = Body(g, s)
  BY <1>6 DEF Ok
<1>8. P(n) = SUBSET (1..n)
  BY <1>2
<1>9. g = [s \in SUBSET (1..n) |-> Body(g, s)]
  BY <1>7, <1>8
<1> QED BY <1>9 DEF IsFold

\* The outcomes after each relay.
LEMMA PaymentSteps ==
    ASSUME NEW n \in Nat, NEW st, NEW relays, DOMAIN relays = 1..n
    PROVE  \E acc : /\ acc[0] = Begin(st) /\ acc[n] = Payment(st, relays)
                    /\ \A k \in 1..n : acc[k] = PayRelay(acc[k - 1], relays[k])
<1> DEFINE g == CHOOSE h : IsFold(h, st, relays)
           acc == [k \in 0..n |-> g[1..k]]
<1>1. IsFold(g, st, relays) /\ Payment(st, relays) = g[1..n]
  BY FoldExists, PaymentDef
<1> HIDE DEF g
<1>2. acc[0] = Begin(st)
  <2>1. 1..0 = {} /\ {} \in SUBSET (1..n)
    OBVIOUS
  <2>2. g[{}] = Begin(st)
    BY <1>1 DEF IsFold
  <2> QED BY <2>1, <2>2
<1>3. acc[n] = Payment(st, relays)
  BY <1>1
<1>4. ASSUME NEW k \in 1..n PROVE acc[k] = PayRelay(acc[k - 1], relays[k])
  <2>0. \A i \in 1..k : i \in 1..n
    OBVIOUS
  <2>1. 1..k \in SUBSET (1..n) /\ 1..k # {} /\ k \in 1..k
    <3>1. k \in 1..k
      OBVIOUS
    <3> QED BY <2>0, <3>1, Zenon
  <2>2. Max(1..k) = k
    <3>1. Max(1..k) \in 1..k /\ Max(1..k) >= k
      BY <2>1, GreatestOf
    <3>2. \A m \in 1..k : m >= k => m = k
      OBVIOUS
    <3> QED BY <3>1, <3>2
  <2>3. (1..k) \ {k} = 1..(k - 1)
    OBVIOUS
  <2>4. g[1..k] = PayRelay(g[(1..k) \ {Max(1..k)}], relays[Max(1..k)])
    BY <1>1, <2>1 DEF IsFold
  <2>5. k \in 0..n /\ k - 1 \in 0..n
    OBVIOUS
  <2> QED BY <2>2, <2>3, <2>4, <2>5
<1> HIDE DEF acc
<1> QED BY <1>2, <1>3, <1>4

Outcome == [st : Chain, cache : SUBSET Consumers, rejected : Nat, failed : BOOLEAN]

\* The outcome after k relays: what holds of the chain holds still, nothing was
\* unpaid, and without a failure the first k were paid.
Sound(st, relays, acc, k) ==
    /\ acc \in Outcome /\ ChainInv(acc.st) /\ acc.st.now = st.now
    /\ \A s \in Sessions : acc.st.paid[s] >= st.paid[s]
    /\ PaymentSucceeds(acc) => \A i \in 1..k : acc.st.paid[relays[i].sess] > 0

\* One relay more.
LEMMA SoundStep ==
    ASSUME NEW st \in Chain, NEW relays, NEW k \in Nat, NEW acc, Sound(st, relays, acc, k),
           \A i \in 1..(k + 1) : relays[i] \in Relay
    PROVE  Sound(st, relays, PayRelay(acc, relays[k + 1]), k + 1)
<1> DEFINE r == relays[k + 1]
           mid == AddEpochPayment(acc.st, r)
           new == Charge(mid, r)
           C == acc.cache \cup {r.sess.consumer}
<1>1. /\ acc \in Outcome /\ ChainInv(acc.st) /\ acc.st.now = st.now
      /\ \A s \in Sessions : acc.st.paid[s] >= st.paid[s]
      /\ PaymentSucceeds(acc) => \A i \in 1..k : acc.st.paid[relays[i].sess] > 0
  BY DEF Sound
<1>2. /\ k + 1 \in 1..(k + 1) /\ \A i \in 1..k : i \in 1..(k + 1)
      /\ \A i \in 1..(k + 1) : i \in 1..k \/ i = k + 1
  OBVIOUS
<1>3. r \in Relay
  BY <1>2
<1>4. r.sess \in Sessions /\ r.sess.consumer \in Consumers
  BY <1>3 DEF Relay, Consumers
<1>5. acc.failed \in BOOLEAN /\ acc.rejected \in Nat /\ acc.cache \in SUBSET Consumers /\ acc.st \in Chain
  BY <1>1 DEF Outcome
<1>6. C \in SUBSET Consumers
  BY <1>4, <1>5
<1>7. PayRelay(acc, r) = IF acc.failed THEN acc
                         ELSE IF Rejected(acc.st, r) THEN [acc EXCEPT !.rejected = acc.rejected + 1]
                         ELSE IF Fails(mid, r, acc.cache) THEN [acc EXCEPT !.failed = TRUE]
                         ELSE [acc EXCEPT !.st = new, !.cache = C]
  BY <1>1 DEF PayRelay, Outcome
<1>8. CASE acc.failed
  <2>1. ~PaymentSucceeds(acc)
    BY <1>8 DEF PaymentSucceeds
  <2> QED BY <1>1, <1>7, <1>8, <2>1 DEF Sound
<1>9. CASE ~acc.failed /\ Rejected(acc.st, r)
  <2> DEFINE a == [acc EXCEPT !.rejected = acc.rejected + 1]
  <2>1. a \in Outcome /\ a.st = acc.st /\ a.rejected = acc.rejected + 1
    BY <1>1 DEF Outcome
  <2> HIDE DEF a
  <2>2. ~PaymentSucceeds(a)
    BY <1>5, <2>1 DEF PaymentSucceeds
  <2>3. Sound(st, relays, a, k + 1)
    BY <1>1, <2>1, <2>2 DEF Sound
  <2> QED BY <1>7, <1>9, <2>3 DEF a
<1>10. CASE ~acc.failed /\ ~Rejected(acc.st, r) /\ Fails(mid, r, acc.cache)
  <2> DEFINE a == [acc EXCEPT !.failed = TRUE]
  <2>1. a \in Outcome /\ a.st = acc.st /\ a.failed
    BY <1>1 DEF Outcome
  <2> HIDE DEF a
  <2>2. ~PaymentSucceeds(a)
    BY <2>1 DEF PaymentSucceeds
  <2>3. Sound(st, relays, a, k + 1)
    BY <1>1, <2>1, <2>2 DEF Sound
  <2> QED BY <1>7, <1>10, <2>3 DEF a
<1>11. CASE ~acc.failed /\ ~Rejected(acc.st, r) /\ ~Fails(mid, r, acc.cache)
  <2> DEFINE a == [acc EXCEPT !.st = new, !.cache = C]
  <2>1. /\ ChainInv(new) /\ new.now = acc.st.now /\ new.paid[r.sess] > 0
        /\ \A s \in Sessions : new.paid[s] >= acc.st.paid[s]
    BY <1>1, <1>3, <1>11, RelayPaid
  <2> HIDE DEF new, mid, C
  <2>2. new \in Chain
    BY <2>1 DEF ChainInv
  <2>3. a \in Outcome /\ a.st = new /\ a.rejected = acc.rejected /\ a.failed = acc.failed
    BY <1>1, <1>6, <2>2 DEF Outcome
  <2> HIDE DEF a
  <2>4. ASSUME NEW s \in Sessions PROVE new.paid[s] >= st.paid[s]
    <3>1. new.paid[s] \in Int /\ acc.st.paid[s] \in Int /\ st.paid[s] \in Int
      BY <1>5, <2>2, ChainFields
    <3>2. new.paid[s] >= acc.st.paid[s] /\ acc.st.paid[s] >= st.paid[s]
      BY <1>1, <2>1
    <3> QED BY <3>1, <3>2
  <2>5. ASSUME PaymentSucceeds(a), NEW i \in 1..(k + 1) PROVE new.paid[relays[i].sess] > 0
    <3>1. CASE i = k + 1
      BY <2>1, <3>1
    <3>2. CASE i \in 1..k
      <4>1. acc.st.paid[relays[i].sess] > 0
        BY <1>1, <2>3, <2>5, <3>2 DEF PaymentSucceeds
      <4>2. relays[i].sess \in Sessions
        BY <1>2, <3>2 DEF Relay
      <4>3. /\ new.paid[relays[i].sess] >= acc.st.paid[relays[i].sess]
            /\ new.paid[relays[i].sess] \in Int /\ acc.st.paid[relays[i].sess] \in Int
        BY <1>5, <2>1, <2>2, <4>2, ChainFields
      <4> QED BY <4>1, <4>3
    <3> QED BY <1>2, <3>1, <3>2
  <2>6. Sound(st, relays, a, k + 1)
    BY <1>1, <2>1, <2>3, <2>4, <2>5 DEF Sound
  <2> QED BY <1>7, <1>11, <2>6 DEF a
<1> QED BY <1>8, <1>9, <1>10, <1>11

\* A claim that succeeds pays every session of its batch and keeps what holds of
\* the chain.
LEMMA ClaimPaid ==
    ASSUME NEW st, ChainInv(st), NEW batch \in SUBSET Relay, IsFiniteSet(batch),
           NEW order \in SetToSeqs(batch), PaymentSucceeds(Payment(st, order))
    PROVE  LET new == Payment(st, order).st
           IN  /\ ChainInv(new) /\ new.now = st.now
               /\ \A s \in Sessions : new.paid[s] >= st.paid[s]
               /\ \A s \in SessionsOf(batch) : new.paid[s] > 0
<1> DEFINE n == Cardinality(batch)
<1>1. n \in Nat
  BY FS_CardinalityType
<1>2. order \in [1..n -> batch] /\ \A i, j \in 1..n : i # j => order[i] # order[j]
  BY DEF SetToSeqs
<1>3. PICK acc : /\ acc[0] = Begin(st) /\ acc[n] = Payment(st, order)
                 /\ \A k \in 1..n : acc[k] = PayRelay(acc[k - 1], order[k])
  <2>1. DOMAIN order = 1..n
    BY <1>2
  <2> HIDE DEF n
  <2> QED BY <1>1, <2>1, PaymentSteps
<1>4. st \in Chain
  BY DEF ChainInv
<1> HIDE DEF n
<1>5. Sound(st, order, acc[0], 0)
  <2> DEFINE a == Begin(st)
  <2>1. a \in Outcome /\ a.st = st
    BY <1>4 DEF Begin, Outcome
  <2>2. \A s \in Sessions : st.paid[s] >= st.paid[s]
    BY <1>4, ChainFields
  <2> HIDE DEF a
  <2>3. Sound(st, order, a, 0)
    BY <2>1, <2>2 DEF Sound
  <2> QED BY <1>3, <2>3 DEF a
<1> DEFINE T == {k \in Nat : k <= n /\ ~Sound(st, order, acc[k], k)}
<1>6. T = {}
  <2> SUFFICES ASSUME T # {} PROVE FALSE
    OBVIOUS
  <2>1. PICK m \in T : \A k \in T : m <= k
    <3>1. T \in SUBSET Nat
      OBVIOUS
    <3> HIDE DEF T
    <3> QED BY <3>1, LeastNumber
  <2>2. m \in Nat /\ m <= n /\ ~Sound(st, order, acc[m], m) /\ m # 0
    BY <1>5
  <2> DEFINE k == m - 1
  <2>3. k \in Nat /\ k <= n /\ k \notin T /\ m = k + 1
    BY <1>1, <2>1, <2>2
  <2>4. Sound(st, order, acc[k], k)
    BY <2>3
  <2>5. \A i \in 1..(k + 1) : order[i] \in Relay
    <3>1. \A i \in 1..(k + 1) : i \in 1..n
      BY <1>1, <2>2, <2>3
    <3> HIDE DEF k
    <3> QED BY <1>2, <3>1
  <2>6. acc[m] = PayRelay(acc[k], order[k + 1])
    <3>1. m \in 1..n
      BY <1>1, <2>2
    <3> QED BY <1>3, <2>3, <3>1
  <2> HIDE DEF k
  <2>7. Sound(st, order, PayRelay(acc[k], order[k + 1]), k + 1)
    BY <1>4, <2>3, <2>4, <2>5, SoundStep
  <2> QED BY <2>2, <2>3, <2>6, <2>7
<1>7. Sound(st, order, acc[n], n)
  <2>1. n <= n
    BY <1>1
  <2> QED BY <1>1, <1>6, <2>1
<1> DEFINE res == Payment(st, order)
<1>8. /\ ChainInv(res.st) /\ res.st.now = st.now
      /\ \A s \in Sessions : res.st.paid[s] >= st.paid[s]
      /\ \A i \in 1..n : res.st.paid[order[i].sess] > 0
  BY <1>3, <1>7 DEF Sound
<1>9. ASSUME NEW p \in batch PROVE \E i \in 1..n : order[i] = p
  <2>1. order \in Injection(1..n, batch)
    BY <1>2 DEF Injection, IsInjective
  <2>2. IsFiniteSet(1..n) /\ Cardinality(1..n) = n
    BY <1>1, FS_Interval
  <2>3. order \in Surjection(1..n, batch)
    BY <2>1, <2>2, FS_Injection DEF n
  <2> QED BY <2>3 DEF Surjection
<1>10. ASSUME NEW s \in SessionsOf(batch) PROVE res.st.paid[s] > 0
  <2>1. PICK p \in batch : s = p.sess
    BY DEF SessionsOf
  <2> QED BY <1>8, <1>9, <2>1
<1> QED BY <1>8, <1>10

-----------------------------------------------------------------------------
(* The next epoch. *)

\* The payments of an epoch are forgotten together and with the epoch, a badge's
\* used CU when it is no longer valid.
LEMMA EpochForgets ==
    ASSUME NEW st, ChainInv(st)
    PROVE  LET new == NextEpochPayments(st)
           IN  /\ ChainInv(new) /\ new.paid = st.paid
               /\ Earliest(new) \in Nat /\ Earliest(st) \in Nat /\ Earliest(st) <= Earliest(new)
<1> DEFINE up == [st EXCEPT !.now = st.now + 1]
           E == Earliest(up)
           P == {p \in st.payments : p.sess.epoch >= E}
           B == [b \in Badges |->
                    IF \A s \in Sessions : s.badge = b => s.epoch + EpochsToSave <= st.now + 1
                    THEN 0 ELSE st.badge[b]]
           new == [up EXCEPT !.payments = P, !.badge = B]
<1>1. /\ st \in Chain /\ IsFiniteSet(st.payments) /\ IsFiniteSet(st.credited)
      /\ Once(st) /\ Recorded(st) /\ Remembered(st) /\ Charged(st)
      /\ WithinServed(st) /\ WithinAllocation(st) /\ BadgeCharged(st)
  BY DEF ChainInv
<1>2. /\ st.now \in Nat /\ st.payments \in SUBSET Relay /\ st.badge \in [Badges -> Nat]
      /\ st.used \in [Consumers -> Nat]
  BY <1>1, ChainFields
<1>3. /\ up \in Chain /\ up.now = st.now + 1 /\ up.payments = st.payments
      /\ up.used = st.used /\ up.paid = st.paid /\ up.unrecorded = st.unrecorded
      /\ up.credited = st.credited
  BY <1>1, <1>2 DEF Chain
<1>4. NextEpochPayments(st) = new
  BY <1>1, <1>3 DEF NextEpochPayments, ForgetEpochs
<1>5. E \in Nat /\ Earliest(st) \in Nat /\ Earliest(st) <= E
  BY <1>2, <1>3, LimitsAssumption DEF Earliest
<1>6. P \in SUBSET Relay /\ P \in SUBSET st.payments
  BY <1>2
<1>7. B \in [Badges -> Nat]
  BY <1>2
<1> HIDE DEF P, B, E, up
<1>8. /\ new \in Chain /\ new.now = st.now + 1 /\ new.payments = P /\ new.badge = B
      /\ new.used = st.used /\ new.paid = st.paid /\ new.unrecorded = st.unrecorded
      /\ new.credited = st.credited
  BY <1>3, <1>6, <1>7 DEF Chain
<1> HIDE DEF new
<1>9. Earliest(new) = E
  BY <1>3, <1>8 DEF Earliest, E
<1>10. \A s \in Sessions : /\ s.epoch \in Nat
                           /\ Forgotten(new, s) <=> s.epoch < E
                           /\ Forgotten(st, s) => Forgotten(new, s)
  BY <1>5, <1>9, SessionsAssumption DEF Forgotten
<1>11. IsFiniteSet(new.payments) /\ IsFiniteSet(new.credited)
  BY <1>1, <1>6, <1>8, FS_Subset
<1>12. Once(new) /\ WithinServed(new) /\ WithinAllocation(new)
  BY <1>1, <1>8 DEF Once, WithinServed, WithinAllocation
<1>13. Recorded(new)
  <2> SUFFICES ASSUME NEW s \in Sessions, new.paid[s] > 0, ~Forgotten(new, s)
               PROVE  \E p \in new.payments : p.sess = s
    BY DEF Recorded
  <2>1. PICK p \in st.payments : p.sess = s
    BY <1>1, <1>8, <1>10 DEF Recorded
  <2>2. p.sess.epoch >= E
    BY <1>5, <1>10, <2>1
  <2> QED BY <1>8, <2>1, <2>2 DEF P
<1>14. Remembered(new)
  <2> SUFFICES ASSUME NEW p \in P PROVE ~Forgotten(new, p.sess)
    BY <1>8 DEF Remembered
  <2>1. p.sess \in Sessions /\ p.sess.epoch >= E
    BY <1>6 DEF Relay, P
  <2> QED BY <1>5, <1>10, <2>1
<1>15. Charged(new)
  <2> SUFFICES ASSUME NEW s \in Sessions PROVE TotalCuInEpoch(new, s) <= new.used[s.consumer]
    BY DEF Charged
  <2>1. s.consumer \in Consumers
    BY DEF Consumers
  <2>2. st.used[s.consumer] \in Nat /\ TotalCuInEpoch(st, s) <= st.used[s.consumer]
    BY <1>1, <1>2, <2>1 DEF Charged
  <2>3. CASE s.epoch >= E
    <3>1. PaymentsOf(new, s) = PaymentsOf(st, s)
      BY <1>8, <2>3 DEF PaymentsOf, P
    <3> QED BY <1>8, <2>2, <3>1 DEF TotalCuInEpoch
  <2>4. CASE ~ (s.epoch >= E)
    <3>1. PaymentsOf(new, s) = {}
      BY <1>8, <2>4 DEF PaymentsOf, P
    <3> QED BY <1>8, <2>2, <3>1, CuOfNone DEF TotalCuInEpoch
  <2> QED BY <2>3, <2>4
<1>16. BadgeCharged(new)
  <2> SUFFICES ASSUME NEW b \in Badges, ~Expired(new, b)
               PROVE  CuOf(CreditOf(new, b)) <= new.badge[b]
    BY DEF BadgeCharged
  <2>1. CreditOf(new, b) = CreditOf(st, b)
    BY <1>8 DEF CreditOf
  <2>2. ~Expired(st, b)
    BY <1>2, <1>8, <1>10, LimitsAssumption DEF Expired
  <2>3. new.badge[b] = st.badge[b]
    BY <1>8 DEF Expired, B
  <2> QED BY <1>1, <2>1, <2>2, <2>3 DEF BadgeCharged
<1> QED BY <1>4, <1>5, <1>8, <1>9, <1>11, <1>12, <1>13, <1>14, <1>15, <1>16 DEF ChainInv

\* The chain begins without payments.
LEMMA FirstChain == ChainInv(InitPayments)
<1> DEFINE st == InitPayments
<1>1. /\ st \in Chain /\ st.payments = {} /\ st.credited = {} /\ st.now = 1
      /\ \A s \in Sessions : st.paid[s] = 0
      /\ st.used = [c \in Consumers |-> 0] /\ st.badge = [b \in Badges |-> 0]
  <2>1. MonthCu \in Nat
    BY LimitsAssumption
  <2> QED BY <2>1 DEF InitPayments, Chain
<1> HIDE DEF st
<1>2. IsFiniteSet(st.payments) /\ IsFiniteSet(st.credited)
  BY <1>1, FS_EmptySet
<1>3. Once(st) /\ Recorded(st) /\ Remembered(st) /\ WithinServed(st)
  BY <1>1 DEF Once, Recorded, Remembered, WithinServed
<1>4. ASSUME NEW s \in Sessions PROVE TotalCuInEpoch(st, s) <= st.used[s.consumer]
  <2>1. PaymentsOf(st, s) = {}
    BY <1>1 DEF PaymentsOf
  <2>2. st.used[s.consumer] = 0
    BY <1>1 DEF Consumers
  <2> QED BY <2>1, <2>2, CuOfNone DEF TotalCuInEpoch
<1>5. ASSUME NEW b \in Badges
      PROVE  CuOf(CreditOf(st, b)) <= CuAllocation /\ CuOf(CreditOf(st, b)) <= st.badge[b]
  <2>1. CreditOf(st, b) = {} /\ st.badge[b] = 0
    BY <1>1 DEF CreditOf
  <2>2. CuAllocation \in Nat
    BY LimitsAssumption
  <2> QED BY <2>1, <2>2, CuOfNone
<1>6. Charged(st) /\ WithinAllocation(st) /\ BadgeCharged(st)
  BY <1>4, <1>5 DEF Charged, WithinAllocation, BadgeCharged, CreditOf
<1> QED BY <1>1, <1>2, <1>3, <1>6 DEF ChainInv, st

-----------------------------------------------------------------------------
(* The server's steps: what a step shows of the runs and of the proofs in    *)
(* hand.                                                                     *)

\* What the steps of the chain do: payments are added, epochs go by.
Grows ==
    /\ ChainInv(chain') /\ Earliest(chain) \in Nat /\ Earliest(chain') \in Nat
    /\ Earliest(chain) <= Earliest(chain')
    /\ \A s \in Sessions : chain'.paid[s] >= chain.paid[s]

\* The chain is as it was.
LEMMA Stays ==
    ASSUME ServerInv, chain' = chain
    PROVE  Grows
<1>1. ChainInv(chain) /\ chain \in Chain
  BY DEF ServerInv, ChainInv
<1>2. chain.now \in Nat /\ chain.paid \in [Sessions -> Nat]
  BY <1>1, ChainFields
<1>3. Earliest(chain) \in Nat
  BY <1>2, EarliestNat
<1> QED BY <1>1, <1>2, <1>3 DEF Grows

\* A session of which a proof is in memory, to be retried or being sent.
Held(s, proofs, failures, goroutines) ==
    \/ s \in SessionsOf(proofs) \/ s \in SessionsOf(failures)
    \/ \E g \in Runners : s \in SessionsOf(goroutines[g].batch)

LEMMA HeldInHand == \A s : s \in InHand <=> Held(s, rewards, failed, runs)
  BY DEF InHand, Held

\* Nothing is mislaid by a step that lets go of a proof only when its session was
\* paid or its epoch is forgotten.
LEMMA StillInHand ==
    ASSUME ServerInv, Grows, owed' \in SUBSET Sessions,
           \A s \in owed' : \/ Held(s, rewards', failed', runs')
                            \/ chain'.paid[s] > 0 \/ s.epoch < Earliest(chain')
                            \/ s \in owed /\ ~Held(s, rewards, failed, runs)
    PROVE  NothingMislaid'
<1> SUFFICES ASSUME NEW s \in owed', chain'.paid[s] = 0, s.epoch >= Earliest(chain')
             PROVE  s \in InHand'
  BY DEF NothingMislaid
<1>1. s \in Sessions /\ s.epoch \in Nat
  BY SessionsAssumption
<1>2. chain'.paid[s] >= chain.paid[s] /\ chain.paid[s] \in Nat /\ Earliest(chain) \in Nat
      /\ Earliest(chain') \in Nat /\ Earliest(chain) <= Earliest(chain')
  <2>1. chain.paid \in [Sessions -> Nat]
    BY ChainFields DEF ServerInv, ChainInv
  <2> QED BY <1>1, <2>1 DEF Grows
<1>3. chain.paid[s] = 0 /\ s.epoch >= Earliest(chain) /\ ~ (s.epoch < Earliest(chain'))
  BY <1>1, <1>2
<1>4. s \in owed => Held(s, rewards, failed, runs)
  BY <1>3, HeldInHand DEF ServerInv, NothingMislaid
<1>5. Held(s, rewards', failed', runs')
  BY <1>3, <1>4
<1> QED BY <1>5 DEF InHand, Held

\* One goroutine moves, and has no transaction in the mempool afterwards that it waits
\* for.
LEMMA OneRun ==
    ASSUME ServerInv, Grows, NEW g \in Runners,
           \A h \in Runners : h # g => runs'[h] = runs[h],
           runs'[g].pc \in {"idle", "begun", "gather"} => runs'[g].batch = {},
           runs'[g].earliest <= Earliest(chain'),
           \A tx \in mempool' : tx.by # Nobody => tx \in mempool /\ tx.by # g
    PROVE  RunsInv'
<1>1. RunsInv /\ ServerTypes
  BY DEF ServerInv
<1>2. ASSUME NEW h \in Runners
      PROVE  /\ runs'[h].pc \in {"idle", "begun", "gather"} => runs'[h].batch = {}
             /\ runs'[h].earliest <= Earliest(chain')
  <2>1. CASE h = g
    BY <2>1
  <2>2. CASE h # g
    <3>1. runs'[h] = runs[h] /\ runs[h].earliest <= Earliest(chain) /\ runs[h].earliest \in Nat
      BY <1>1, <2>2 DEF RunsInv, ServerTypes, Run
    <3> QED BY <1>1, <3>1 DEF Grows, RunsInv
  <2> QED BY <2>1, <2>2
<1>3. ASSUME NEW tx \in mempool', tx.by # Nobody
      PROVE  /\ runs'[tx.by].pc \in {"retry", "claim"} /\ tx.batch = runs'[tx.by].batch
             /\ \A other \in mempool' : other.by = tx.by => other = tx
  <2>1. tx \in mempool /\ tx.by # g
    BY <1>3
  <2>2. tx.by \in Runners
    BY <1>1, <1>3, <2>1 DEF ServerTypes, Transaction
  <2>3. runs'[tx.by] = runs[tx.by]
    BY <2>1, <2>2
  <2> QED BY <1>1, <1>3, <2>1, <2>3 DEF RunsInv
<1> QED BY <1>2, <1>3 DEF RunsInv

\* No goroutine moves.
LEMMA NoRun ==
    ASSUME ServerInv, Grows, runs' = runs,
           \A tx \in mempool' : tx.by # Nobody => tx \in mempool
    PROVE  RunsInv'
<1>1. RunsInv /\ ServerTypes
  BY DEF ServerInv
<1>2. ASSUME NEW h \in Runners
      PROVE  /\ runs'[h].pc \in {"idle", "begun", "gather"} => runs'[h].batch = {}
             /\ runs'[h].earliest <= Earliest(chain')
  <2>1. runs[h].earliest <= Earliest(chain) /\ runs[h].earliest \in Nat
    BY <1>1 DEF RunsInv, ServerTypes, Run
  <2> QED BY <1>1, <2>1 DEF Grows, RunsInv
<1>3. ASSUME NEW tx \in mempool', tx.by # Nobody
      PROVE  /\ runs'[tx.by].pc \in {"retry", "claim"} /\ tx.batch = runs'[tx.by].batch
             /\ \A other \in mempool' : other.by = tx.by => other = tx
  BY <1>1, <1>3 DEF RunsInv
<1> QED BY <1>2, <1>3 DEF RunsInv

\* A goroutine that does not wait for a transaction has none in the mempool.
LEMMA NotWaiting ==
    ASSUME ServerInv, NEW g \in Runners, runs[g].pc \in {"idle", "begun", "gather"}
    PROVE  runs[g].batch = {} /\ \A tx \in mempool : tx.by # Nobody => tx.by # g
  BY DEF ServerInv, RunsInv

\* The image of a finite set.
LEMMA FiniteImage ==
    ASSUME NEW S, IsFiniteSet(S), NEW f, DOMAIN f = S
    PROVE  IsFiniteSet({f[x] : x \in S})
<1> DEFINE T == {f[x] : x \in S}
           h == [x \in S |-> f[x]]
<1>1. h \in Surjection(S, T)
  BY DEF Surjection
<1> QED BY <1>1, FS_Surjection

\* What is left of finitely many proofs.
LEMMA WithoutSubset ==
    ASSUME NEW S, NEW ss
    PROVE  /\ Without(S, ss) \in SUBSET S
           /\ \A s : s \in SessionsOf(Without(S, ss)) <=> s \in SessionsOf(S) /\ s \notin ss
  BY DEF Without, SessionsOf

\* The sessions that failed: again or for the first time.
LEMMA FailedTypes ==
    ASSUME NEW batch \in SUBSET Relay, IsFiniteSet(batch), failed \in SUBSET Failure, IsFiniteSet(failed)
    PROVE  LET new == FailedAgain(batch) \cup FailedFirst(batch)
           IN  /\ new \in SUBSET Failure /\ IsFiniteSet(new)
               /\ \A s : (s \in SessionsOf(failed) \/ s \in SessionsOf(batch)) /\ s \notin Exhausted(batch)
                    => s \in SessionsOf(new)
<1> DEFINE D == Without(failed, Exhausted(batch))
           F == Without(batch, SessionsOf(failed))
           again == [f \in D |-> IF f.sess \in SessionsOf(batch)
                                 THEN [f EXCEPT !.attempts = f.attempts + 1] ELSE f]
           first == [p \in F |-> [sess |-> p.sess, cu |-> p.cu, attempts |-> 1]]
<1>1. D \in SUBSET failed /\ F \in SUBSET batch
  BY WithoutSubset
<1>2. IsFiniteSet(D) /\ IsFiniteSet(F)
  BY <1>1, FS_Subset
<1>3. \A f \in D : again[f] \in Failure /\ again[f].sess = f.sess
  <2> SUFFICES ASSUME NEW f \in D PROVE again[f] \in Failure /\ again[f].sess = f.sess
    OBVIOUS
  <2>1. f \in Failure
    BY <1>1
  <2>2. [f EXCEPT !.attempts = f.attempts + 1] \in Failure
        /\ [f EXCEPT !.attempts = f.attempts + 1].sess = f.sess
    BY <2>1 DEF Failure
  <2>3. again[f] = IF f.sess \in SessionsOf(batch)
                   THEN [f EXCEPT !.attempts = f.attempts + 1] ELSE f
    OBVIOUS
  <2> HIDE DEF again
  <2> QED BY <2>1, <2>2, <2>3
<1>4. \A p \in F : first[p] \in Failure /\ first[p].sess = p.sess
  BY <1>1 DEF Relay, Failure
<1>5. FailedAgain(batch) = {again[f] : f \in D}
  <2>1. FailedAgain(batch) = {IF f.sess \in SessionsOf(batch)
                              THEN [f EXCEPT !.attempts = f.attempts + 1] ELSE f : f \in D}
    BY <1>1 DEF FailedAgain, Failure
  <2> QED BY <2>1
<1>6. FailedFirst(batch) = {first[p] : p \in F}
  BY DEF FailedFirst
<1>7. DOMAIN again = D /\ DOMAIN first = F
  OBVIOUS
<1> HIDE DEF again, first
<1>8. IsFiniteSet({again[f] : f \in D}) /\ IsFiniteSet({first[p] : p \in F})
  <2> HIDE DEF D, F
  <2> QED BY <1>2, <1>7, FiniteImage
<1>9. IsFiniteSet(FailedAgain(batch) \cup FailedFirst(batch))
  BY <1>5, <1>6, <1>8, FS_Union
<1>10. FailedAgain(batch) \cup FailedFirst(batch) \in SUBSET Failure
  BY <1>3, <1>4, <1>5, <1>6
<1>11. ASSUME NEW s, s \in SessionsOf(failed), s \notin Exhausted(batch)
       PROVE  s \in SessionsOf(FailedAgain(batch))
  <2>1. PICK f \in D : f.sess = s
    BY <1>11 DEF SessionsOf, Without
  <2>2. again[f] \in FailedAgain(batch) /\ again[f].sess = s
    BY <1>3, <1>5, <2>1
  <2> QED BY <2>2 DEF SessionsOf
<1>12. ASSUME NEW s, s \in SessionsOf(batch), s \notin SessionsOf(failed)
       PROVE  s \in SessionsOf(FailedFirst(batch))
  <2>1. PICK p \in F : p.sess = s
    BY <1>12 DEF SessionsOf, Without
  <2>2. first[p] \in FailedFirst(batch) /\ first[p].sess = s
    BY <1>4, <1>6, <2>1
  <2> QED BY <2>2 DEF SessionsOf
<1>13. \A s : s \in SessionsOf(FailedAgain(batch)) \/ s \in SessionsOf(FailedFirst(batch))
              => s \in SessionsOf(FailedAgain(batch) \cup FailedFirst(batch))
  BY DEF SessionsOf
<1> QED BY <1>9, <1>10, <1>11, <1>12, <1>13

\* The goroutine learns the result of its claim: its batch is paid, or waits to be
\* retried, but for the sessions that failed too often.
LEMMA ResultLearned ==
    ASSUME ServerInv, NEW g \in Runners, runs[g].pc \in {"retry", "claim"},
           NEW success \in BOOLEAN, Result(g, success)
    PROVE  /\ rewardDB' \in SUBSET rewardDB /\ owed' \in SUBSET owed
           /\ failed' \in SUBSET Failure /\ IsFiniteSet(failed')
           /\ runs' \in [Runners -> Run] /\ \A h \in Runners : h # g => runs'[h] = runs[h]
           /\ runs'[g].batch = {} /\ runs'[g].earliest <= Earliest(chain)
           /\ \A s \in owed' : s \in SessionsOf(failed) \/ s \in SessionsOf(runs[g].batch)
                => s \in SessionsOf(failed') \/ (success /\ s \in SessionsOf(runs[g].batch))
<1> DEFINE batch == runs[g].batch
           dropped == IF success THEN {} ELSE Exhausted(batch)
           run == IF runs[g].pc = "retry" THEN [runs[g] EXCEPT !.pc = "gather", !.batch = {}] ELSE Idle
<1>1. ServerTypes /\ Finite /\ RunsInv /\ ChainInv(chain)
  BY DEF ServerInv
<1>2. /\ runs \in [Runners -> Run] /\ runs[g] \in Run /\ batch \in SUBSET Relay
      /\ IsFiniteSet(batch) /\ failed \in SUBSET Failure /\ IsFiniteSet(failed)
  BY <1>1 DEF ServerTypes, Finite, Run
<1>3. /\ failed' = UpdatePaymentRequestAttempt(batch, success)
      /\ rewardDB' = DeleteRelaySessions(dropped) /\ owed' = owed \ dropped
      /\ runs' = [runs EXCEPT ![g] = run]
  BY <1>2 DEF Result
<1>4. Earliest(chain) \in Nat /\ runs[g].earliest <= Earliest(chain)
  <2>1. chain.now \in Nat
    BY <1>1, ChainFields DEF ChainInv
  <2> QED BY <1>1, <2>1, EarliestNat DEF RunsInv
<1>5. run \in Run /\ run.batch = {} /\ run.earliest <= Earliest(chain)
  <2>1. Idle \in Run /\ Idle.batch = {} /\ Idle.earliest = 0
    BY DEF Idle, Run
  <2>2. LET r == [runs[g] EXCEPT !.pc = "gather", !.batch = {}]
        IN  r \in Run /\ r.batch = {} /\ r.earliest = runs[g].earliest
    BY <1>2 DEF Run
  <2> QED BY <1>4, <2>1, <2>2
<1> HIDE DEF run
<1>6. /\ runs' \in [Runners -> Run] /\ \A h \in Runners : h # g => runs'[h] = runs[h]
      /\ runs'[g] = run
  BY <1>2, <1>3, <1>5
<1>7. rewardDB' \in SUBSET rewardDB /\ owed' \in SUBSET owed
  BY <1>3, WithoutSubset DEF DeleteRelaySessions
<1> HIDE DEF batch
<1>8. CASE success
  <2>1. failed' = Without(failed, SessionsOf(batch))
    BY <1>3, <1>8 DEF UpdatePaymentRequestAttempt
  <2>2. failed' \in SUBSET failed
    BY <2>1, WithoutSubset
  <2>3. failed' \in SUBSET Failure /\ IsFiniteSet(failed')
    BY <1>2, <2>2, FS_Subset
  <2>4. \A s : s \in SessionsOf(failed) => s \in SessionsOf(failed') \/ s \in SessionsOf(batch)
    BY <2>1, WithoutSubset
  <2> QED BY <1>5, <1>6, <1>7, <1>8, <2>3, <2>4 DEF batch
<1>9. CASE ~success
  <2>1. failed' = FailedAgain(batch) \cup FailedFirst(batch)
    BY <1>3, <1>9 DEF UpdatePaymentRequestAttempt
  <2>2. /\ failed' \in SUBSET Failure /\ IsFiniteSet(failed')
        /\ \A s : (s \in SessionsOf(failed) \/ s \in SessionsOf(batch)) /\ s \notin Exhausted(batch)
             => s \in SessionsOf(failed')
    BY <1>2, <2>1, FailedTypes
  <2>3. \A s \in owed' : s \notin Exhausted(batch)
    BY <1>3, <1>9
  <2> QED BY <1>5, <1>6, <1>7, <2>2, <2>3 DEF batch
<1> QED BY <1>8, <1>9

\* A step in which a goroutine learns a result keeps the invariant when a success means
\* that its batch was paid.
LEMMA ResultStep ==
    ASSUME ServerInv, Grows, NEW g \in Runners, runs[g].pc \in {"retry", "claim"},
           NEW success \in BOOLEAN, Result(g, success), rewards' = rewards,
           mempool' \in SUBSET Transaction, \A tx \in mempool' : IsFiniteSet(tx.batch),
           \A tx \in mempool' : tx.by # Nobody => tx \in mempool /\ tx.by # g,
           success => \A s \in SessionsOf(runs[g].batch) : chain'.paid[s] > 0
    PROVE  ServerInv'
<1>1. ServerTypes /\ Finite
  BY DEF ServerInv
<1>2. /\ rewardDB' \in SUBSET rewardDB /\ owed' \in SUBSET owed
      /\ failed' \in SUBSET Failure /\ IsFiniteSet(failed')
      /\ runs' \in [Runners -> Run] /\ \A h \in Runners : h # g => runs'[h] = runs[h]
      /\ runs'[g].batch = {} /\ runs'[g].earliest <= Earliest(chain)
      /\ \A s \in owed' : s \in SessionsOf(failed) \/ s \in SessionsOf(runs[g].batch)
           => s \in SessionsOf(failed') \/ (success /\ s \in SessionsOf(runs[g].batch))
  BY ResultLearned
<1>3. ServerTypes'
  BY <1>1, <1>2 DEF ServerTypes
<1>4. Finite'
  <2>1. IsFiniteSet(rewardDB') /\ IsFiniteSet(rewards')
    BY <1>1, <1>2, FS_Subset DEF Finite
  <2>2. ASSUME NEW h \in Runners PROVE IsFiniteSet(runs'[h].batch)
    BY <1>1, <1>2, FS_EmptySet DEF Finite
  <2> QED BY <1>2, <2>1, <2>2 DEF Finite
<1>5. RunsInv'
  <2>1. runs'[g].earliest \in Nat
    BY <1>2 DEF Run
  <2>2. runs'[g].earliest <= Earliest(chain')
    BY <1>2, <2>1 DEF Grows
  <2> QED BY <1>2, <2>2, OneRun
<1>6. NothingMislaid'
  <2>1. owed' \in SUBSET Sessions
    BY <1>1, <1>2 DEF ServerTypes
  <2>2. ASSUME NEW s \in owed', Held(s, rewards, failed, runs)
        PROVE  Held(s, rewards', failed', runs') \/ chain'.paid[s] > 0
    <3>1. CASE s \in SessionsOf(rewards)
      BY <3>1 DEF Held
    <3>2. CASE s \in SessionsOf(failed) \/ s \in SessionsOf(runs[g].batch)
      BY <1>2, <3>2 DEF Held
    <3>3. ASSUME NEW h \in Runners, h # g, s \in SessionsOf(runs[h].batch)
          PROVE  Held(s, rewards', failed', runs')
      BY <1>2, <3>3 DEF Held
    <3> QED BY <2>2, <3>1, <3>2, <3>3 DEF Held
  <2>3. \A s \in owed' : s \in owed
    BY <1>2
  <2> QED BY <2>1, <2>2, <2>3, StillInHand
<1> QED BY <1>3, <1>4, <1>5, <1>6 DEF ServerInv, Grows

-----------------------------------------------------------------------------
(* The steps *)

LEMMA SaveProofKeeps ==
    ASSUME ServerInv, NEW s \in Sessions, NEW cu \in Cus, SaveProof(s, cu)
    PROVE  ServerInv'
<1> DEFINE p == [sess |-> s, cu |-> cu]
<1>1. ServerTypes /\ Finite
  BY DEF ServerInv
<1>2. /\ rewards' = Without(rewards, {s}) \cup {p} /\ owed' = owed \cup {s}
      /\ chain' = chain /\ rewardDB' = rewardDB /\ failed' = failed /\ runs' = runs /\ mempool' = mempool
  BY DEF SaveProof
<1>3. p \in Relay
  BY ServerAssumption DEF Relay
<1>4. Grows
  BY <1>2, Stays
<1>5. Without(rewards, {s}) \in SUBSET rewards
  BY WithoutSubset
<1>6. rewards' \in SUBSET Relay /\ IsFiniteSet(rewards')
  <2>1. IsFiniteSet(Without(rewards, {s}))
    BY <1>1, <1>5, FS_Subset DEF Finite
  <2>2. IsFiniteSet(rewards')
    BY <1>2, <2>1, FS_AddElement
  <2> QED BY <1>1, <1>2, <1>3, <1>5, <2>2 DEF ServerTypes
<1>7. ServerTypes' /\ Finite'
  BY <1>1, <1>2, <1>6 DEF ServerTypes, Finite
<1>8. RunsInv'
  BY <1>2, <1>4, NoRun
<1>9. NothingMislaid'
  <2>1. owed' \in SUBSET Sessions
    BY <1>7 DEF ServerTypes
  <2>2. ASSUME NEW t \in owed'
        PROVE  Held(t, rewards', failed', runs') \/ (t \in owed /\ ~Held(t, rewards, failed, runs))
    <3>1. CASE t = s
      <4>1. p \in rewards' /\ p.sess = t
        BY <1>2, <3>1
      <4>2. t \in SessionsOf(rewards')
        BY <4>1, Zenon DEF SessionsOf
      <4> QED BY <4>2 DEF Held
    <3>2. CASE t # s
      <4>1. t \in owed
        BY <1>2, <3>2
      <4>2. t \in SessionsOf(rewards) => t \in SessionsOf(rewards')
        BY <1>2, <3>2 DEF SessionsOf, Without
      <4> QED BY <1>2, <4>1, <4>2 DEF Held
    <3> QED BY <3>1, <3>2
  <2> QED BY <1>4, <2>1, <2>2, StillInHand
<1> QED BY <1>4, <1>7, <1>8, <1>9 DEF ServerInv, Grows

\* Proofs are copied to the database; an event is handled or lost.
LEMMA DatabaseKeeps ==
    ASSUME ServerInv, rewardDB' \in SUBSET Relay, IsFiniteSet(rewardDB'),
           UNCHANGED <<chain, rewards, failed, runs, owed>>, mempool' \in SUBSET mempool
    PROVE  ServerInv'
<1>1. ServerTypes /\ Finite
  BY DEF ServerInv
<1>2. Grows
  BY Stays
<1>3. ServerTypes' /\ Finite'
  BY <1>1 DEF ServerTypes, Finite
<1>4. RunsInv'
  BY <1>2, NoRun
<1>5. NothingMislaid'
  BY <1>3, <1>2, StillInHand DEF ServerTypes
<1> QED BY <1>2, <1>3, <1>4, <1>5 DEF ServerInv, Grows

LEMMA SnapshotKeeps ==
    ASSUME ServerInv, SaveRewardsSnapshotToDB
    PROVE  ServerInv'
<1>1. /\ rewards \in SUBSET Relay /\ rewardDB \in SUBSET Relay
      /\ IsFiniteSet(rewards) /\ IsFiniteSet(rewardDB)
  BY DEF ServerInv, ServerTypes, Finite
<1> DEFINE kept == Without(rewardDB, SessionsOf(rewards))
<1>2. kept \in SUBSET rewardDB
  BY WithoutSubset
<1>3. IsFiniteSet(kept)
  BY <1>1, <1>2, FS_Subset
<1> HIDE DEF kept
<1>4. IsFiniteSet(kept \cup rewards) /\ kept \cup rewards \in SUBSET Relay
  BY <1>1, <1>2, <1>3, FS_Union
<1>5. rewardDB' = kept \cup rewards
  BY DEF SaveRewardsSnapshotToDB, kept
<1> QED BY <1>4, <1>5, DatabaseKeeps DEF SaveRewardsSnapshotToDB

LEMMA EventKeeps ==
    ASSUME ServerInv, NEW s, PaymentHandler(s) \/ LoseEvent(s)
    PROVE  ServerInv'
<1>1. rewardDB' \in SUBSET rewardDB
  BY WithoutSubset DEF PaymentHandler, LoseEvent
<1>2. rewardDB' \in SUBSET Relay /\ IsFiniteSet(rewardDB')
  BY <1>1, FS_Subset DEF ServerInv, ServerTypes, Finite
<1>3. UNCHANGED <<chain, rewards, failed, runs, owed>> /\ mempool' \in SUBSET mempool
  BY DEF PaymentHandler, LoseEvent
<1> QED BY <1>2, <1>3, DatabaseKeeps

LEMMA LoseTransactionKeeps ==
    ASSUME ServerInv, NEW tx \in mempool, LoseTransaction(tx)
    PROVE  ServerInv'
<1>1. /\ UNCHANGED <<chain, rewards, failed, runs, owed>> /\ mempool' \in SUBSET mempool
      /\ rewardDB' = rewardDB
  BY DEF LoseTransaction
<1>2. rewardDB' \in SUBSET Relay /\ IsFiniteSet(rewardDB')
  BY <1>1 DEF ServerInv, ServerTypes, Finite
<1> QED BY <1>1, <1>2, DatabaseKeeps

\* Failed proofs of forgotten epochs are dropped, the others are the next batch.
LEMMA GatherFailedKeeps ==
    ASSUME ServerInv, NEW g \in Runners, GatherFailed(g)
    PROVE  ServerInv'
<1> DEFINE old == {s \in SessionsOf(failed) : s.epoch < Earliest(chain)}
           left == Without(failed, old)
           proof == [f \in left |-> [sess |-> f.sess, cu |-> f.cu]]
           retry == {[sess |-> f.sess, cu |-> f.cu] : f \in left}
           run == [runs[g] EXCEPT !.earliest = Earliest(chain), !.batch = retry,
                                  !.pc = IF retry = {} THEN "gather" ELSE "retry"]
<1>1. /\ ServerTypes /\ Finite /\ runs[g].pc = "begun" /\ runs \in [Runners -> Run] /\ runs[g] \in Run
      /\ failed \in SUBSET Failure /\ IsFiniteSet(failed)
  BY DEF ServerInv, ServerTypes, Finite, GatherFailed
<1>2. /\ failed' = left /\ rewardDB' = DeleteRelaySessions(old) /\ runs' = [runs EXCEPT ![g] = run]
      /\ chain' = chain /\ rewards' = rewards /\ mempool' = mempool /\ owed' = owed
  BY <1>1 DEF GatherFailed
<1>3. Grows
  BY <1>2, Stays
<1>4. left \in SUBSET failed /\ IsFiniteSet(left)
  BY <1>1, WithoutSubset, FS_Subset
<1>5. retry \in SUBSET Relay /\ IsFiniteSet(retry)
  <2>1. retry = {proof[f] : f \in left} /\ DOMAIN proof = left
    OBVIOUS
  <2>2. IsFiniteSet({proof[f] : f \in left})
    <3> HIDE DEF proof, left
    <3> QED BY <1>4, <2>1, FiniteImage
  <2>3. ASSUME NEW f \in left PROVE [sess |-> f.sess, cu |-> f.cu] \in Relay
    BY <1>1, <1>4 DEF Failure, Relay
  <2>4. retry \in SUBSET Relay
    BY <2>3
  <2> QED BY <2>1, <2>2, <2>4
<1>6. \A s : s \in SessionsOf(failed) => s \in SessionsOf(left) \/ s.epoch < Earliest(chain)
  BY WithoutSubset
<1> HIDE DEF left, retry
<1>7. /\ run \in Run /\ run.batch = retry /\ run.earliest = Earliest(chain)
      /\ run.pc \in {"idle", "begun", "gather"} => retry = {}
  BY <1>1, <1>3, <1>5 DEF Run, Grows
<1> HIDE DEF run
<1>8. /\ runs' \in [Runners -> Run] /\ runs'[g] = run
      /\ \A h \in Runners : h # g => runs'[h] = runs[h]
  BY <1>1, <1>2, <1>7
<1>9. rewardDB' \in SUBSET rewardDB
  BY <1>2, WithoutSubset DEF DeleteRelaySessions
<1>10. ServerTypes'
  BY <1>1, <1>2, <1>4, <1>8, <1>9 DEF ServerTypes
<1>11. Finite'
  <2>1. IsFiniteSet(rewardDB') /\ IsFiniteSet(rewards') /\ IsFiniteSet(failed')
    BY <1>1, <1>2, <1>4, <1>9, FS_Subset DEF Finite
  <2>2. ASSUME NEW h \in Runners PROVE IsFiniteSet(runs'[h].batch)
    BY <1>1, <1>5, <1>7, <1>8 DEF Finite
  <2> QED BY <1>1, <1>2, <2>1, <2>2 DEF Finite
<1>12. runs[g].batch = {} /\ \A tx \in mempool : tx.by # Nobody => tx.by # g
  BY <1>1, NotWaiting
<1>13. RunsInv'
  <2>1. run.earliest <= Earliest(chain')
    BY <1>2, <1>3, <1>7 DEF Grows
  <2> QED BY <1>2, <1>3, <1>7, <1>8, <1>12, <2>1, OneRun
<1>14. NothingMislaid'
  <2>1. ASSUME NEW s \in owed', Held(s, rewards, failed, runs)
        PROVE  Held(s, rewards', failed', runs') \/ s.epoch < Earliest(chain')
    <3>1. CASE s \in SessionsOf(rewards) \/ s \in SessionsOf(failed)
      BY <1>2, <1>6, <3>1 DEF Held
    <3>2. ASSUME NEW h \in Runners, s \in SessionsOf(runs[h].batch)
          PROVE  Held(s, rewards', failed', runs')
      <4>1. h # g
        BY <1>12, <3>2 DEF SessionsOf
      <4> QED BY <1>8, <3>2, <4>1 DEF Held
    <3> QED BY <2>1, <3>1, <3>2 DEF Held
  <2>2. owed' \in SUBSET Sessions /\ \A s \in owed' : s \in owed
    BY <1>1, <1>2 DEF ServerTypes
  <2> QED BY <1>3, <2>1, <2>2, StillInHand
<1> QED BY <1>3, <1>10, <1>11, <1>13, <1>14 DEF ServerInv, Grows

\* Claimable proofs become the batch; only proofs of epochs that are forgotten for
\* good leave the memory without being sent.
LEMMA GatherRewardsKeeps ==
    ASSUME ServerInv, NEW g \in Runners, GatherRewards(g)
    PROVE  ServerInv'
<1> DEFINE run == runs[g]
           old == {s \in SessionsOf(rewards) : s.epoch < run.earliest}
           batch == Claimable(run)
           gone == {s \in Sessions : \E o \in old : o.epoch = s.epoch}
           new == IF batch = {} THEN Idle ELSE [run EXCEPT !.pc = "claim", !.batch = batch]
<1>1. /\ ServerTypes /\ Finite /\ run.pc = "gather" /\ runs \in [Runners -> Run] /\ run \in Run
      /\ rewards \in SUBSET Relay /\ IsFiniteSet(rewards)
  BY DEF ServerInv, ServerTypes, Finite, GatherRewards
<1>2. /\ rewards' = Without(rewards, old) \ batch /\ rewardDB' = Without(rewardDB, gone)
      /\ runs' = [runs EXCEPT ![g] = new]
      /\ chain' = chain /\ failed' = failed /\ mempool' = mempool /\ owed' = owed
  BY DEF GatherRewards
<1>3. Grows
  BY <1>2, Stays
<1>4. batch \in SUBSET rewards /\ IsFiniteSet(batch)
  <2>1. batch \in SUBSET rewards
    BY DEF Claimable
  <2> HIDE DEF batch
  <2> QED BY <1>1, <2>1, FS_Subset
<1>5. rewards' \in SUBSET rewards /\ rewardDB' \in SUBSET rewardDB
  BY <1>2, WithoutSubset
<1>6. run.earliest \in Nat /\ run.earliest <= Earliest(chain) /\ run.batch = {}
      /\ \A tx \in mempool : tx.by # Nobody => tx.by # g
  BY <1>1, NotWaiting DEF ServerInv, RunsInv, Run
<1>7. ASSUME NEW s \in SessionsOf(rewards)
      PROVE  s \in SessionsOf(rewards') \/ s \in SessionsOf(batch) \/ s.epoch < Earliest(chain')
  <2>1. PICK p \in rewards : p.sess = s
    BY DEF SessionsOf
  <2>2. CASE s \in old
    <3>1. s \in Sessions /\ s.epoch < run.earliest
      BY <1>1, <2>1, <2>2 DEF Relay
    <3>2. s.epoch \in Nat
      BY <3>1, SessionsAssumption
    <3> QED BY <1>2, <1>3, <1>6, <3>1, <3>2 DEF Grows
  <2>3. CASE s \notin old
    <3>1. p \in batch \/ p \in rewards'
      BY <1>2, <2>1, <2>3 DEF Without
    <3> QED BY <2>1, <3>1 DEF SessionsOf
  <2> QED BY <2>2, <2>3
<1> HIDE DEF batch
<1>8. new \in Run /\ new.batch = batch /\ new.earliest <= Earliest(chain)
      /\ (new.pc \in {"idle", "begun", "gather"} => new.batch = {})
  <2>1. CASE batch = {}
    <3>1. new = Idle
      BY <2>1
    <3>2. Idle \in Run /\ Idle.batch = {} /\ Idle.earliest = 0
      BY DEF Idle, Run
    <3>3. 0 <= Earliest(chain)
      BY <1>3 DEF Grows
    <3> QED BY <2>1, <3>1, <3>2, <3>3
  <2>2. CASE batch # {}
    <3> DEFINE claim == [run EXCEPT !.pc = "claim", !.batch = batch]
    <3>1. batch \in SUBSET Relay
      BY <1>1, <1>4
    <3>2. claim \in Run /\ claim.batch = batch /\ claim.earliest = run.earliest /\ claim.pc = "claim"
      BY <1>1, <3>1 DEF Run
    <3>3. new = claim
      BY <2>2
    <3> HIDE DEF claim
    <3> QED BY <1>6, <3>2, <3>3
  <2> QED BY <2>1, <2>2
<1> HIDE DEF new
<1>9. /\ runs' \in [Runners -> Run] /\ runs'[g] = new
      /\ \A h \in Runners : h # g => runs'[h] = runs[h]
  BY <1>1, <1>2, <1>8
<1>10. ServerTypes'
  BY <1>1, <1>2, <1>5, <1>9 DEF ServerTypes
<1>11. Finite'
  <2>1. IsFiniteSet(rewardDB') /\ IsFiniteSet(rewards')
    BY <1>1, <1>5, FS_Subset DEF Finite
  <2>2. ASSUME NEW h \in Runners PROVE IsFiniteSet(runs'[h].batch)
    BY <1>1, <1>4, <1>8, <1>9 DEF Finite
  <2> QED BY <1>1, <1>2, <2>1, <2>2 DEF Finite
<1>12. RunsInv'
  <2>1. runs'[g].earliest <= Earliest(chain')
    BY <1>2, <1>8, <1>9
  <2>2. runs'[g].pc \in {"idle", "begun", "gather"} => runs'[g].batch = {}
    BY <1>8, <1>9
  <2> QED BY <1>2, <1>3, <1>6, <1>9, <2>1, <2>2, OneRun
<1>13. NothingMislaid'
  <2>1. ASSUME NEW s \in owed', Held(s, rewards, failed, runs)
        PROVE  Held(s, rewards', failed', runs') \/ s.epoch < Earliest(chain')
    <3>1. CASE s \in SessionsOf(rewards)
      BY <1>7, <1>8, <1>9, <3>1 DEF Held
    <3>2. CASE s \in SessionsOf(failed)
      BY <1>2, <3>2 DEF Held
    <3>3. ASSUME NEW h \in Runners, s \in SessionsOf(runs[h].batch)
          PROVE  Held(s, rewards', failed', runs')
      <4>1. h # g
        BY <1>6, <3>3 DEF SessionsOf
      <4> QED BY <1>9, <3>3, <4>1 DEF Held
    <3> QED BY <2>1, <3>1, <3>2, <3>3 DEF Held
  <2>2. owed' \in SUBSET Sessions /\ \A s \in owed' : s \in owed
    BY <1>1, <1>2 DEF ServerTypes
  <2> QED BY <1>3, <2>1, <2>2, StillInHand
<1> QED BY <1>3, <1>10, <1>11, <1>12, <1>13 DEF ServerInv, Grows

LEMMA BroadcastKeeps ==
    ASSUME ServerInv, NEW g \in Runners, Broadcast(g), serverID \in Nat
    PROVE  ServerInv'
<1> DEFINE new == [by |-> g, server |-> serverID, batch |-> runs[g].batch]
<1>1. ServerTypes /\ Finite /\ RunsInv
  BY DEF ServerInv
<1>2. /\ mempool' = mempool \cup {new} /\ chain' = chain /\ rewards' = rewards
      /\ rewardDB' = rewardDB /\ failed' = failed /\ runs' = runs /\ owed' = owed
      /\ runs[g].pc \in {"retry", "claim"} /\ \A tx \in mempool : tx.by # g
  BY DEF Broadcast, Unsent
<1>3. new \in Transaction /\ IsFiniteSet(new.batch) /\ new.by = g /\ new.batch = runs[g].batch
  BY <1>1 DEF ServerTypes, Finite, Run, Transaction
<1> HIDE DEF new
<1>4. Grows
  BY <1>2, Stays
<1>5. ServerTypes' /\ Finite'
  BY <1>1, <1>2, <1>3 DEF ServerTypes, Finite
<1>6. RunsInv'
  <2>1. \A h \in Runners : /\ runs'[h].pc \in {"idle", "begun", "gather"} => runs'[h].batch = {}
                           /\ runs'[h].earliest <= Earliest(chain')
    BY <1>1, <1>2 DEF RunsInv
  <2>2. ASSUME NEW tx \in mempool', tx.by # Nobody
        PROVE  /\ runs'[tx.by].pc \in {"retry", "claim"} /\ tx.batch = runs'[tx.by].batch
               /\ \A other \in mempool' : other.by = tx.by => other = tx
    <3>1. CASE tx = new
      BY <1>2, <1>3, <3>1
    <3>2. CASE tx \in mempool
      BY <1>1, <1>2, <1>3, <2>2, <3>2 DEF RunsInv
    <3> QED BY <1>2, <3>1, <3>2
  <2> QED BY <2>1, <2>2 DEF RunsInv
<1>7. NothingMislaid'
  BY <1>2, <1>4, <1>5, StillInHand DEF ServerTypes
<1> QED BY <1>4, <1>5, <1>6, <1>7 DEF ServerInv, Grows

\* The simulation, or the node, refuses the claim.
LEMMA RefusalKeeps ==
    ASSUME ServerInv, NEW g \in Runners, SimulationFails(g) \/ SendFails(g)
    PROVE  ServerInv'
<1>1. ServerTypes /\ Finite
  BY DEF ServerInv
<1>2. /\ runs[g].pc \in {"retry", "claim"} /\ \A tx \in mempool : tx.by # g
      /\ Result(g, FALSE) /\ rewards' = rewards /\ mempool' = mempool /\ chain' = chain
  BY DEF SimulationFails, SendFails, Unsent
<1>3. Grows
  BY <1>2, Stays
<1>4. mempool' \in SUBSET Transaction /\ \A tx \in mempool' : IsFiniteSet(tx.batch)
  BY <1>1, <1>2 DEF ServerTypes, Finite
<1> QED BY <1>2, <1>3, <1>4, ResultStep

LEMMA CommitTimeoutKeeps ==
    ASSUME ServerInv, NEW tx \in mempool, CommitTimeout(tx)
    PROVE  ServerInv'
<1> DEFINE orphan == [tx EXCEPT !.by = Nobody]
           g == tx.by
<1>1. ServerTypes /\ Finite /\ RunsInv
  BY DEF ServerInv
<1>2. /\ tx.by # Nobody /\ Result(g, FALSE) /\ rewards' = rewards /\ chain' = chain
      /\ mempool' = (mempool \ {tx}) \cup {orphan}
  BY DEF CommitTimeout
<1>3. tx \in Transaction /\ IsFiniteSet(tx.batch) /\ mempool \in SUBSET Transaction
  BY <1>1 DEF ServerTypes, Finite
<1>4. g \in Runners /\ runs[g].pc \in {"retry", "claim"}
  BY <1>1, <1>2, <1>3 DEF RunsInv, Transaction
<1>5. orphan \in Transaction /\ orphan.by = Nobody /\ orphan.batch = tx.batch
  BY <1>3 DEF Transaction
<1>6. \A other \in mempool : other.by = g => other = tx
  BY <1>1, <1>2 DEF RunsInv
<1> HIDE DEF orphan, g
<1>7. Grows
  BY <1>2, Stays
<1>8. mempool' \in SUBSET Transaction /\ \A other \in mempool' : IsFiniteSet(other.batch)
  BY <1>1, <1>2, <1>3, <1>5 DEF Finite
<1>9. \A other \in mempool' : other.by # Nobody => other \in mempool /\ other.by # g
  BY <1>2, <1>5, <1>6
<1> QED BY <1>2, <1>4, <1>7, <1>8, <1>9, ResultStep

\* A transaction is included: its sender, if it still waits, learns the result, and a
\* success has paid the batch.
LEMMA IncludeKeeps ==
    ASSUME ServerInv, NEW tx \in mempool, Include(tx)
    PROVE  ServerInv'
<1>1. ServerTypes /\ Finite /\ RunsInv /\ ChainInv(chain)
  BY DEF ServerInv
<1>2. PICK order \in SetToSeqs(tx.batch) :
        /\ mempool' = mempool \ {tx}
        /\ chain' = IF PaymentSucceeds(Payment(chain, order)) THEN Payment(chain, order).st ELSE chain
        /\ IF tx.by = Nobody THEN UNCHANGED <<failed, rewardDB, owed, runs>>
           ELSE Result(tx.by, PaymentSucceeds(Payment(chain, order)))
        /\ rewards' = rewards
  BY DEF Include
<1> DEFINE success == PaymentSucceeds(Payment(chain, order))
<1>3. tx \in Transaction /\ tx.batch \in SUBSET Relay /\ IsFiniteSet(tx.batch)
  BY <1>1 DEF ServerTypes, Finite, Transaction
<1>4. Grows /\ (success => \A s \in SessionsOf(tx.batch) : chain'.paid[s] > 0)
  <2>1. CASE success
    <3>1. /\ ChainInv(chain') /\ chain'.now = chain.now
          /\ \A s \in Sessions : chain'.paid[s] >= chain.paid[s]
          /\ \A s \in SessionsOf(tx.batch) : chain'.paid[s] > 0
      BY <1>1, <1>2, <1>3, <2>1, ClaimPaid
    <3>2. Earliest(chain') = Earliest(chain)
      BY <3>1 DEF Earliest
    <3>3. chain.now \in Nat
      BY <1>1, ChainFields DEF ChainInv
    <3>4. Earliest(chain) \in Nat
      BY <3>3, EarliestNat
    <3>5. Earliest(chain) <= Earliest(chain')
      BY <3>2, <3>4
    <3> QED BY <3>1, <3>2, <3>4, <3>5 DEF Grows
  <2>2. CASE ~success
    BY <1>2, <2>2, Stays
  <2> QED BY <2>1, <2>2
<1>5. mempool' \in SUBSET Transaction /\ \A other \in mempool' : other \in mempool /\ IsFiniteSet(other.batch)
  BY <1>1, <1>2 DEF ServerTypes, Finite
<1>6. CASE tx.by = Nobody
  <2>1. UNCHANGED <<failed, rewardDB, owed, runs>>
    BY <1>2, <1>6
  <2>2. ServerTypes' /\ Finite'
    BY <1>1, <1>2, <1>5, <2>1 DEF ServerTypes, Finite
  <2>3. RunsInv'
    BY <1>4, <1>5, <2>1, NoRun
  <2>4. NothingMislaid'
    BY <1>2, <1>4, <2>1, <2>2, StillInHand DEF ServerTypes
  <2> QED BY <1>4, <2>2, <2>3, <2>4 DEF ServerInv, Grows
<1>7. CASE tx.by # Nobody
  <2>1. /\ tx.by \in Runners /\ runs[tx.by].pc \in {"retry", "claim"} /\ tx.batch = runs[tx.by].batch
        /\ \A other \in mempool : other.by = tx.by => other = tx
    BY <1>1, <1>3, <1>7 DEF RunsInv, Transaction
  <2>2. Result(tx.by, success)
    BY <1>2, <1>7
  <2>3. \A other \in mempool' : other.by # Nobody => other \in mempool /\ other.by # tx.by
    BY <1>2, <2>1
  <2>4. success \in BOOLEAN
    BY DEF PaymentSucceeds
  <2> HIDE DEF success
  <2> QED BY <1>2, <1>4, <1>5, <2>1, <2>2, <2>3, <2>4, ResultStep
<1> QED BY <1>6, <1>7

\* An epoch begins, and with it a goroutine.
LEMMA StartEpochKeeps ==
    ASSUME ServerInv, NEW g \in Runners, StartEpoch(g)
    PROVE  ServerInv'
<1> DEFINE run == [Idle EXCEPT !.pc = "begun", !.epoch = chain.now + 1]
<1>1. ServerTypes /\ Finite /\ RunsInv /\ ChainInv(chain)
  BY DEF ServerInv
<1>2. /\ chain' = NextEpochPayments(chain) /\ runs[g] = Idle /\ runs' = [runs EXCEPT ![g] = run]
      /\ rewards' = rewards /\ rewardDB' = rewardDB /\ failed' = failed /\ mempool' = mempool
      /\ owed' = owed
  BY DEF StartEpoch
<1>3. /\ ChainInv(chain') /\ chain'.paid = chain.paid
      /\ Earliest(chain') \in Nat /\ Earliest(chain) \in Nat /\ Earliest(chain) <= Earliest(chain')
  BY <1>1, <1>2, EpochForgets
<1>4. chain.now \in Nat /\ chain.paid \in [Sessions -> Nat]
  BY <1>1, ChainFields DEF ChainInv
<1>5. Grows
  BY <1>3, <1>4 DEF Grows
<1>6. run \in Run /\ run.batch = {} /\ run.earliest = 0
  <2>1. Idle \in Run /\ Idle.batch = {} /\ Idle.earliest = 0
    BY DEF Idle, Run
  <2>2. chain.now + 1 \in Nat
    BY <1>4
  <2> QED BY <2>1, <2>2 DEF Run
<1>7. runs[g].pc = "idle"
  BY <1>2 DEF Idle
<1> HIDE DEF run
<1>8. /\ runs' \in [Runners -> Run] /\ runs'[g] = run
      /\ \A h \in Runners : h # g => runs'[h] = runs[h]
  BY <1>1, <1>2, <1>6 DEF ServerTypes
<1>9. ServerTypes'
  BY <1>1, <1>2, <1>8 DEF ServerTypes
<1>10. ASSUME NEW h \in Runners PROVE IsFiniteSet(runs'[h].batch)
  BY <1>1, <1>6, <1>8, FS_EmptySet DEF Finite
<1>11. Finite'
  BY <1>1, <1>2, <1>10 DEF Finite
<1>12. runs[g].batch = {} /\ \A tx \in mempool : tx.by # Nobody => tx.by # g
  BY <1>7, NotWaiting
<1>13. RunsInv'
  <2>1. runs'[g].earliest <= Earliest(chain') /\ runs'[g].batch = {}
    BY <1>3, <1>6, <1>8
  <2> QED BY <1>2, <1>5, <1>8, <1>12, <2>1, OneRun
<1>14. NothingMislaid'
  <2>1. \A h \in Runners : runs'[h].batch = runs[h].batch
    BY <1>6, <1>8, <1>12
  <2>2. \A s : Held(s, rewards, failed, runs) => Held(s, rewards', failed', runs')
    BY <1>2, <2>1 DEF Held
  <2> QED BY <1>2, <1>5, <1>9, <2>2, StillInHand DEF ServerTypes
<1> QED BY <1>5, <1>9, <1>11, <1>13, <1>14 DEF ServerInv, Grows

LEMMA QueryFailsKeeps ==
    ASSUME ServerInv, NEW g \in Runners, QueryFails(g)
    PROVE  ServerInv'
<1>1. ServerTypes /\ Finite /\ RunsInv
  BY DEF ServerInv
<1>2. /\ runs[g].pc \in {"begun", "gather"} /\ runs' = [runs EXCEPT ![g] = Idle]
      /\ chain' = chain /\ rewards' = rewards /\ rewardDB' = rewardDB /\ failed' = failed
      /\ mempool' = mempool /\ owed' = owed
  BY DEF QueryFails
<1>3. Grows
  BY <1>2, Stays
<1>4. Idle \in Run /\ Idle.batch = {} /\ Idle.earliest = 0
  BY DEF Idle, Run
<1>5. /\ runs' \in [Runners -> Run] /\ runs'[g] = Idle
      /\ \A h \in Runners : h # g => runs'[h] = runs[h]
  BY <1>1, <1>2, <1>4 DEF ServerTypes
<1>6. ServerTypes'
  BY <1>1, <1>2, <1>5 DEF ServerTypes
<1>7. ASSUME NEW h \in Runners PROVE IsFiniteSet(runs'[h].batch)
  BY <1>1, <1>4, <1>5, FS_EmptySet DEF Finite
<1>8. Finite'
  BY <1>1, <1>2, <1>7 DEF Finite
<1>9. runs[g].batch = {} /\ \A tx \in mempool : tx.by # Nobody => tx.by # g
  BY <1>2, NotWaiting
<1>10. RunsInv'
  <2>1. runs'[g].earliest <= Earliest(chain') /\ runs'[g].batch = {}
    BY <1>3, <1>4, <1>5 DEF Grows
  <2> QED BY <1>2, <1>3, <1>5, <1>9, <2>1, OneRun
<1>11. NothingMislaid'
  <2>1. \A h \in Runners : runs'[h].batch = runs[h].batch
    BY <1>4, <1>5, <1>9
  <2>2. \A s : Held(s, rewards, failed, runs) => Held(s, rewards', failed', runs')
    BY <1>2, <2>1 DEF Held
  <2> QED BY <1>2, <1>3, <1>6, <2>2, StillInHand DEF ServerTypes
<1> QED BY <1>3, <1>6, <1>8, <1>10, <1>11 DEF ServerInv, Grows

\* The process starts again with the proofs of the database: what was not in it is lost
\* and no longer owed.
LEMMA RestartKeeps ==
    ASSUME ServerInv, Restart
    PROVE  ServerInv'
<1> DEFINE restored == {p \in rewardDB : p.sess.epoch >= Earliest(chain)}
<1>1. ServerTypes /\ Finite /\ RunsInv
  BY DEF ServerInv
<1>2. /\ rewards' = restored /\ rewardDB' = restored /\ failed' = {}
      /\ runs' = [g \in Runners |-> Idle] /\ mempool' = {[tx EXCEPT !.by = Nobody] : tx \in mempool}
      /\ owed' = owed \cap SessionsOf(restored) /\ chain' = chain
  BY DEF Restart
<1>3. Grows
  BY <1>2, Stays
<1>4. Idle \in Run /\ Idle.batch = {} /\ Idle.earliest = 0
  BY DEF Idle, Run
<1>5. restored \in SUBSET rewardDB
  OBVIOUS
<1> HIDE DEF restored
<1>6. restored \in SUBSET Relay /\ IsFiniteSet(restored)
  BY <1>1, <1>5, FS_Subset DEF ServerTypes, Finite
<1>7. ASSUME NEW tx \in mempool'
      PROVE  tx \in Transaction /\ tx.by = Nobody /\ IsFiniteSet(tx.batch)
  <2>1. PICK old \in mempool : tx = [old EXCEPT !.by = Nobody]
    BY <1>2
  <2>2. old \in Transaction /\ IsFiniteSet(old.batch)
    BY <1>1 DEF ServerTypes, Finite
  <2> QED BY <2>1, <2>2 DEF Transaction
<1>8. \A g \in Runners : runs'[g] = Idle
  BY <1>2
<1>9. ServerTypes'
  <2>1. runs' \in [Runners -> Run]
    BY <1>2, <1>4
  <2>2. owed' \in SUBSET Sessions
    BY <1>1, <1>2 DEF ServerTypes
  <2> QED BY <1>2, <1>6, <1>7, <2>1, <2>2 DEF ServerTypes
<1>10. Finite'
  <2>1. IsFiniteSet({})
    BY FS_EmptySet
  <2> QED BY <1>2, <1>4, <1>6, <1>7, <1>8, <2>1 DEF Finite
<1>11. RunsInv'
  <2>1. 0 <= Earliest(chain')
    BY <1>3 DEF Grows
  <2> QED BY <1>4, <1>7, <1>8, <2>1 DEF RunsInv
<1>12. NothingMislaid'
  <2>1. \A s \in owed' : Held(s, rewards', failed', runs')
    BY <1>2 DEF Held
  <2> QED BY <1>3, <1>9, <2>1, StillInHand DEF ServerTypes
<1> QED BY <1>3, <1>9, <1>10, <1>11, <1>12 DEF ServerInv, Grows

-----------------------------------------------------------------------------
LEMMA FirstServer == Init => ServerInv /\ serverID \in Nat
<1> SUFFICES ASSUME Init PROVE ServerInv /\ serverID \in Nat
  OBVIOUS
<1>1. /\ chain = InitPayments /\ rewards = {} /\ rewardDB = {} /\ failed = {}
      /\ runs = [g \in Runners |-> Idle] /\ mempool = {} /\ owed = {} /\ serverID = 1
  BY DEF Init
<1>2. Idle \in Run /\ Idle.batch = {} /\ Idle.earliest = 0
  BY DEF Idle, Run
<1>3. ChainInv(chain)
  BY <1>1, FirstChain
<1>4. Earliest(chain) \in Nat
  <2>1. chain.now \in Nat
    BY <1>3, ChainFields DEF ChainInv
  <2> QED BY <2>1, EarliestNat
<1>5. ServerTypes
  BY <1>1, <1>2 DEF ServerTypes
<1>6. Finite
  <2>1. IsFiniteSet({}) /\ \A g \in Runners : runs[g].batch = {}
    BY <1>1, <1>2, FS_EmptySet
  <2> QED BY <1>1, <2>1 DEF Finite
<1>7. RunsInv
  <2>1. 0 <= Earliest(chain)
    BY <1>4
  <2> QED BY <1>1, <1>2, <2>1 DEF RunsInv
<1>8. NothingMislaid
  BY <1>1 DEF NothingMislaid
<1> QED BY <1>1, <1>3, <1>5, <1>6, <1>7, <1>8 DEF ServerInv

LEMMA ServerStep == ServerInv /\ serverID \in Nat /\ [Next]_vars => ServerInv' /\ serverID' \in Nat
<1> SUFFICES ASSUME ServerInv, serverID \in Nat, [Next]_vars PROVE ServerInv' /\ serverID' \in Nat
  OBVIOUS
<1>1. CASE Serving
  <2>1. PICK s \in Sessions, cu \in Cus : SendNewProof(s, cu) \/ SendLateProof(s, cu)
    BY <1>1 DEF Serving
  <2>2. SaveProof(s, cu)
    BY <2>1 DEF SendNewProof, SendLateProof
  <2>3. serverID' = serverID
    BY <2>2 DEF SaveProof
  <2> QED BY <2>2, <2>3, SaveProofKeeps
<1>2. CASE SaveRewardsSnapshotToDB
  <2>1. serverID' = serverID
    BY <1>2 DEF SaveRewardsSnapshotToDB
  <2> QED BY <1>2, <2>1, SnapshotKeeps
<1>3. ASSUME NEW g \in Runners, ClaimStep(g) \/ NextEpoch(g) \/ SlowClaim(g) \/ QueryFails(g) \/ SendFails(g)
      PROVE  ServerInv' /\ serverID' \in Nat
  <2>1. CASE GatherFailed(g)
    BY <2>1, GatherFailedKeeps DEF GatherFailed
  <2>2. CASE GatherRewards(g)
    BY <2>2, GatherRewardsKeeps DEF GatherRewards
  <2>3. CASE Broadcast(g)
    BY <2>3, BroadcastKeeps DEF Broadcast
  <2>4. CASE SimulationFails(g) \/ SendFails(g)
    BY <2>4, RefusalKeeps DEF SimulationFails, SendFails
  <2>5. CASE NextEpoch(g) \/ SlowClaim(g)
    <3>1. StartEpoch(g)
      BY <2>5 DEF NextEpoch, SlowClaim
    <3>2. serverID' = serverID
      BY <3>1 DEF StartEpoch
    <3> QED BY <3>1, <3>2, StartEpochKeeps
  <2>6. CASE QueryFails(g)
    BY <2>6, QueryFailsKeeps DEF QueryFails
  <2> QED BY <1>3, <2>1, <2>2, <2>3, <2>4, <2>5, <2>6 DEF ClaimStep
<1>4. ASSUME NEW tx \in mempool, Include(tx) \/ CommitTimeout(tx) \/ LoseTransaction(tx)
      PROVE  ServerInv' /\ serverID' \in Nat
  <2>1. ServerInv'
    BY <1>4, IncludeKeeps, CommitTimeoutKeeps, LoseTransactionKeeps
  <2>2. serverID' = serverID
    BY <1>4 DEF Include, CommitTimeout, LoseTransaction
  <2> QED BY <2>1, <2>2
<1>5. ASSUME NEW s \in events, PaymentHandler(s) \/ LoseEvent(s)
      PROVE  ServerInv' /\ serverID' \in Nat
  <2>1. ServerInv'
    BY <1>5, EventKeeps
  <2>2. serverID' = serverID
    BY <1>5 DEF PaymentHandler, LoseEvent
  <2> QED BY <2>1, <2>2
<1>6. CASE Restart
  <2>1. serverID' = serverID + 1
    BY <1>6 DEF Restart
  <2> QED BY <1>6, <2>1, RestartKeeps
<1>7. CASE UNCHANGED vars
  <2>1. UNCHANGED <<chain, rewards, rewardDB, failed, runs, mempool, owed, serverID>>
    BY <1>7 DEF vars
  <2>2. rewardDB' \in SUBSET Relay /\ IsFiniteSet(rewardDB') /\ mempool' \in SUBSET mempool
    BY <2>1 DEF ServerInv, ServerTypes, Finite
  <2> QED BY <2>1, <2>2, DatabaseKeeps
<1> QED BY <1>1, <1>2, <1>3, <1>4, <1>5, <1>6, <1>7 DEF Next

LEMMA ServerInvariant == Spec => []ServerInv
<1> DEFINE Numbered == serverID \in Nat
<1>1. Init => ServerInv /\ Numbered
  BY FirstServer
<1>2. ServerInv /\ Numbered /\ [Next]_vars => ServerInv' /\ Numbered'
  BY ServerStep
<1> HIDE DEF Numbered
<1> QED BY <1>1, <1>2, PTL DEF Spec

\* No session is paid twice, for any sessions, goroutines, faults and orders of the relays
\* in a claim: a payment is recorded until its epoch is forgotten, and only those that
\* were paid without a record are excepted.
THEOREM SessionsPaidOnce == Spec => []PaidOnce
<1>1. ServerInv => PaidOnce
  BY DEF ServerInv, ChainInv, PaidOnce
<1> QED BY <1>1, ServerInvariant, PTL

\* A payment is credited with no more than what was served, and a badge with no more than
\* its allocation, for any limits: the consumer's payments of an epoch were all charged to
\* its project, and a valid badge's used CU cover what was paid for it.
THEOREM CreditsWithinLimits == Spec => []CreditWithinLimits
<1>1. ServerInv => CreditWithinLimits
  BY DEF ServerInv, ChainInv, CreditWithinLimits
<1> QED BY <1>1, ServerInvariant, PTL

\* A proof that survived is in memory, in a batch or waits to be retried until its session
\* is paid or its epoch is forgotten, for any number of overlapping goroutines.
THEOREM ProofsNotMislaid == Spec => []NothingMislaid
<1>1. ServerInv => NothingMislaid
  BY DEF ServerInv
<1> QED BY <1>1, ServerInvariant, PTL
=============================================================================
