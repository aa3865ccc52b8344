----------------------------- MODULE CuTracker -----------------------------
(***************************************************************************)
(* The CU tracker of x/subscription: relay payments of x/pairing add the   *)
(* CU a provider served to the month of the subscription that was in       *)
(* effect in the relay's epoch, and when the month's timer fires the       *)
(* month's credit is shared among the providers by their CU.  This fixes   *)
(* what Subscription leaves open: how much of the credit is rewarded.      *)
(*                                                                         *)
(* A claim is a relay payment with one relay of a new session, for a valid *)
(* pairing.  Only the amount after QoS matters.  In a behaviour of the     *)
(* kind "zero_boost" the parameter MaxRewardBoost is zero.                 *)
(***************************************************************************)
EXTENDS Subscription

CONSTANTS
    Providers,
    CuAmounts,      \* CU of a claim
    TokenLimit,     \* LIMIT_TOKEN_PER_CU
    Lateness,       \* how many blocks before this epoch a claimed epoch may start
    MaxClaims       \* bound: claims in a behaviour

\* A claim reaches back at most as far as the chain remembers.
ASSUME LatenessAssumption == \A k \in Lateness : k \in 0..StaleBlocks /\ k % EpochBlocks = 0
ASSUME CuAssumption == CuAmounts \subseteq Nat /\ TokenLimit \in Nat
ASSUME ProvidersAssumption == IsFiniteSet(Providers)

VARIABLES
    tracked,    \* [Consumers -> [Providers -> store]]: cuTrackerFS, by key
    claimed,    \* history: CU accepted for a subscription version and not yet paid
    disordered, \* history: pairs with a claim for a version before one that was claimed already
    claims      \* claims so far

cuVars == <<tracked, claimed, disordered, claims>>
allVars == <<vars, cuVars>>

-----------------------------------------------------------------------------
Stopped == \E c \in Consumers, v \in Providers : tracked[c][v].panic

\* AddTrackedCu to the entry of version b, created when it is the first CU.
AddSucceeds(s, b) == Find(s, b) # b => AppendSucceeds(s, b)
AddTrackedCu(s, b, cu) ==
    IF Find(s, b) = b THEN ModifyEntry(s, b, s.entries[b].data + cu) ELSE AppendEntry(s, b, cu)

\* resetCuTracker deletes the index, unless a newer month is tracked already.
ResetSucceeds(s, b) == s.entries[b].latest => DelSucceeds(s, ctx)
ResetAlways(s, b) == DelEntry(s, ctx)
ResetCuTracker(s, b) == IF s.entries[b].latest THEN DelEntry(s, ctx) ELSE s

\* GetSubTrackedCuInfo: the live trackers that have an entry of version b.
TrackedProviders(c, b) ==
    {v \in Providers : tracked[c][v].index = "live" /\ Find(tracked[c][v], b) = b}
TrackedCu(c, v, b) == tracked[c][v].entries[b].data
TotalCu(c, b) ==
    SumFunctionOnSet([v \in TrackedProviders(c, b) |-> TrackedCu(c, v, b)], TrackedProviders(c, b))

\* The credit is shared up to a limit per CU, each share rounded down.
TotalTokens(credit, totalCu) ==
    IF credit \div totalCu > TokenLimit THEN TokenLimit * totalCu ELSE credit
EveryoneAll(t, v) == TotalTokens(t.credit, TotalCu(t.consumer, t.block))
MonthlyReward(t, v) ==
    LET totalCu == TotalCu(t.consumer, t.block)
    IN  (TotalTokens(t.credit, totalCu) * TrackedCu(t.consumer, v, t.block)) \div totalCu

\* The providers whose trackers can be reset, and what some of them are rewarded.
Paid(t) ==
    {v \in TrackedProviders(t.consumer, t.block) : ResetSucceeds(tracked[t.consumer][v], t.block)}
Rewarded(t, paid) ==
    IF TotalCu(t.consumer, t.block) = 0 THEN 0
    ELSE SumFunctionOnSet([v \in paid |-> MonthlyReward(t, v)], paid)

-----------------------------------------------------------------------------
CuInit ==
    /\ Init
    /\ tracked = [c \in Consumers |-> [v \in Providers |-> EmptyStore]]
    /\ claimed = [c \in Consumers |-> [v \in Providers |-> [b \in Blocks |-> 0]]]
    /\ disordered = {}
    /\ claims = 0

\* RelayPayment for an epoch, while the project and the subscription of that
\* epoch can be found; the tracked CU belongs to the version found.
Claim(c, v, epoch, cu) ==
    LET b == SubBlock(chain, c, epoch)
        new == AddTrackedCu(tracked[c][v], b, cu)
    IN  /\ phase = "txs" /\ claims < MaxClaims /\ ~Stopped
        /\ Find(chain.admin[c], epoch) # NoBlock /\ b # NoBlock
        /\ AddSucceeds(tracked[c][v], b) /\ ~new.panic
        /\ tracked' = [tracked EXCEPT ![c][v] = new]
        /\ claimed' = [claimed EXCEPT ![c][v][b] = @ + cu]
        /\ disordered' = IF \E x \in Blocks : x > b /\ claimed[c][v][x] > 0
                         THEN disordered \cup {<<c, v>>} ELSE disordered
        /\ claims' = claims + 1
        /\ UNCHANGED vars

\* The trackers of the providers in done are reset, and their claims are settled.
Settle(t, done) ==
    LET c == t.consumer
    IN  /\ tracked' = [tracked EXCEPT ![c] = [v \in Providers |->
                         IF v \in done THEN ResetCuTracker(@[v], t.block) ELSE @[v]]]
        /\ claimed' = [claimed EXCEPT ![c] = [v \in Providers |->
                         IF v \in done THEN [@[v] EXCEPT ![t.block] = 0] ELSE @[v]]]

\* RewardAndResetCuTracker.  A provider that is no longer staked, or whose reward
\* cannot be sent, is counted as rewarded.
PayProviders(t, sent) ==
    LET paid == IF TotalCu(t.consumer, t.block) = 0 THEN {} ELSE Paid(t)
    IN  /\ ~Stopped
        /\ PayCuTracker(t, Rewarded(t, paid), sent)
        /\ Settle(t, paid)
        /\ UNCHANGED <<disordered, claims>>

\* Without a reward boost the payout is given up at the first provider that has no
\* adjustment, once its tracker is reset: those in done before it were rewarded,
\* the rest of the credit is neither sent nor returned.
GiveUpPayout(t, done, sent) ==
    /\ ~Stopped
    /\ "zero_boost" \in kinds
    /\ TotalCu(t.consumer, t.block) # 0
    /\ PayCuTracker(t, t.credit, sent)
    /\ Settle(t, done)
    /\ UNCHANGED <<disordered, claims>>

\* The tracker's store ticks after the others, before the month timers.
TrackersDue == \E c \in Consumers, v \in Providers : Due(tracked[c][v]) # {}
TickTrackers(c, v, t) ==
    /\ phase = "begin" /\ ~Panicked(chain) /\ ~Stopped
    /\ ~PlansDue /\ ~AdminsDue /\ ~SubsDue /\ t \in FirstDue(tracked[c][v])
    /\ tracked' = [tracked EXCEPT ![c][v] = Fire(@, t)]
    /\ UNCHANGED <<vars, claimed, disordered, claims>>

\* The other steps leave the tracker alone; a panic stops them all.
Elsewhere == ~Stopped /\ UNCHANGED cuVars

CuNext ==
    \/ Transaction /\ Elsewhere
    \/ \E c \in Consumers, v \in Providers, k \in Lateness, cu \in CuAmounts :
         EpochStart > k /\ Claim(c, v, EpochStart - k, cu)
    \/ \E t \in CuTimersDue : \E sent \in 0..Rewarded(t, Paid(t)) : PayProviders(t, sent)
    \/ \E t \in CuTimersDue : \E done \in SUBSET Paid(t) : \E last \in done :
         \E sent \in 0..Rewarded(t, done \ {last}) : GiveUpPayout(t, done, sent)
    \/ \E c \in Consumers, v \in Providers : \E t \in Due(tracked[c][v]) : TickTrackers(c, v, t)
    \/ BlockStep /\ (phase = "begin" /\ phase' = "months" => ~TrackersDue) /\ Elsewhere

CuSpec == CuInit /\ [][CuNext]_allVars

-----------------------------------------------------------------------------
\* The tracker implements the open payout of Subscription: what it rewards
\* never exceeds the month's credit, and nothing else changes.
ImplementsSubscription == Spec

\* A claim of c's version b that provider v made will be paid: its CU are in a live
\* tracker, under that version, which is still owned (its month's end will schedule
\* the payout) or has its payout pending.
WillBePaid(c, v, b) ==
    /\ v \in TrackedProviders(c, b)
    /\ TrackedCu(c, v, b) = claimed[c][v][b]
    /\ \/ SubBlock(chain, c, NextEpoch) = b
       \/ \E t \in chain.cuTimers : t.consumer = c /\ t.block = b

\* Four kinds of behaviour lose claims by themselves.  The payout of an upgraded
\* subscription is timed from the block of the upgrade, so that the last claims of the
\* old version come after it; an automatic renewal in the first block of an epoch lets
\* the old month's entry become stale before its payout; a consumer who deletes the
\* admin project may buy a subscription that is deleted with the old one; and without
\* a reward boost a payout is given up.
Claimed ==
    IF phase # "txs" \/ {"upgrade", "auto_renewal", "del_project", "zero_boost"} \cap kinds # {}
    THEN {}
    ELSE {x \in Consumers \X Providers \X Blocks : claimed[x[1]][x[2]][x[3]] > 0}

\* Claims of a provider that come in the order of the months are paid, whatever is
\* claimed late, by others or for the month before; and no payout reaches a
\* consistency panic of the store.
OrderedClaimsWillBePaid ==
    /\ ~Stopped
    /\ \A x \in Claimed : <<x[1], x[2]>> \notin disordered => WillBePaid(x[1], x[2], x[3])

\* "In this time, a provider can still request payment for the previous month": every
\* claim that is accepted is paid.
ClaimsWillBePaid == \A x \in Claimed : WillBePaid(x[1], x[2], x[3])
=============================================================================
