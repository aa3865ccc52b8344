---------------------------- MODULE Subscription ----------------------------
(***************************************************************************)
(* x/subscription and x/plans on top of three fixation stores: the plans,  *)
(* the subscriptions and the admin projects, with the month timers (begin  *)
(* of a block) and the CU tracker timers (end of a block).                 *)
(*                                                                         *)
(* The chain's state is one record: a handler is an operator from the      *)
(* record to the record it leaves, or to a record with panic set.  A       *)
(* transaction that fails or panics leaves the record as it was; a panic   *)
(* in a timer callback stops the chain.  Block time is counted in blocks   *)
(* and a month has MonthBlocks of them.  The creator of a subscription is  *)
(* its consumer; plans have no buyers' list and one price per index.       *)
(***************************************************************************)
EXTENDS Fixation

CONSTANTS
    Consumers,
    PlanIndices,
    Price,              \* [PlanIndices -> Nat]: price of one month
    Durations,          \* months a buyer may ask for
    EpochBlocks,
    MonthBlocks,
    MaxDuration,        \* MAX_SUBSCRIPTION_DURATION
    DiscountMonths,     \* utils.MONTHS_IN_YEAR
    DiscountPercent,    \* AnnualDiscountPercentage
    Scenarios,          \* sets of kinds of transactions; a behaviour has the kinds of one
    MaxTxs              \* bound: transactions in a behaviour

ASSUME PriceAssumption == Price \in [PlanIndices -> Nat]
ASSUME EpochAssumption == EpochBlocks \in 1..MaxBlock /\ StaleBlocks % EpochBlocks = 0
\* A month is longer than what the chain remembers and an epoch together.
ASSUME MonthAssumption == MonthBlocks \in Nat /\ MonthBlocks > StaleBlocks + EpochBlocks
ASSUME DurationAssumption == MaxDuration \in Nat /\ Durations \subseteq 1..MaxDuration
\* Plan.ValidatePlan.
ASSUME DiscountAssumption == DiscountMonths \in Nat /\ DiscountPercent \in 0..100
ASSUME ConsumersAssumption == IsFiniteSet(Consumers)

VARIABLES
    chain,  \* the stores, the timers and the module's account
    phase,  \* "begin", "months", "txs" while transactions run, then "end"
    txs,    \* transactions so far
    kinds   \* the kinds of transactions of this behaviour

vars == <<ctx, chain, phase, txs, kinds>>

None == "none"      \* AUTO_RENEWAL_PLAN_NONE; also: no future subscription

EpochStart == ctx - (ctx % EpochBlocks)
NextEpoch  == EpochStart + EpochBlocks
NextMonth  == ctx + MonthBlocks

NoFuture == [plan |-> None, planBlock |-> NoBlock, bought |-> 0, credit |-> 0]

Fail(st) == [st EXCEPT !.panic = TRUE]
Panicked(st) ==
    \/ st.panic
    \/ \E p \in PlanIndices : st.plans[p].panic
    \/ \E c \in Consumers : st.subs[c].panic \/ st.admin[c].panic

-----------------------------------------------------------------------------
(* Plans (x/plans/keeper/plan.go) and lookups. *)

FindPlan(st, p, block) == Find(st.plans[p], block)
GetPlanWithoutRef(st, p) == st
GetPlan(st, p)         == [st EXCEPT !.plans[p] = GetEntry(@)]
PutPlan(st, p, block)  == [st EXCEPT !.plans[p] = PutReference(@, block)]

\* The block of the version of c's subscription found for a block, and a version's data.
SubBlock(st, c, block) == Find(st.subs[c], block)
SubData(st, c, block)  == st.subs[c].entries[block].data

ModifySub(st, c, sub) == [st EXCEPT !.subs[c] = ModifyEntry(@, sub.block, sub)]

DiscountedPrice(p, duration) ==
    IF duration >= DiscountMonths
    THEN (Price[p] * duration * (100 - DiscountPercent)) \div 100
    ELSE Price[p] * duration

-----------------------------------------------------------------------------
(* The admin project (x/projects): created at the start of the epoch,      *)
(* deleted at the next, and appended again by every snapshot.              *)

CreateProjectSucceeds(st, c) ==
    Find(st.admin[c], EpochStart) = NoBlock /\ AppendSucceeds(st.admin[c], EpochStart)
CreateAdminProject(st, c) == [st EXCEPT !.admin[c] = AppendEntry(@, EpochStart, "project")]

SnapshotProjects(st, c, block) ==
    IF st.admin[c].index = "live" /\ Find(st.admin[c], block) # NoBlock
    THEN [st EXCEPT !.admin[c] = AppendEntry(@, block, "project")]
    ELSE st

DeleteProject(st, c) ==
    IF Find(st.admin[c], NextEpoch) # NoBlock
    THEN [st EXCEPT !.admin[c] = DelEntry(@, NextEpoch)]
    ELSE st

DelAllProjects(st, c) == IF st.admin[c].index = "live" THEN DeleteProject(st, c) ELSE st

-----------------------------------------------------------------------------
(* Pieces of the handlers (subscription.go). *)

\* The month's share of the credit waits for the CU tracker: a timer with the
\* same block and consumer is replaced.
AddCuTimer(st, t) ==
    [st EXCEPT !.cuTimers = {u \in @ : u.at # t.at \/ u.consumer # t.consumer} \cup {t}]
CreditReward(sub) == sub.credit \div sub.left
AddCuTrackerTimer(st, c, block, sub) ==
    AddCuTimer(st, [at |-> block + StaleBlocks - 1, consumer |-> c,
                    block |-> sub.block, credit |-> CreditReward(sub)])
KeepingCredit(sub) == sub
MinusReward(sub) == [sub EXCEPT !.credit = @ - CreditReward(sub)]

\* The next month's timer replaces the old one only when asked to.
RestartKeepingTimer(st, c, sub, deleteOldTimer) ==
    [st EXCEPT !.months = @ \cup {[at |-> NextMonth, consumer |-> c]}]
RestartTimer(st, c, sub, deleteOldTimer) ==
    LET old == [at |-> sub.expiry, consumer |-> c]
    IN  [st EXCEPT !.months = (IF deleteOldTimer THEN @ \ {old} ELSE @)
                              \cup {[at |-> NextMonth, consumer |-> c]}]

ResetAndAppend(st, c, sub, block, deleteOldTimer) ==
    LET new == [sub EXCEPT !.block = block, !.expiry = NextMonth]
        timed == RestartTimer(st, c, sub, deleteOldTimer)
        appended == [timed EXCEPT !.subs[c] = AppendEntry(@, block, new)]
    IN  IF ~AppendSucceeds(st.subs[c], block) THEN timed
        ELSE SnapshotProjects(appended, c, block)

ExpireKeepingProjects(st, c, planIndex, planBlock) ==
    PutPlan([st EXCEPT !.subs[c] = DelEntry(@, NextEpoch)], planIndex, planBlock)
RemoveExpired(st, c, planIndex, planBlock) ==
    LET cleared == DelAllProjects(st, c)
        deleted == [cleared EXCEPT !.subs[c] = DelEntry(@, NextEpoch)]
    IN  IF DelSucceeds(cleared.subs[c], NextEpoch) THEN PutPlan(deleted, planIndex, planBlock)
        ELSE cleared

-----------------------------------------------------------------------------
(* Transactions: the guard and the record a handler leaves. *)

\* createNewSubscription, then the last part of CreateSubscription.
NewSubscription(st, c, p, duration, autoRenewal) ==
    LET price == DiscountedPrice(p, duration)
        sub == [block |-> ctx, plan |-> p, planBlock |-> FindPlan(st, p, ctx),
                left |-> duration, expiry |-> NextMonth, credit |-> price,
                renew |-> IF autoRenewal THEN p ELSE None, future |-> NoFuture]
        paid == [GetPlan(CreateAdminProject(st, c), p) EXCEPT !.balance = @ + price]
    IN  [paid EXCEPT !.subs[c] = AppendEntry(@, ctx, sub),
                     !.months = @ \cup {[at |-> NextMonth, consumer |-> c]}]

CreateSucceeds(st, c, p) ==
    /\ FindPlan(st, p, ctx) # NoBlock
    /\ SubBlock(st, c, NextEpoch) = NoBlock
    /\ CreateProjectSucceeds(st, c)
    /\ AppendSucceeds(st.subs[c], ctx)

\* CreateSubscription of the plan the consumer has: more months.
ExtendSucceeds(st, c, p, duration) ==
    /\ FindPlan(st, p, ctx) # NoBlock
    /\ SubBlock(st, c, NextEpoch) # NoBlock
    /\ LET sub == SubData(st, c, SubBlock(st, c, NextEpoch))
       IN  /\ sub.plan = p
           /\ sub.planBlock = FindPlan(st, p, ctx)
           /\ sub.left + duration <= MaxDuration + 1

Extended(st, c, p, duration) ==
    LET price == DiscountedPrice(p, duration)
        sub == SubData(st, c, SubBlock(st, c, NextEpoch))
    IN  [ModifySub(GetPlan(st, p), c,
                   [sub EXCEPT !.left = @ + duration, !.credit = @ + price])
           EXCEPT !.balance = @ + price]

\* CreateSubscription of another plan: upgradeSubscriptionPlan.
UpgradeSucceeds(st, c, p) ==
    /\ FindPlan(st, p, ctx) # NoBlock
    /\ SubBlock(st, c, NextEpoch) # NoBlock
    /\ LET sub == SubData(st, c, SubBlock(st, c, NextEpoch))
       IN  /\ sub.plan # p
           /\ sub.block # NextEpoch
           /\ FindPlan(st, sub.plan, sub.planBlock) # NoBlock
           /\ Price[p] >= Price[sub.plan]
           /\ sub.left > 0
           /\ AppendSucceeds(st.subs[c], NextEpoch)

Upgraded(st, c, p, duration) ==
    LET price == DiscountedPrice(p, duration)
        old   == SubData(st, c, SubBlock(st, c, NextEpoch))
        sub   == [old EXCEPT !.left = 0, !.credit = 0,
                             !.plan = p, !.planBlock = FindPlan(st, p, ctx)]
        reset == ResetAndAppend(AddCuTrackerTimer(GetPlan(st, p), c, ctx, old),
                                c, sub, NextEpoch, TRUE)
        new   == [SubData(reset, c, NextEpoch) EXCEPT !.left = duration, !.credit = price]
    IN  [ModifySub(reset, c, new) EXCEPT !.balance = @ + price]

\* CreateFutureSubscription: the first, or a replacement that costs more.
AdvanceSucceeds(st, c, p, duration) ==
    /\ FindPlan(st, p, ctx) # NoBlock
    /\ SubBlock(st, c, NextEpoch) # NoBlock
    /\ LET future == SubData(st, c, SubBlock(st, c, NextEpoch)).future
       IN  future # NoFuture =>
             /\ FindPlan(st, future.plan, future.planBlock) # NoBlock
             /\ DiscountedPrice(p, duration) > future.credit

Advanced(st, c, p, duration) ==
    LET sub == SubData(st, c, SubBlock(st, c, NextEpoch))
        future == [plan |-> p, planBlock |-> FindPlan(st, p, ctx),
                   bought |-> duration, credit |-> DiscountedPrice(p, duration)]
    IN  [ModifySub(GetPlan(st, p), c, [sub EXCEPT !.future = future])
           EXCEPT !.balance = @ + future.credit - sub.future.credit]

\* AutoRenewal: p, or None to disable.
RenewalSucceeds(st, c, p) ==
    /\ SubBlock(st, c, ctx) # NoBlock
    /\ IF p = None THEN SubData(st, c, SubBlock(st, c, ctx)).renew # None
       ELSE FindPlan(st, p, ctx) # NoBlock
RenewalSet(st, c, p) ==
    LET sub == SubData(st, c, SubBlock(st, c, ctx))
    IN  [st EXCEPT !.subs[c] = AppendEntry(@, sub.block, [sub EXCEPT !.renew = p])]

-----------------------------------------------------------------------------
(* advanceMonth: the month timer of consumer c fires.  funded says whether *)
(* the creator's account covers the price of an automatic renewal.         *)

\* renewSubscription: the plan is set before the funds are looked at.
RenewedPlan(st, sub) ==
    LET b == FindPlan(st, sub.renew, ctx)
    IN  IF b = NoBlock THEN sub ELSE [sub EXCEPT !.plan = sub.renew, !.planBlock = b]

RenewOrRemove(st, c, sub, funded) ==
    LET zero == ModifySub(st, c, [sub EXCEPT !.left = 0])
        new  == [RenewedPlan(st, sub) EXCEPT !.left = 1, !.credit = @ + Price[sub.renew]]
        paid == [zero EXCEPT !.balance = @ + Price[sub.renew]]
        renewed == ResetAndAppend(paid, c, new, ctx, FALSE)
    IN  IF FindPlan(st, sub.renew, ctx) = NoBlock \/ ~funded
        THEN RemoveExpired(zero, c, new.plan, new.planBlock)
        ELSE IF ~AppendSucceeds(paid.subs[c], ctx)
        THEN RemoveExpired(renewed, c, new.plan, new.planBlock)
        ELSE renewed

ActivateFuture(st, c, sub) ==
    LET f == sub.future
        new == [sub EXCEPT !.plan = f.plan, !.planBlock = f.planBlock, !.left = f.bought,
                           !.credit = f.credit, !.future = NoFuture]
    IN  IF FindPlan(st, f.plan, f.planBlock) = NoBlock
        THEN RemoveExpired(st, c, sub.plan, sub.planBlock)
        ELSE ResetAndAppend(st, c, new, NextEpoch, FALSE)

AdvanceMonth(st, c, funded) ==
    LET block == SubBlock(st, c, NextEpoch)
        old == SubData(st, c, block)
        tracked == AddCuTrackerTimer(st, c, NextEpoch, old)
        sub == [MinusReward(old) EXCEPT !.left = @ - 1]
    IN  IF block = NoBlock THEN st
        ELSE IF old.left = 0 THEN Fail(st)      \* QuoRaw(0)
        ELSE IF sub.left > 0 THEN ResetAndAppend(tracked, c, sub, NextEpoch, FALSE)
        ELSE IF sub.future # NoFuture THEN ActivateFuture(tracked, c, sub)
        ELSE IF sub.renew # None THEN RenewOrRemove(tracked, c, sub, funded)
        ELSE RemoveExpired(tracked, c, sub.plan, sub.planBlock)

-----------------------------------------------------------------------------
(* The CU tracker pays out: rewarded of t.credit is the providers', the    *)
(* rest returns to the subscription in effect, or to the validators when   *)
(* there is none (returnCreditToSub).  What is rewarded is decided by the  *)
(* tracked CU (see CuTracker); here it is any part of the credit.  Of it   *)
(* only sent leaves the account: the reward of a provider that is no       *)
(* longer staked is counted and stays, and so does all that is left of the *)
(* credit when the payout is given up half-way (rewarded is t.credit).     *)

ReturnCredit(st, c, amount) ==
    LET b == SubBlock(st, c, ctx)
    IN  IF b = NoBlock THEN [st EXCEPT !.balance = @ - amount]
        ELSE [st EXCEPT !.subs[c] = ModifyEntry(@, b,
                 [SubData(st, c, b) EXCEPT !.credit = @ + amount])]

Send(st, t, rewarded, sent) ==
    [st EXCEPT !.cuTimers = @ \ {t}, !.balance = @ - sent, !.unsent = @ + (rewarded - sent)]
PayoutTwice(st, t, rewarded, sent) ==
    ReturnCredit(Send(st, t, rewarded, sent), t.consumer, t.credit)
Payout(st, t, rewarded, sent) ==
    ReturnCredit(Send(st, t, rewarded, sent), t.consumer, t.credit - rewarded)

-----------------------------------------------------------------------------
\* The plans were added by one proposal in the first block.
InitChain ==
    [plans    |-> [p \in PlanIndices |-> AppendEntry(EmptyStore, EpochBlocks, "plan")],
     subs     |-> [c \in Consumers |-> EmptyStore],
     admin    |-> [c \in Consumers |-> EmptyStore],
     months   |-> {},
     cuTimers |-> {},
     balance  |-> 0,
     unsent   |-> 0,      \* history: rewards that payouts counted and left in the account
     panic    |-> FALSE]

Init ==
    /\ ctx = EpochBlocks
    /\ chain = InitChain
    /\ phase = "txs"
    /\ txs = 0
    /\ kinds \in Scenarios

\* A transaction of some kind whose handler succeeds and does not panic.
Deliver(kind, succeeds, new) ==
    /\ kind \in kinds
    /\ phase = "txs" /\ ~Panicked(chain)
    /\ txs < MaxTxs
    /\ succeeds
    /\ ~Panicked(new)
    /\ chain' = new
    /\ txs' = txs + 1
    /\ UNCHANGED <<ctx, phase, kinds>>

AddPlan(p) ==
    Deliver("add_plan", AppendSucceeds(chain.plans[p], ctx),
            [chain EXCEPT !.plans[p] = AppendEntry(@, ctx, "plan")])
DelPlan(p) ==
    Deliver("del_plan", DelSucceeds(chain.plans[p], NextEpoch),
            [chain EXCEPT !.plans[p] = DelEntry(@, NextEpoch)])
Buy(c, p, duration, autoRenewal) ==
    Deliver("buy", CreateSucceeds(chain, c, p), NewSubscription(chain, c, p, duration, autoRenewal))
Extend(c, p, duration) ==
    Deliver("extend", ExtendSucceeds(chain, c, p, duration), Extended(chain, c, p, duration))
Upgrade(c, p, duration) ==
    Deliver("upgrade", UpgradeSucceeds(chain, c, p), Upgraded(chain, c, p, duration))
BuyAdvance(c, p, duration) ==
    Deliver("advance", AdvanceSucceeds(chain, c, p, duration), Advanced(chain, c, p, duration))
AutoRenewal(c, p) ==
    Deliver("auto_renewal", RenewalSucceeds(chain, c, p), RenewalSet(chain, c, p))
DelProject(c) ==
    Deliver("del_project",
            SubBlock(chain, c, ctx) # NoBlock /\ Find(chain.admin[c], NextEpoch) # NoBlock,
            DeleteProject(chain, c))

\* A CU tracker timer that is due at the end of this block.
CuTimersDue == {t \in chain.cuTimers : t.at <= ctx}

TxsDone ==
    /\ phase = "txs" /\ ~Panicked(chain)
    /\ phase' = "end"
    /\ UNCHANGED <<ctx, chain, txs, kinds>>

PayCuTracker(t, rewarded, sent) ==
    /\ phase = "end" /\ ~Panicked(chain)
    /\ t \in CuTimersDue
    /\ chain' = Payout(chain, t, rewarded, sent)
    /\ UNCHANGED <<ctx, phase, txs, kinds>>

\* The block ends when no CU tracker timer is due, and the next one begins: the
\* stores' timers fire first, then the month timers, one at a time.
EndBlock ==
    /\ phase = "end" /\ ~Panicked(chain)
    /\ CuTimersDue = {}
    /\ ctx < MaxBlock
    /\ ctx' = ctx + 1
    /\ phase' = "begin"
    /\ UNCHANGED <<chain, txs, kinds>>

PlansDue == \E p \in PlanIndices : Due(chain.plans[p]) # {}
AdminsDue == \E c \in Consumers : Due(chain.admin[c]) # {}
SubsDue == \E c \in Consumers : Due(chain.subs[c]) # {}

TickPlans(p, t) ==
    /\ phase = "begin" /\ ~Panicked(chain)
    /\ t \in FirstDue(chain.plans[p])
    /\ chain' = [chain EXCEPT !.plans[p] = Fire(@, t)]
    /\ UNCHANGED <<ctx, phase, txs, kinds>>
TickAdmins(c, t) ==
    /\ phase = "begin" /\ ~Panicked(chain)
    /\ ~PlansDue /\ t \in FirstDue(chain.admin[c])
    /\ chain' = [chain EXCEPT !.admin[c] = Fire(@, t)]
    /\ UNCHANGED <<ctx, phase, txs, kinds>>
TickSubs(c, t) ==
    /\ phase = "begin" /\ ~Panicked(chain)
    /\ ~PlansDue /\ ~AdminsDue /\ t \in FirstDue(chain.subs[c])
    /\ chain' = [chain EXCEPT !.subs[c] = Fire(@, t)]
    /\ UNCHANGED <<ctx, phase, txs, kinds>>

StoresTicked ==
    /\ phase = "begin" /\ ~Panicked(chain)
    /\ ~PlansDue /\ ~AdminsDue /\ ~SubsDue
    /\ phase' = "months"
    /\ UNCHANGED <<ctx, chain, txs, kinds>>

MonthsDue == {m \in chain.months : m.at <= ctx}

MonthExpires(m, funded) ==
    /\ phase = "months" /\ ~Panicked(chain)
    /\ m \in MonthsDue
    /\ chain' = AdvanceMonth([chain EXCEPT !.months = @ \ {m}], m.consumer, funded)
    /\ UNCHANGED <<ctx, phase, txs, kinds>>

BlockBegun ==
    /\ phase = "months" /\ ~Panicked(chain)
    /\ MonthsDue = {}
    /\ phase' = "txs"
    /\ UNCHANGED <<ctx, chain, txs, kinds>>

Transaction ==
    \/ \E p \in PlanIndices : AddPlan(p) \/ DelPlan(p)
    \/ \E c \in Consumers, p \in PlanIndices, d \in Durations :
         \/ \E a \in BOOLEAN : Buy(c, p, d, a /\ "auto_renewal" \in kinds)
         \/ Extend(c, p, d) \/ Upgrade(c, p, d) \/ BuyAdvance(c, p, d)
    \/ \E c \in Consumers, p \in PlanIndices \cup {None} : AutoRenewal(c, p)
    \/ \E c \in Consumers : DelProject(c)

BlockStep ==
    \/ TxsDone \/ EndBlock \/ StoresTicked \/ BlockBegun
    \/ \E p \in PlanIndices : \E t \in Due(chain.plans[p]) : TickPlans(p, t)
    \/ \E c \in Consumers : \E t \in Due(chain.admin[c]) : TickAdmins(c, t)
    \/ \E c \in Consumers : \E t \in Due(chain.subs[c]) : TickSubs(c, t)
    \/ \E m \in MonthsDue, funded \in BOOLEAN : MonthExpires(m, funded)

Next ==
    \/ Transaction
    \/ BlockStep
    \/ \E t \in CuTimersDue : \E rewarded \in 0..t.credit : \E sent \in 0..rewarded :
         PayCuTracker(t, rewarded, sent)

Spec == Init /\ [][Next]_vars

-----------------------------------------------------------------------------
\* What consumers own: the subscription with any change already due next epoch.
Owners  == {c \in Consumers : SubBlock(chain, c, NextEpoch) # NoBlock}
Owned(c) == SubData(chain, c, SubBlock(chain, c, NextEpoch))

\* No handler panics while timers run: no division by a duration of zero, no
\* plan reference dropped that was not held.
NoPanic == ~Panicked(chain)

\* The plan version of a subscription, and of the future one it holds, can be
\* found (GetPlanFromSubscription: "critical" when it is not).
PlanFound ==
    phase = "txs" => \A c \in Owners : LET sub == Owned(c) IN
        /\ FindPlan(chain, sub.plan, sub.planBlock) = sub.planBlock
        /\ sub.future # NoFuture =>
             FindPlan(chain, sub.future.plan, sub.future.planBlock) = sub.future.planBlock

\* A subscription has exactly one month timer, in the future, at the expiry it
\* states; a consumer without one has no timer.  (A consumer who deletes the admin
\* project may buy in the epoch in which a subscription is being deleted.)
OneMonthTimer ==
    phase = "txs" /\ "del_project" \notin kinds => chain.months =
        {[at |-> Owned(c).expiry, consumer |-> c] : c \in Owners} /\ MonthsDue = {}

\* Consumers only buy, extend and renew, and no plan is withdrawn.
Undisturbed == {"upgrade", "del_plan", "del_project"} \cap kinds = {}

\* The admin project lasts as long as the subscription it was created for, unless
\* the consumer deletes it or changes plans.
AdminWithSubscription ==
    phase = "txs" /\ Undisturbed => Owners = {c \in Consumers : Find(chain.admin[c], NextEpoch) # NoBlock}

\* What the module's account owes: credits, future credits and pending payouts.
Owed ==
    SumFunctionOnSet([c \in Consumers |-> IF c \in Owners THEN Owned(c).credit + Owned(c).future.credit
                                          ELSE 0], Consumers)
      + SumFunctionOnSet([t \in chain.cuTimers |-> t.credit], chain.cuTimers)

\* The account covers every credit and every pending payout.
Solvent == phase = "txs" => chain.balance >= Owed

\* Nothing of what was paid gets stuck in the account, short of an upgrade or a
\* deleted plan, but for the rewards that a payout counts and does not send.
CreditExact == phase = "txs" /\ Undisturbed => chain.balance = Owed + chain.unsent

\* A plan version is never short of references: one for every subscription, and
\* every advance purchase, that uses it, and one while it is the latest.
Holders(p, b) ==
    Cardinality({c \in Owners : Owned(c).plan = p /\ Owned(c).planBlock = b})
      + Cardinality({c \in Owners : Owned(c).future.plan = p /\ Owned(c).future.planBlock = b})
PlanReferenced ==
    phase = "txs" => \A p \in PlanIndices : \A b \in Versions(chain.plans[p]) :
        LET e == chain.plans[p].entries[b]
        IN  e.refcount >= Holders(p, b) + (IF e.latest THEN 1 ELSE 0)

\* The plan a consumer paid for stays, referenced and found, and giving it back
\* does not panic.  (A renewal to a newer version of the plan takes no reference.)
PlanHeld == "auto_renewal" \notin kinds => NoPanic /\ PlanFound /\ PlanReferenced

=============================================================================
