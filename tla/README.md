# Lava: a TLA+ verification project

Lava is a Cosmos-SDK chain (`x/*`) that pairs consumers of RPC services with
staked providers, and the off-chain programs that serve and pay for the relays
(`protocol/*`, `ecosystem/*`).  This directory holds TLA+ modules for the parts of
that program whose correctness rests on the order of events, TLC
configurations that check them on small instances, and TLAPS proofs for what
should hold on every instance.

## Inventory

### On-chain modules

| component | state it keeps | operations | what makes it correct |
|---|---|---|---|
| `x/timerstore` | timers by <<expiry, key>>, cached next timeout | AddTimer, DelTimer, Tick | every timer fires once, in the first block that reaches it, in order |
| `x/fixationstore` | versions of an entry, refcounts, latest/delete/stale marks, index status | Append, Get, Put, Del, Find; timer callbacks | refcounts are exact, a held version stays readable, the past is fixed, nothing leaks, no panic |
| `x/epochstorage` | epoch details, fixated params, stake entries per epoch | EpochStart, fixation and clean-up of params, stake changes | a block maps to one epoch whatever parameter changes happened since |
| `x/plans` | plans in a fixation store | AddPlan, DelPlan, GetPlan, PutPlan | a plan version lives while a subscription uses it |
| `x/projects` | projects and developer keys in fixation stores | create, delete, add/del keys, snapshot, charge | a developer key belongs to one project; CU limits per month |
| `x/subscription` | subscriptions and tracked CU in fixation stores, month timers | buy, renew, upgrade, advance month, charge, reward | plan references match, credit is conserved, a month expires once |
| `x/pairing` | stake entries, payments, badges, unresponsiveness | stake, unstake, relay payment, punish | a session is paid once and before its epoch is forgotten, CU limits hold |
| `x/dualstaking` | delegations in fixation stores, unbonding | delegate, redelegate, unbond, hooks | provider delegations mirror validator delegations |
| `x/conflict` | conflict votes | detection, commit, reveal, close | a conflict is judged once, by the committed majority of its whole jury |
| `x/rewards` | pools, IPRPC data | aggregate, distribute, refill | what is distributed was funded |
| `x/downtime`, `x/spec`, `x/protocol` | downtimes; specs; version params | recorded at block boundaries or by governance | |

### Off-chain processes

| component | state | operations | hard behaviours |
|---|---|---|---|
| `protocol/lavasession` (provider) | consumers per epoch, sessions, used CU | get/create session, prepare, done, failure, epoch update | relays of one consumer run concurrently; CAS loops, locks, rollbacks |
| `protocol/lavasession` (consumer) | pairing, sessions, blocked and reported providers | get sessions, done, failure, pairing update | pairing replaced while relays are in flight |
| `protocol/rpcprovider/rewardserver` | proofs in memory and in a database, expected payments | new proof, epoch update, payment event, snapshot | a crash between memory and disk, lost or late payments, retries |
| `protocol/rpcprovider/reliabilitymanager` | answers it committed to, in memory | vote events: commit, reveal, forget | events and transactions get lost, a restart loses the answers |
| `protocol/chaintracker`, `protocol/statetracker` | block hashes, update registry | polling, callbacks, sending transactions | forks, missed blocks, transactions that are included after their sender gave up |
| `protocol/rpcconsumer`, `chainlib`, `provideroptimizer`, `lavaprotocol` | routing of relays | | I/O and heuristics |
| `ecosystem/cache`, `lavavisor`, `badgeserver` | caches, binaries | | I/O |

## How the parts interact

The chain's modules run inside blocks.  At the start of a block the timer
stores tick: the fixation stores' own timers first (a future version becomes
the latest, a deletion takes effect, a stale version is removed), then the
subscription's month timers.  Transactions follow, and at the end of the block
the CU tracker's timers pay the providers of a month.  A transaction that fails
or panics changes nothing; a panic in a timer callback stops the chain.  Plans,
projects, subscriptions, tracked CU and delegations are all indices of
fixation stores and share their rules: one version per epoch, changes "now" or
"at the next epoch", references that keep a version readable.

Off chain, a provider serves each relay in a goroutine.  The session manager
gives it a locked session, the session charges the relay to the consumer's CU
of the epoch, the node is asked, and the session is released or rolled back.
A paying relay leaves a proof with the reward server.  The server copies its
proofs to a database now and then, and claims those of an epoch when the epoch
is over: a relay payment transaction with one relay per session.  The chain
checks each against the payments it remembers, the badge and the CU limits of
the project, charges the subscription and adds the CU to the CU tracker (the
`Claim` of `CuTracker`).  Payment events come back to the server by the state
tracker, which polls the blocks.

The consumer chooses providers from the pairing of the current epoch, opens
sessions with them, counts CU against each, and blocks and reports those that
fail, until the next epoch replaces everything.  When two of them answer one
request differently it reports a conflict; the other staked providers vote
through their reliability managers, first with a commitment and then with the
answer.  All of this is counted in epochs, whose length and number in memory are
parameters that `x/epochstorage` fixates.

## Modules

| module | models | checked by |
|---|---|---|
| `TimerService` | abstract: a set of pending timers and when they fire | property of `timerstore` |
| `TimerStore`, `MCTimerStore` | `x/timerstore/types/timer.go`, the loop of `tickValue` step by step | `timerstore` |
| `SumTheorems` | lemmas about sums over finite sets, for the proofs below | TLAPS |
| `Fixation` | the operations of `x/fixationstore` on one index, as operators from store to store | through its users |
| `FixationStore`, `MCFixationStore` | one index with its users and the references they hold | `fixation_users` |
| `FixationStoreProofs` | theorems about `FixationStore` and the operators of `Fixation` it uses | TLAPS |
| `Subscription`, `MCSubscription` | `x/subscription`, `x/plans` and the admin project of `x/projects` | `subscription`, `subscription_renewedplan` |
| `CuTracker`, `MCCuTracker` | `cu_tracker.go` and the effect of `RelayPayment` on it, composed with `Subscription` | `cutracker`, `cutracker_late` |
| `SubscriptionProofs` | theorems about `CuTracker` and `Subscription` | TLAPS |
| `ProviderSession`, `MCProviderSession` | provider side of `protocol/lavasession`, with the flow of `rpcprovider_server.go` and the stored proof of `rewardserver` | `provider_session` |
| `ProviderSessionProofs` | theorems about `ProviderSession`: types, bounds and locks, and on top of them the sums | TLAPS |
| `RelayPayment` | payments of `x/pairing` for one provider, as operators from state to state | through `RewardServer` |
| `RewardServer`, `MCRewardServer` | `protocol/rpcprovider/rewardserver` composed with `RelayPayment` | `reward_server` |
| `RewardServerProofs` | theorems about `RewardServer` and the `RelayPayment` in it | TLAPS |
| `EpochStorage`, `MCEpochStorage` | epochs and fixated parameters of `x/epochstorage` | `epochstorage` |
| `BlockClockProofs` | theorems about `TimerStore` and about `EpochStorage`, the stores that follow the block height | TLAPS |
| `Conflict` | the votes of `x/conflict` | through `ReliabilityManager` |
| `ReliabilityManager`, `MCConflict` | `reliabilitymanager`, `event_tracker.go` and `vote_updater.go` composed with `Conflict` | `conflict`, `conflict_reveal` |
| `ConflictProofs` | theorems about `ReliabilityManager` and the `Conflict` in it | TLAPS |
| `ConsumerSession`, `MCConsumerSession` | consumer side of `protocol/lavasession` | `consumer_session` |
| `ConsumerSessionProofs` | theorems about `ConsumerSession` | TLAPS |

**TimerStore.**  `timers` and `nextTimeout` are the two sub-stores of the code, one
of each per kind of timer.  `BeginBlock` starts a tick; `TickSkip`, `TickLoop`,
`TickFire` and `TickStop` are the early return, the entry, an iteration and the
end of `tickValue`.  While a callback runs, users may add and delete timers, as
callbacks do.  `ExportInit` is a genesis export followed by an import.  `last`, the
previous block, is history for the properties.

**Fixation.**  A store is a record: `entries` (version block to data, reference
count, latest mark, `deleteAt`, `staleAt`), `index` ("absent", "live" or "dead"), the store's
`timers` and `panic`.  `AppendEntry`, `ModifyEntry`, `GetEntry`, `PutEntry`, `DelEntry`, `Find`
and the timer callbacks are operators with the names of the code; a fatal
consistency check of the code sets `panic`.  The loop of `deleteStaleEntries` is
written in closed form: `Removable` says of a version what the loop's two flags are when it
comes to it.  A tick is a step per due timer (`Fire`), in the order of
their keys (`FirstDue`).  `FixationStore` adds the actions of users, `CuTracker` and
`Subscription` reuse the operators for their own indices.

**Subscription.**  The state is one record `chain` with three families of stores
(plans by index, subscriptions and admin projects by consumer), month timers,
CU tracker timers and the module account's `balance`.  Each message is an action
built with `Deliver`; `phase` orders a block ("begin": the stores' timers fire one by one,
`TickPlans`, `TickAdmins`, `TickSubs`, until `StoresTicked`; "months": so do the month
timers, "txs", "end": CU tracker timers).  How much of a month's
credit the providers earn is left open: `PayCuTracker` picks it, and how much of that
really leaves the account.  `chain.unsent` is history: what payouts counted as rewarded and
did not send.  The reward of a provider that is no longer staked is such a sum
(`delegator_reward.go:184-187`, `cu_tracker.go:206-223`), and so is the rest of the credit when a
payout is given up because `MaxRewardBoost` is zero (`cu_tracker.go:181-186`); a proposal may set
it to zero (`validateuint64`, `x/rewards/types/params.go:86`).

**CuTracker** extends it with a store per consumer and provider and fixes the
amount.  `ImplementsSubscription` says that it is one of the choices `Subscription`
allows.  `GiveUpPayout` is the early return of `RewardAndResetCuTracker`, in behaviours of the kind
"zero_boost".  `claimed` is history: what was accepted for a version and not yet paid;
`disordered` has the providers that claimed for a month after they had claimed for a later one.

**ProviderSession.**  `sps` are the session objects in the order of their creation,
`Sessions` the project's map, `registered` the manager's two maps, `used` and `missing`
counters that are changed atomically, `proofs` the reward server's memory.  The counters of
the badge's user are objects too (`badgeUsed`): `badgeData` is the one the project's map holds,
looked up (`getBadgeEpochData`) and stored (`registerBadgeEpochData`) in two steps, so that two
first relays make two; a session points to the one its last badge relay had.  `relay[r]` is the local state of a goroutine: where it is, its request, its
pointer to a session and the values it has read.  A mutex is its holder; an
`Unlock` by someone else frees it, as in Go, and an `Unlock` of a free one ends the
process ("fatal").  What a consumer sends is any uint64, and every sum wraps.  `past` records the
five events the properties depend on: an early unlock, a sum raised by `UpdateSessionCU`, a
fatal unlock, a session replaced by another one of its id, and a sum that passed the end of
its word.

**RelayPayment.**  The state is a record: the epoch `now`, `payments` (the unique
payments of the epochs in memory, from which the provider's CU in an epoch are
summed), `used` and `left` (`project.UsedCu`, `sub.MonthCuLeft`) and `badge` (the used
CU of a badge).  `Payment` folds `PayRelay` over the relays of the message in some
order; `Rejected` are the checks that count a relay as rejected, `Fails` those that
fail the transaction.  A failed transaction changes nothing.  `paid`, `unrecorded`
and `credited` are history.

**RewardServer.**  `rewards` and `rewardDB` are the proofs in memory and on disk,
`failed` the list of failed requests with their attempts, `runs[g]` the goroutine that
an epoch update starts: "begun", "retry" (waiting for the retried claim), "gather",
"claim".  `mempool` holds transactions; one whose sender gave up has `by = Nobody`
and may still be included.  `events` are the payment events of this process
(`serverID`).  Faults are counted together: a crash and restart, a claim that lasts
into the next epoch, a proof that arrives late, a query or a broadcast that fails, a
commit that times out, an event that is missed.

**EpochStorage.**  `store` is the module's state: current `params`, the block of the
latest `change`, `fixated` (per parameter, fixation block to value), `start`, `earliest`,
`deleted` and `stored` epochs.  `EpochBeginBlock` is the begin-blocker with the whole of
`EpochStart` in an epoch's first block, `ChangeParams` a governance proposal.
`history` records what really happened, which the answers about the past are
compared with.

**Conflict** keeps the open `votes` by index (a conflict and the start of its epoch);
`Detection`, `ConflictVoteCommit` and `ConflictVoteReveal` are the messages and
`BeginBlock` is `CheckAndHandleAllVotes`.  **ReliabilityManager** adds a queue of `events`
per provider that runs this software, its `memory` (`rm.votes`) and the transactions it
`sent`; the other jurors send anything the chain accepts.

**ConsumerSession.**  `currentEpoch`, `validAddresses`, `addonAddresses`, `numberOfResets`
and `reported` are the fields of the manager; `cswp` the provider objects of every
epoch, for relays, probes and reconnections keep pointers to old ones.  `relay[r]` is
a goroutine: `GetSessions` is cut where it releases a lock (validate, reset, choose,
fetch, session, add), `OnSessionFailure` where it unlocks the session, decreases the CU
and blocks the provider.  `setting` picks one of three sizes of a behaviour.

### Abstractions

- Block time is counted in blocks, and a month has `MonthBlocks` of them.
- The creator of a subscription is its consumer.  A plan has one price per
  index and no list of allowed buyers.  Of a consumer's projects only the admin
  project exists.  `DurationBought`, `DurationTotal`, `Cluster` and `MonthCuLeft`
  are left out: no modelled decision reads them.
- A claim is a relay payment with one relay of a fresh session and a valid
  pairing; what QoS leaves of the CU is the amount.  Which providers are still staked at a
  payout is left open: any part of the rewards may stay unsent.
- `ProviderSession` has one consumer, one project and one badge, and no subscription with a
  badge.  Block lists and data reliability sessions are never set by the code.  The manager's and the
  project's mutexes are atomic steps.  A compare-and-swap loop on one counter is
  one step, since a failed attempt has no effect; `SafeAddMissingComputeUnits`
  reads a second counter and is two steps, as are the plain `CuSum += ...`.  uint64
  arithmetic is modulo `Word`.  A restart of the provider is an initial state with
  proofs from the database (`RestoredCus`); the manager knows the chain's epoch before the
  first relay, as `RegisterEpochUpdatable` calls `UpdateEpoch`.
- `RelayPayment` has one provider on one chain.  A consumer is a developer key with
  a project of its own.  Quality of service, complaints, signatures, latest block
  reports and the downtime factor (1) are left out; the pairing of an epoch in memory is
  valid.  Session ids differ: they are 63-bit random numbers.  A badge is a session's, from its
  first proof on: the carry-over of a badge to a later proof without one
  (`reward_server.go:153-155`) has nothing to do.
- `RewardServer` leaves out the expected payments and CU totals, which are only logged.
  The time to live of an entry of the database, a day by default, does not run out.  A dropped
  proof is deleted from the database under the key of its relay's signer (`DeleteRelaySessions`);
  one with a badge was stored under the badge's signer (`rpcprovider_server.go:367, 503-505`) and
  stays.
- `EpochStorage` leaves out the two unstake parameters, which go through the same code;
  an epoch's stake storage is the epoch's block.
- `Conflict`: signature, finalization and pairing checks of a report hold.  A conflict is what
  `DetectionIndex` makes of it, the consumer and the *ordered* pair of providers
  (`msg_server_detection.go:16-18`): the same disagreement reported with the providers swapped is
  another index in the code and another conflict here, so `JudgedOnce` does not forbid to
  judge it under both.  A commitment
  is the answer it hides.  `SlashEntry`, `JailEntry` and `CreditStakeEntry` are stubs in the
  code; an outcome records whom they are called for.
- `ConsumerSession`: a provider has one endpoint; scores of the optimizer are left out,
  so any candidates may be picked; blocked providers matter by address.  A failure never asks
  to block or report the provider at once (`ReportAndBlockProviderError`, `BlockProviderError`,
  `consumer_session_manager.go:689-694`): only tests raise these errors.  Every relay ends in
  `OnSessionDone` or `OnSessionFailure`; the exit of `rpcconsumer_server.go:557-560`, when a request cannot
  be signed, has neither and leaves the session locked and its CU used.

## Runs

| run | question | result |
|---|---|---|
| `timerstore` | Do timers fire once, in order, in the first block that reaches them, and does the cached timeout never hide one? | pass |
| `fixation_users` | Are references (`References`), marks, deletions and the index (`WellFormed`) and the visible past of an index exact when it is used as the chain uses it? | pass |
| `subscription` | Purchases of every kind, renewals with and without funds, plans and admin projects withdrawn: are the plans that are held found and referenced, is the account solvent and the credit exact, is there one month timer, does the admin project last? | pass |
| `cutracker` | Claims of the current and the previous epoch, rewards that cannot be sent, payouts given up: are the claims of a provider that claims month by month all paid, and never more than the credit? | pass |
| `provider_session` | Relays, badges, subscriptions, proofs and a new epoch interleaved, with sums up to the last of the word: exclusive sessions, exact used CU, limits, numbers served once, covered proofs? | pass |
| `reward_server` | Crashes, overlapping claims, late proofs, lost transactions, results and events: is no session paid twice or beyond what was served, no surviving proof mislaid, and without faults every session paid in time that the month's CU and the badge cover? | pass |
| `epochstorage` | Epoch length and memory changed at any block: does every block in memory keep its epoch and parameters, are exactly the epochs in memory stored, does the next epoch start where it is foreseen? | pass |
| `conflict` | Conflicts reported again and again, votes lost, jurors restarted: judged once, by the whole jury, with the committed majority? | pass |
| `consumer_session` | Relays, probes, reconnections and new pairings interleaved: one relay per session, exact used CU, fresh address lists, and does every search for sessions end? | pass |
| `subscription_renewedplan` | Renewal to a newer plan version | violation of `NoPanic` |
| `conflict_reveal` | A provider that committed | violation of `CommittersReveal` |
| `cutracker_late` | A late claim after the first one of the new month | violation of `ClaimsWillBePaid` |

The violations are described under "findings" in `PROJECT.json`:

- *Renewed plan.*  `renewSubscription` assigns the new plan before it compares it
  with the old one, so no reference of the newer version is taken and the
  expiry of the subscription puts back one it does not hold: a panic in a
  begin-block timer.
- *Reveal.*  The events that call for a reveal, or close a vote, are built without chain
  and interface, so `VoteUpdater` finds no handler: a provider with this software
  commits, never reveals and is punished as silent.
- *Late claim.*  A claim for the previous month that comes after the provider's first claim
  of the new month is appended before the version that is there, and both are marked latest;
  the payout of the old month then deletes the tracker (`cu_tracker.go:78`), and the CU of
  the new month are never paid.

Some properties are stated with an exception that the code needs, each marked at
its definition: `PlanHeld` without automatic renewal (the finding above),
`OneMonthTimer`, `AdminWithSubscription` and `CreditExact` without
deletions of admin projects or, for the last two, upgrades and withdrawn plans; `CreditExact` but for
rewards that were counted and not sent; `OrderedClaimsWillBePaid` for providers that claim month by
month (the finding above), without upgrades, automatic renewals, deletions of admin projects and
a reward boost of zero, each of which loses claims by itself (see below); `PaidOnce` but for sessions
of forgotten epochs that slip through `validatePairingCache`; `CreditWithinLimits` while
a project is within its limit; `PaidInTime` while what was served is covered; `NextEpochForeseen`
while more than one epoch is in memory.  Those of `ProviderSession` hold until events in `past`:
`Exclusive` until an early unlock, `ServedOnce` also until a session is replaced or its number is
the last of the word, `UsedAccounted` until an early unlock or a sum raised by `UpdateSessionCU`,
`WithinLimit` and `ProofCovered` also until a sum wraps.  `WithinLimit` speaks of each counter
of a badge, of which there may be two (see below).

### Bounds

Deadlock checking is off in every configuration, for the bounds stop behaviours:
the last block, the last transaction or the last request.

- `timerstore`: two keys, so that two timers share an expiry; three heights and two
  times, so that a timer is overtaken by earlier and by later ones and blocks can
  share a time.
- `fixation_users`: six blocks, epochs and stale period of two; enough for a version
  to be appended, superseded, deleted, become stale and be removed, and for the
  index to start again.
- `subscription`: epochs and memory of two blocks, months of five, so that months end
  in both blocks of an epoch; 12 blocks hold the ends of two months and the
  payout of the first; three transactions of the scenarios in `MCSubscription`, after
  the plans were added by one proposal.
- `cutracker`: one consumer, two providers (symmetric), three claims of one or two CU for this
  epoch or the one before, subscriptions of two months, three transactions in 12 blocks.
- `provider_session`: two goroutines and three requests, which allow two relays to
  create one session or one badge counter, a third to take it and proofs to be late; sums 1 and 3
  with an api of 2 CU give a relay that is paid in full, in part or not at all; a sum of 7 in
  words of 8 wraps the used CU; a limit of 5 and a badge of 2 are both exceeded; a restored
  proof of 3 is higher than the first relay's; epoch 2 drops epoch 1.
- `reward_server`: three sessions of one consumer in two epochs, one with a badge, and
  proofs of 1 or 2 CU against limits of 2 and 3, so that the second and the third
  payment are cut; a month of 3 CU and a badge of 1, so that claims fail for want of CU
  without a fault; a memory of two epochs and five epochs, so that payments are forgotten while proofs of their epochs may be restored; two goroutines; two faults,
  which is what a proof needs to be saved, lost and restored, or claimed twice.
- `epochstorage`: epochs of one to three blocks, memories of none to two epochs, three
  changes in twelve blocks: a change may come before the last one took effect, make the
  memory longer than the history or shorter than an epoch.
- `conflict`: one conflict reported in up to two epochs, three jurors, one of which has the
  majority of the stake, epochs of two blocks, periods of one epoch, eight blocks for a
  whole vote and a second one.  The spans keep the relations of the default parameters
  (`SpanAssumption`, `MemoryAssumption`): with others `JudgedOnce` and `JuryCounted` fail.
- `consumer_session`: two providers, of which one supports an addon, pairings of two
  epochs, and three settings: two relays across the epochs; three relays on one
  provider, which fills its sessions; one relay with both providers and the ticker.

### Fairness

`TimerStore`: blocks keep coming (a chain without blocks has no
time), and the execution of a block, the loop of `tickValue` and its callbacks
included, runs to its end.  Nothing is assumed of users.  `HeightTimerLeaves` needs
both.

`ConsumerSession` assumes that a relay's goroutine that can run is scheduled
(`WF_vars(Search(r))`): the search of `GetSessions` never waits for anything but a mutex
that is held for a bounded time and a connection attempt with a timeout.  Nothing is
assumed of pairing updates, probes or the end of relays.  `GetSessionsReturns` then says
that a search ends though others keep blocking providers and resetting the lists.

The other specifications are about safety.  `PaidInTime` is a bounded response: without
a fault a session that is covered is paid by the time the next epoch's claim is over, which needs no
fairness since an epoch does not begin before (but for `SlowClaim`, a fault).

## Proofs

Every theorem is of the form "the specification implies that the property always
holds" (or, for the action properties and the refinement, "implies the property"), for the very
definitions the runs check.  A run checks them on one instance, the theorem for all
values of the constants that satisfy the named assumptions.  TLC evaluates the
assumptions on the run's instance, and checked each inductive invariant before it was
proved.

| module | theorem | property | run |
|---|---|---|---|
| `BlockClockProofs` | `TypeCorrect` | `TypeOK` | `timerstore` |
| | `NextTimeoutIsSafe` | `NextTimeoutSafe` | |
| | `NothingOverdue` | `NoOverdueTimer` | |
| | `FiresOnTime` | `FiresAtFirstBlock` | |
| | `RefinesTimerService` | `ImplementsTimerService` | |
| | `PastStaysTruthful` | `PastIsTruthful` | `epochstorage` |
| | `EpochsAreStored` | `StoredEpochs` | |
| | `NextEpochIsForeseen` | `NextEpochForeseen` | |
| `FixationStoreProofs` | `StoreNeverPanics` | `NoPanic` | `fixation_users` |
| | `ReferencesKeepVersions` | `References` | |
| | `StoreWellFormed` | `WellFormed` | |
| | `ThePastIsFixed` | `PastIsFixed` | |
| `SubscriptionProofs` | `TrackerImplementsSubscription` | `ImplementsSubscription` | `cutracker` |
| | `AccountIsSolvent`, `TrackerIsSolvent` | `Solvent` | `subscription` |
| `ProviderSessionProofs` | `TypeCorrect` | `TypeOK` | `provider_session` |
| | `MissingIsBounded` | `MissingBounded` | |
| | `SessionsExclusive` | `Exclusive` | |
| | `NumbersServedOnce` | `ServedOnce` | |
| | `UsedIsAccounted` | `UsedAccounted` | |
| | `StaysWithinLimit` | `WithinLimit` | |
| | `ProofsAreCovered` | `ProofCovered` | |
| `RewardServerProofs` | `SessionsPaidOnce` | `PaidOnce` | `reward_server` |
| | `CreditsWithinLimits` | `CreditWithinLimits` | |
| | `ProofsNotMislaid` | `NothingMislaid` | |
| `ConflictProofs` | `ConflictJudgedOnce` | `JudgedOnce` | `conflict` |
| | `WholeJuryCounted` | `JuryCounted` | |
| | `VerdictOfMajority` | `VerdictByMajority` | |
| `ConsumerSessionProofs` | `ListsStayFresh` | `CachesFresh` | `consumer_session` |
| | `SessionsAreBorrowed` | `SessionsBorrowed` | |
| | `UsedIsAccounted` | `UsedAccounted` | |

**Sums.**  `SumFunctionOnSet` of the community modules is a fold, whose value the provers
cannot unfold.  `SumTheorems` derives from its definition what the accounts need: the
sum over the empty set, over a set with and without one member (`SumRemove`), of
functions that agree (`SumAgree`) or differ at one place (`SumChange`), over an extended
set, and that a sum of natural numbers is one.  The inductions over finite sets are
written out (a smallest set that refutes the claim), since the library's induction theorem
cannot be instantiated.

**TimerStore.**  The assumptions: keys and bounds are natural numbers, and `None` is not a
timer.  None of the four invariants is inductive.  `IInv` adds: `ControlInv` (where a callback
may run and when the loop is entered), `Settled` (what was processed already in this
tick is not due any more), `LastBeforeNow` (blocks advance) and `NotMissed` (a pending
timer was not due in the previous block).  `NextTimeoutSafe` is needed to show that
`TickSkip` leaves nothing due, `Settled` that the second kind of timers does not disturb
the first, and `NotMissed` that what fires was not due earlier.  `ExportInitStutters`
shows that an import changes nothing, which makes it a stuttering step of the
refinement.

**FixationStore.**  Any number of blocks, references and data, any stale period of at least
one block.  `NextEpochAssumption` is what the users of the store keep to, and what the
properties need: they name the current block or one block beyond it, the same one
until it comes (the start of the next epoch: `NextEpochForeseen` of `EpochStorage`), and
delete only beyond the current block.  `x/plans`, `x/projects`, `x/subscription` and
`x/dualstaking` call `AppendEntry` with the context's block or `GetCurrentNextEpoch`, and
`DelEntry` with the latter.  With two different blocks beyond the current one, or a delete
at the current block, the properties are false (see below).  The calls that
differ are not covered by the theorems but by the runs of the modules that make them:
the admin project is created at the start of the running epoch (`Subscription`), and the CU
tracker deletes at the current block (`CuTracker`).  None of the properties is inductive, and
three hold only between two operations of users, while timers of the same block fire one
after the other.  `Good` is what holds in between, of a store, the references and the block:

- `Plan`: of the timers that start or delete a version there is at most one, at the block
  the users may still name, and it agrees with its version.  This is why a version
  that matures never meets a deleted one, and why a delete always finds its version.
- `Fresh`, `Newest`: what has not started is as it was appended; the newest of what has started is
  the latest, or deleted.  A version "has started" when its future timer is gone, not
  when its block has come: during a tick the two differ, and `RefcountExact` with the
  block instead of the timer is false there.
- `Deletes`: a `DeleteAt` is pending, on the latest version and with its timer, or is over.
- `Counted`, `Indexed`: reference counts and index status, again by timers.
- `Scanned`: an unreferenced version has a stale timer until it is stale, and once it is the
  scan is still to come in this block or the oldest version is not stale.  A single scan may leave
  stale versions behind (`Removable`), but never the oldest one (`ScanRemoves`).

For each operation a lemma says what it leaves of the store (`PutEntryIs`, `AppendIs`, `DelIs`,
`DeleteStaleIs`), and another one that it keeps `Good` (`AnnounceKeeps`, `StartKeeps`,
`ScheduleKeeps`, `MatureKeeps`, `StaleKeeps`).  For `PastIsFixed`, `SamePast` says that an
operation leaves the versions of the past, their staleness and their deletion as they
are, and `SamePastFinds` that lookups then agree; only the scan removes versions of the past,
and `ScanFinds` shows that what it leaves gives the same answer or none.  Its argument is that a
version is removed only right after a stale one: what is nearest once it is gone is stale
too, or nothing is left, and the lookup gives none.

**CuTracker.**  Any finite set of consumers and of providers, any plans, prices, months and
epochs that satisfy the assumptions of `Subscription` (discounts are percentages, as
`ValidatePlan` asks).  `TrackerImplementsSubscription` is a refinement: a step of `CuTracker`
changes nothing of `Subscription`'s state, is a transaction or a timer of it, or is a payout, for
which `Subscription` lets providers earn any part of the month's credit, and any part of that be
sent; a payout that is given up is one that earns all of it and sends some.  So what has to
be shown is that the sum of the rewards is a natural number and at most the credit:
each is a share of the credit, rounded down, and the shares of all providers add up to
no more (`SumShares` of `SumTheorems`, with `OneShareMore` for its induction), and those of
the providers that are paid to no more still (`SumSubset`).  This rests on types: the credit in a
timer, a subscription and its future is a natural number whatever was bought, extended,
upgraded, renewed and paid out.  `Typed` and `Tracking` are the invariants; `StoreOf(D)` says what
a store of data D is, whatever its history, and a lemma for every operation of `Fixation`
and every handler of `Subscription` says what it returns.

**Subscription.**  `AccountIsSolvent` holds for the same constants.  `Solvent` is about what a
lookup for the next epoch finds, and says nothing of the blocks' other phases; it is far from
inductive.  `Solvency` replaces the lookup by what the store holds: the debt of a store (`Debt`)
is the worth of its newest version, or zero when that one is deleted; the account covers the
debts and the pending payouts as long as nothing panicked, in every phase.  That the two agree
(`FoundTop`, `FoundNone`) and that the operations change the debt as the handlers pay for it
needs `Sound`, of every subscription store:

- `Starts`: versions start and are deleted at the next epoch at the latest, and only there if
  not yet; and a version holds its own block.  So the newest version is the one found for the
  next epoch, and an append or a delete for it works on the newest version; `LaterSound` says that
  this survives the next block (`EpochMoves`).
- `Referenced`: a newest version that is not deleted is held, so it is not stale and is found.
- `Follows`: a version that waits follows one that is not deleted and is held, so that when it
  starts, the tick does not panic or leave a deleted version as the newest.
- `TimersFit`: only the newest version waits for its start, and a timer deletes a version that is
  marked with its block and still held.

`Quiet`, no timer is due, holds after the tick only and is needed by the appends at the current
block.  `FireIs` shows that a tick changes no debt; `AppendNowIs`, `AppendNextIs`, `DelNextIs`,
`ModifyIs` and their variants give the debt after each operation of a handler; and
`StaysHealthy` turns that into the account: the handler gains what is owed more
(`BuyHealthy`, `UpgradeHealthy`, `MonthHealthy`, `PayoutHealthy`, ...).  It is an inequality: a
payout that replaces another one with the same key, and a credit that is returned to a
superseded version, leave money in the account that nobody is owed (see below), which is why
`CreditExact` has exceptions.

**ProviderSession.**  Any finite set of goroutines, any session ids, epochs and limits, and
any uint64 values that a consumer sends: `CuAssumption` says that they are, and nothing more.
The argument has four layers.

- `TypeInv`: types, and what a goroutine knows at its step (`Local`): it points to a session of
  its own request, and one that is about to add missing CU has compared the sum with
  the limit; pointers to a badge's counters lead to one (`Pointers`).  The compare-and-swap
  compares with the value that was checked, so that nothing another goroutine does in
  between matters: this is `MissingBounded`, through all wraps.
- `LockInv` adds, as long as no relay let go of its session early: the goroutine whose
  steps work on a session is the owner of its lock and nobody else is; the owner's relay
  number is above the session's, unless that one is the last of the word; and the session's
  `LatestRelayCu` is zero whenever it is free or its owner has not charged yet.  The second is why
  a number only grows, and needs the first: `GetSession` compares, and `OnSessionDone` writes much
  later.  `Unique`, every object is the one in the project's map until one is replaced, carries this
  from objects to session ids: `ServedOnce`.
- `AccountInv` adds, as long as no lock was let go, no sum raised and none wrapped (`Sound`):
  `Accounts` (what the owner has read of its session is still so, step by step), `UsedSums` and
  `BadgeSums` (the sums of sessions and pending charges are the parents' counters, or bound them,
  and the counters are within their limits), and `RelaysBacked` and `ProofsBacked`: a proof is
  covered by a session *even if the relay that has this session fails and takes its CU
  back*.  Without the last part `ProofCovered` is not inductive, as a failing relay lowers
  the sum a proof of an earlier relay rests on.
- `WordInv` does the accounts again modulo the word, where nothing is known of the size of a
  sum: the used CU are congruent to the sums and the pending charges, since a step adds
  the same to both sides (`Added`), and what a goroutine has read of its session is still so
  (`Olds`).  This gives `UsedAccounted` after any wraps.

**RewardServer.**  Any sessions (with distinct ids), limits, proofs, goroutines and
faults; `LimitsAssumption` says that a total limit and a month's CU fit in the 64 bits in
which the code subtracts.  The invariant is
`ChainInv(chain) /\ ServerTypes /\ Finite /\ RunsInv /\ NothingMislaid`.

- `ChainInv` is about the payments alone.  `Recorded` and `Remembered`: a paid session has a
  payment exactly as long as its epoch is remembered, so that `IsDoubleSpend` finds it while
  the claim could still succeed; this gives `Once`.  `Charged`: what a consumer was paid for in
  an epoch was all charged to its project, so that in the branch of
  `EnforceClientCUsUsageInEpoch` that credits *what is left in the project* this is no more
  than the relay's own CU; this gives `WithinServed`.  `BadgeCharged`: a badge that is still
  valid for some session has used CU that cover all its credits, also of the epochs that were
  forgotten meanwhile; this gives `WithinAllocation`.  `RelayPaid` shows that one relay keeps
  them, `EpochForgets` that a new epoch does (its payments go together).
- A claim is a fold over the relays in an arbitrary order.  `FoldExists` and `PaymentSteps`
  unfold it into its steps, `SoundStep` is the induction step, and `ClaimPaid` the result: a
  claim that succeeds has paid *every* session of its batch.
- `RunsInv` ties the mempool to the goroutines: a transaction that is waited for carries the
  batch of the goroutine that waits, and is its only one.  Without it a late inclusion could
  be taken for the success of another batch, which is then dropped from the retries.  It also
  bounds the `earliest` that a goroutine asked the chain for by the present one, so that
  `GatherRewards` drops only epochs that are still forgotten.

`PaidInTime` and its reasons why a claim cannot fail are left to TLC.

**EpochStorage.**  Any positive epoch lengths, any numbers of epochs to save (zero
included), any number of changes.  `EpochInv` is about the store and the calendar of epochs
that really happened.  `Calendar`: each epoch begins where the one before ends.  `Truthful`:
the versions of a parameter begin with epochs, one of them is not later than the
earliest epoch in memory, and the version in force at an epoch gives its value and
counts its blocks from zero.  `Announced`: parameters that differ from those of the
running epoch were changed in it, so that comparing `change` with the start of the
previous epoch, as `FixateParams` does, misses none.  `Recent`: a version above the earliest
epoch follows the last change, or came right after it; this is what allows
`CleanAllOlderFixatedParams` to keep one version when the change is older than the memory.
`Remembered`: the stored epochs.  The loop of `UpdateEarliestEpochstart` is a recursive
function; `LoopExists` shows that it ends, since `GetNextEpoch` goes forward, and
`PassedEpochs` that it passes exactly the epochs before the limit.

**Conflict.**  Any jury, stakes and indices; votes are delivered, lost and late as in
`ReliabilityManager`.  `SpanAssumption` and `MemoryAssumption` relate the parameters of
`x/conflict` and `x/epochstorage` as their defaults do (3 epochs, periods of 2 epochs, 10 in
memory); the parameters themselves are only validated to be positive.  `ConflictInv` is
`Times /\ Shape /\ Ballots /\ Verdicts`.  `Times` gives the calendar of a vote: its deadline is an
epoch start to come, late enough for both periods to pass after the conflict's epoch
and early enough for the closing to find the epoch's stakes; and an index that is no
longer open lies too far back to be reported, which is `JudgedOnce`.  `JuryCounted` follows
from the second bound.  `Ballots` says that a juror has one commitment per vote, that a
revealed result is the committed one, and that no commitment exists for an index never
opened; `Verdicts` then carries the majority of an outcome forward: no commitment of a
closed vote can be added.  The majority itself is arithmetic on sums of stakes.

**ConsumerSession.**  Any finite sets of providers and relays, any pairing lists, any
addon keys and the bounds of `SettingsAssumption`.  The invariant is
`Base /\ Borrowed /\ Kept /\ UsedAccounted`.  `Base` has the types, the freshness of the lists, and
`Tries`: within an epoch a relay tries a provider once, so that adding a session to the
relay's map never replaces one of the same epoch.  (It may replace one of an older
epoch, see below; that session stays locked, in an epoch nobody uses any more, which
is why `SessionsBorrowed` asks for a holder only in the current one.)  `Borrowed` goes from
relays to sessions: what a relay has exists, is locked, is not blocklisted, and is
nobody else's.  `Kept` goes back: a free session has nothing spent and not answered, and
a locked one of this epoch has a holder.  Both directions are needed for
`UsedAccounted`: a step that ends or fails a relay moves the session's `latest` into its
sum or into the relay's pending decrease, and it may do so only because the session is
its own.

Only model-checked:

- liveness (`HeightTimerLeaves`, `GetSessionsReturns`): fairness and ENABLED are beyond the
  prover;
- `PaidInTime` (see above);
- the other invariants of `Subscription` (`PlanHeld`, `OneMonthTimer`, `AdminWithSubscription`,
  `CreditExact`) and `OrderedClaimsWillBePaid` of `CuTracker`: not proved.

## What the models show besides the runs

Behaviours that the models reach, that are not runs:

- `GetPlan` takes a reference on extension, upgrade and advance purchase that is not
  always put back: plan versions may stay longer than they are used
  (`x/plans/keeper/plan.go`).  `PlanReferenced` therefore says "at least".
- `advanceMonth` in the first block of an epoch and an upgrade one epoch later schedule
  CU tracker timers with the same key in the same block; the second replaces the first
  and the month's providers are not paid (`x/subscription/keeper/subscription.go:487`).
- `returnCreditToSub` adds the credit of a month without claims to the version in
  effect; when a version for the next epoch is pending, the credit goes with the
  superseded one (`x/subscription/keeper/cu_tracker.go:260`).
- The payout of an upgraded subscription is timed from the block of the upgrade
  (`subscription.go:264`), while the old version stays in effect until the next epoch: its last
  claims come after the payout and are never paid.
- An automatic renewal in the first block of an epoch appends the new version one epoch
  later than it schedules the payout's memory for; the old month's entry of the tracker can be
  stale when the payout reads it (`cu_tracker.go:24`).
- With `MaxRewardBoost` zero a payout stops at the first provider without an adjustment
  (`cu_tracker.go:181-186`): what is left of the month's credit is neither paid nor returned, and the
  other providers' trackers stay for nobody.
- `AutoRenewal` changes the version in effect; between a month's end and the next
  epoch the pending version keeps the old setting
  (`x/subscription/keeper/msg_server_auto_renewal.go:90`).
- When an owner deletes the admin project the subscription ends with its month, and
  in the blocks before the next epoch the consumer can buy again; the new version
  inherits the deletion (`x/subscription/keeper/subscription.go`, `CreateSubscription`).  Claims
  on it are never paid.  This is why `OneMonthTimer` and `OrderedClaimsWillBePaid` except
  behaviours with `DelProject`.
- In the fixation store a second deletion at a later block is refused; an append
  before the first version leaves two latest versions; a deletion at the
  current block trims every version at or above it, so one appended in that very
  block, or one already marked for deletion (its timer stays), ends in a
  consistency panic.  Its users avoid the last: they delete at the next epoch.
- `UpdateSessionCU` can lose the charge of a relay that runs between its reads and its
  writes, and can lower a session's sum.  The code marks it with a TODO.  The
  properties of `ProviderSession` about sums are stated as long as it raises nothing.
- A subscription (`RelaySubscribe`) that fails after its session was released calls
  `OnSessionFailure` on it and, when another relay has the session, takes that
  relay's lock and CU.
- `PrepareSessionForUsage` unlocks the session when a badge is over its limit
  (`single_provider_session.go:186`), and the caller's `DisbandSession` unlocks it once more,
  now under another relay.  `Exclusive` is stated until one of these two happens.
- A badge's user may get more than the badge's `CuAllocation`:
  `getOrCreateBadgeUserEpochData` looks its counter up under one lock and stores a new one under
  another (`provider_session_manager.go:91-114`), so two first relays get a counter, and an allocation,
  each.
- A sum near 2^64 makes the used CU of a consumer pass the end of the word
  (`single_provider_session.go:249`): the relay is accepted, the used CU fall, and the sessions
  together get more than `EpochCuLimit`.  `sps.CuSum+cuFromSpec` wraps as well (`:129`), and a later relay
  can then lower a session's sum below its proof.
- Two first relays with one session id and one number may both find no session and both
  create it (`provider_types.go:243`); each is checked against its own new object, and both
  are served.
- `project.UsedCu` grows by the CU of a relay, not by what is rewarded, so it can pass
  `TotalCuLimit`; the CU left are an unsigned difference (`pairing.go:259`, `limitConsumer.go:37`) that
  wraps, and from then on nothing is limited.
- One rejected relay fails a whole payment (`msg_server_relay_payment.go:297`), though the
  comment above says "if all relays failed, fail the TX".  After a restart the events of the old
  process have no handler, so paid proofs are restored and claimed again with valid ones; the
  double spend fails the claim, and after three attempts the valid proofs are dropped with it.
  `NothingMislaid` counts them as given up.
- A consumer without CU left in its month fails the whole payment in which one of its relays
  is (`limitConsumer.go:31`), also for the relays of other consumers; so does a badge beyond its
  allocation, which the provider may have served.  `PaidInTime` is stated for what
  is covered.
- `validatePairingCache` has no epoch in its key (`msg_server_relay_payment.go:175`): a relay of
  a forgotten epoch is accepted when a recent relay of the same consumer comes before it in the
  claim, and `AddEpochPayment` records nothing for it, so that it can be paid again.
  `x/pairing/README.md:248` says payments are stored "to avoid double spend attacks".
- The reward server's list of failed requests is keyed by the session id alone, and its
  database deletes by prefixes without a separator at the end.
- `GetCurrentNextEpoch` reads the parameter itself while only one epoch is in memory; a
  pending change of `EpochBlocks` then moves its answer and not the epoch
  (`x/epochstorage/keeper/params.go:153`).
- A provider that restarts between commitment and reveal has lost answer and nonce
  (`reliability_manager.go`), and an unresolved vote has no event that frees its memory.
  The result of `bail.Quo` is discarded (`x/conflict/keeper/vote.go:124`).
- In the consumer's sessions an endpoint that was disabled is never enabled again
  (`consumer_types.go:400`), so a reported provider cannot reconnect within its epoch.  A
  reconnection callback that outlives its epoch probes the old endpoints and blocks the
  provider in the new pairing.  A search for several sessions that spans a new epoch may replace a
  session it holds by one of the new epoch; the old one stays locked.  Two relays that fail at the
  same time each see the other's CU, so neither reports the provider.

## Plan

Modelled so far, in this order: `TimerStore` with its abstract service and proofs;
`Fixation` and `FixationStore`; `Subscription` on top of them and `CuTracker` composed with
it; `ProviderSession`; `RewardServer` composed with `RelayPayment`; `EpochStorage`; `Conflict`
with `ReliabilityManager`; `ConsumerSession`.

Proved so far: `TimerStore`, `FixationStore`, `ProviderSession`, `RewardServer`, `EpochStorage`, `Conflict` and
`ConsumerSession`, all of their safety properties but `PaidInTime`; that `CuTracker` implements
`Subscription`, and that the account of both stays solvent.  Worth proving next: the other
invariants of `Subscription` (`OneMonthTimer`, `PlanHeld`, `AdminWithSubscription`,
`CreditExact`), from what its plan and project stores and its timers look like between two of
its transactions.

Worth modelling next: keys and policies of `x/projects`, delegations of `x/dualstaking`,
stake, freeze and punishment in `x/pairing`, the ring of block hashes of
`protocol/chaintracker`, retries of `protocol/rpcconsumer`.

## Not modelled

Everything `PROJECT.json` lists as not_modelled: pairing selection, QoS and
optimiser scores (numeric heuristics), the monthly distribution of `x/rewards`
(decimal arithmetic), parsers, transport and caches (I/O), the TypeScript clients,
generated protobuf code (most of the repository's lines), upgrades and genesis other
than the timer store's.  Staking, delegations, project keys, the chain tracker and the
consumer's retries are state machines that can be modelled and are not yet.
