---------------------------- MODULE RewardServer ----------------------------
(***************************************************************************)
(* The provider's reward server (protocol/rpcprovider/rewardserver) and    *)
(* the chain that pays it.  Proofs of served relays are kept in memory,    *)
(* copied now and then to a database, claimed when their epoch is over,    *)
(* retried when the claim failed, and forgotten when they were paid, when  *)
(* they failed too often or when the chain has forgotten their epoch.      *)
(*                                                                         *)
(* Every new epoch starts a goroutine that claims; a slow one may overlap  *)
(* the next.  Transactions, results and payment events get lost, a         *)
(* transaction may be included after its sender gave up waiting, and the   *)
(* process may stop at any time and start again from the database.         *)
(***************************************************************************)
EXTENDS RelayPayment

CONSTANTS
    Cus,            \* cumulative CU a proof may carry
    Distance,       \* epochs a session stays usable: RECOMMENDED_EPOCH_NUM_TO_COLLECT_PAYMENT
    MaxAttempts,    \* MaxPaymentRequestsRetiresForSession
    Runners,        \* goroutines of runRewardServerEpochUpdate that may overlap
    Nobody,
    MaxEpoch,       \* bound: epochs of a behaviour
    MaxFaults       \* bound: crashes, slow claims, late proofs, lost transactions, results,
                    \* events and queries

ASSUME ServerAssumption ==
    /\ Cus \subseteq Nat \ {0}
    /\ {Distance, MaxEpoch, MaxFaults} \subseteq Nat
    /\ MaxAttempts \in Nat \ {0} /\ Nobody \notin Runners

VARIABLES
    chain,      \* see RelayPayment
    rewards,    \* proofs in memory: [sess, cu], one per session
    rewardDB,   \* proofs in the database, one per session
    failed,     \* failedRewardsPaymentRequests: [sess, cu, attempts]
    runs,       \* [Runners -> [pc, epoch, earliest, batch]]
    mempool,    \* transactions not yet included: [by, server, batch]
    events,     \* sessions whose payment event is not yet handled
    serverID,   \* changes with every start of the process
    faults,     \* faults so far
    served,     \* history: CU served in a session
    owed        \* history: sessions whose proof has not been lost or given up

vars == <<chain, rewards, rewardDB, failed, runs, mempool, events, serverID, faults, served, owed>>

SessionsOf(proofs) == {p.sess : p \in proofs}
Without(proofs, ss) == {p \in proofs : p.sess \notin ss}

\* deleteRelaySessionFromRewardDB makes the key of the relay's signer.  The proof of
\* a badge is stored under the badge's signer, and stays.
DeleteRelaySessions(ss) == Without(rewardDB, {s \in ss : s.badge = NoBadge})

Idle == [pc |-> "idle", epoch |-> 0, earliest |-> 0, batch |-> {}]

Init ==
    /\ chain = InitPayments
    /\ rewards = {} /\ rewardDB = {} /\ failed = {}
    /\ runs = [g \in Runners |-> Idle]
    /\ mempool = {} /\ events = {}
    /\ serverID = 1 /\ faults = 0
    /\ served = [s \in Sessions |-> 0] /\ owed = {}

Fault == faults < MaxFaults /\ faults' = faults + 1

-----------------------------------------------------------------------------
(* Proofs *)

\* saveProofInMemory: the proof of a session carries the CU of all its relays,
\* and replaces one with less; a proof that was overtaken is kept when none is in
\* memory.  A badge may be served beyond its allocation (see ProviderSession).
SaveProof(s, cu) ==
    /\ \A p \in rewards : p.sess = s => p.cu < cu
    /\ rewards' = Without(rewards, {s}) \cup {[sess |-> s, cu |-> cu]}
    /\ served' = [served EXCEPT ![s] = Max({@, cu})]
    /\ owed' = owed \cup {s}
    /\ UNCHANGED <<chain, rewardDB, failed, runs, mempool, events, serverID>>

SendNewProof(s, cu) ==
    /\ s.epoch <= chain.now /\ chain.now < s.epoch + Distance
    /\ SaveProof(s, cu)
    /\ UNCHANGED faults

\* A relay that began in time ends when its epoch is no longer in use.
SendLateProof(s, cu) ==
    /\ chain.now = s.epoch + Distance
    /\ Fault
    /\ SaveProof(s, cu)

\* resetSnapshotTimerAndSaveRewardsSnapshotToDB.
SaveRewardsSnapshotToDB ==
    /\ ~ rewards \subseteq rewardDB
    /\ rewardDB' = Without(rewardDB, SessionsOf(rewards)) \cup rewards
    /\ UNCHANGED <<chain, rewards, failed, runs, mempool, events, serverID, faults, served, owed>>

-----------------------------------------------------------------------------
(* sendRewardsClaim *)

\* gatherFailedRequestPaymentsToRetry: those the chain has forgotten are dropped.
GatherFailed(g) ==
    LET old == {s \in SessionsOf(failed) : s.epoch < Earliest(chain)}
        retry == {[sess |-> f.sess, cu |-> f.cu] : f \in Without(failed, old)}
    IN  /\ runs[g].pc = "begun"
        /\ failed' = Without(failed, old)
        /\ rewardDB' = DeleteRelaySessions(old)
        /\ runs' = [runs EXCEPT ![g].earliest = Earliest(chain), ![g].batch = retry,
                                ![g].pc = IF retry = {} THEN "gather" ELSE "retry"]
        /\ UNCHANGED <<chain, rewards, mempool, events, serverID, faults, served, owed>>

\* gatherRewardsForClaim: the proofs leave the memory before they are sent, and
\* an epoch the chain has forgotten is deleted from the database as a whole.
OneEpochLater(run) == {p \in rewards : p.sess.epoch >= run.earliest /\ p.sess.epoch + Distance < run.epoch}
Claimable(run) == {p \in rewards : p.sess.epoch >= run.earliest /\ p.sess.epoch + Distance <= run.epoch}
GatherRewards(g) ==
    LET run == runs[g]
        old == {s \in SessionsOf(rewards) : s.epoch < run.earliest}
        batch == Claimable(run)
    IN  /\ run.pc = "gather"
        /\ rewards' = Without(rewards, old) \ batch
        /\ rewardDB' = Without(rewardDB, {s \in Sessions : \E o \in old : o.epoch = s.epoch})
        /\ runs' = [runs EXCEPT ![g] =
             IF batch = {} THEN Idle ELSE [run EXCEPT !.pc = "claim", !.batch = batch]]
        /\ UNCHANGED <<chain, failed, mempool, events, serverID, faults, served, owed>>

\* updatePaymentRequestAttempt.  A session that failed before keeps the relay
\* of its first failure, until it has failed too often.
Exhausted(batch) ==
    {f.sess : f \in {h \in failed : h.sess \in SessionsOf(batch) /\ h.attempts + 1 >= MaxAttempts}}
FailedAgain(batch) ==
    {IF f.sess \in SessionsOf(batch) THEN [f EXCEPT !.attempts = @ + 1] ELSE f :
        f \in Without(failed, Exhausted(batch))}
FailedFirst(batch) ==
    {[sess |-> p.sess, cu |-> p.cu, attempts |-> 1] : p \in Without(batch, SessionsOf(failed))}
OnlyRetriesOnFailure(batch, success) ==
    IF success THEN Without(failed, SessionsOf(batch)) ELSE FailedAgain(batch)
UpdatePaymentRequestAttempt(batch, success) ==
    IF success THEN Without(failed, SessionsOf(batch))
    ELSE FailedAgain(batch) \cup FailedFirst(batch)

\* TxRelayPayment returns to the goroutine that waits for it.
Result(g, success) ==
    LET batch == runs[g].batch
        dropped == IF success THEN {} ELSE Exhausted(batch)
    IN  /\ failed' = UpdatePaymentRequestAttempt(batch, success)
        /\ rewardDB' = DeleteRelaySessions(dropped)
        /\ owed' = owed \ dropped
        /\ runs' = [runs EXCEPT ![g] =
             IF @.pc = "retry" THEN [@ EXCEPT !.pc = "gather", !.batch = {}] ELSE Idle]

Unsent(g) == runs[g].pc \in {"retry", "claim"} /\ \A tx \in mempool : tx.by # g

\* The transaction is simulated first: it is broadcast, or it fails at once.
Broadcast(g) ==
    /\ Unsent(g)
    /\ \E order \in SetToSeqs(runs[g].batch) : PaymentSucceeds(Payment(chain, order))
    /\ mempool' = mempool \cup {[by |-> g, server |-> serverID, batch |-> runs[g].batch]}
    /\ UNCHANGED <<chain, rewards, rewardDB, failed, runs, events, serverID, faults, served, owed>>

SimulationFails(g) ==
    /\ Unsent(g)
    /\ \E order \in SetToSeqs(runs[g].batch) : ~PaymentSucceeds(Payment(chain, order))
    /\ Result(g, FALSE)
    /\ UNCHANGED <<chain, rewards, mempool, events, serverID, faults, served>>

-----------------------------------------------------------------------------
(* The chain *)

\* A payment event carries the server's id: the events of the transactions of
\* an earlier process have no handler.
Include(tx) ==
    \E order \in SetToSeqs(tx.batch) :
        LET result == Payment(chain, order)
            success == PaymentSucceeds(result)
        IN  /\ mempool' = mempool \ {tx}
            /\ chain' = IF success THEN result.st ELSE chain
            /\ events' = IF success /\ tx.server = serverID
                         THEN events \cup SessionsOf(tx.batch) ELSE events
            /\ IF tx.by = Nobody THEN UNCHANGED <<failed, rewardDB, owed, runs>>
               ELSE Result(tx.by, success)
            /\ UNCHANGED <<rewards, serverID, faults, served>>

\* PaymentHandler.
PaymentHandler(s) ==
    /\ events' = events \ {s}
    /\ rewardDB' = Without(rewardDB, {s})
    /\ UNCHANGED <<chain, rewards, failed, runs, mempool, serverID, faults, served, owed>>

\* A new epoch, and UpdateEpoch: a goroutine begins.
StartEpoch(g) ==
    /\ chain.now < MaxEpoch
    /\ runs[g] = Idle
    /\ chain' = NextEpochPayments(chain)
    /\ runs' = [runs EXCEPT ![g] = [Idle EXCEPT !.pc = "begun", !.epoch = chain.now + 1]]
    /\ UNCHANGED <<rewards, rewardDB, failed, mempool, events, serverID, served, owed>>

\* A claim takes minutes, an epoch half an hour.
NextEpoch(g) ==
    /\ \A h \in Runners : runs[h] = Idle
    /\ StartEpoch(g)
    /\ UNCHANGED faults

-----------------------------------------------------------------------------
(* Faults *)

\* A claim lasts into the next epoch, in which another goroutine begins.
SlowClaim(g) ==
    /\ \E h \in Runners : runs[h] # Idle
    /\ Fault
    /\ StartEpoch(g)

\* The chain's memory or parameters cannot be queried: the goroutine ends, and
\* the proofs wait for the next one.
QueryFails(g) ==
    /\ runs[g].pc \in {"begun", "gather"}
    /\ Fault
    /\ runs' = [runs EXCEPT ![g] = Idle]
    /\ UNCHANGED <<chain, rewards, rewardDB, failed, mempool, events, serverID, served, owed>>

\* The node cannot be reached.
SendFails(g) ==
    /\ Unsent(g)
    /\ Fault
    /\ Result(g, FALSE)
    /\ UNCHANGED <<chain, rewards, mempool, events, serverID, served>>

\* waitForTxCommit gives up on a transaction that may still be included.
CommitTimeout(tx) ==
    /\ tx.by # Nobody
    /\ Fault
    /\ Result(tx.by, FALSE)
    /\ mempool' = (mempool \ {tx}) \cup {[tx EXCEPT !.by = Nobody]}
    /\ UNCHANGED <<chain, rewards, events, serverID, served>>

LoseTransaction(tx) ==
    /\ tx.by = Nobody
    /\ mempool' = mempool \ {tx}
    /\ UNCHANGED <<chain, rewards, rewardDB, failed, runs, events, serverID, faults, served, owed>>

\* A query for a block's events failed (updateInner).
LoseEvent(s) ==
    /\ Fault
    /\ events' = events \ {s}
    /\ UNCHANGED <<chain, rewards, rewardDB, failed, runs, mempool, serverID, served, owed>>

\* The process stops and starts: restoreRewardsFromDB.
Restart ==
    LET restored == {p \in rewardDB : p.sess.epoch >= Earliest(chain)}
    IN  /\ Fault
        /\ rewards' = restored
        /\ rewardDB' = restored
        /\ failed' = {}
        /\ runs' = [g \in Runners |-> Idle]
        /\ mempool' = {[tx EXCEPT !.by = Nobody] : tx \in mempool}
        /\ serverID' = serverID + 1
        /\ owed' = owed \cap SessionsOf(restored)
        /\ events' = {}
        /\ UNCHANGED <<chain, served>>

-----------------------------------------------------------------------------
Serving == \E s \in Sessions, cu \in Cus : SendNewProof(s, cu) \/ SendLateProof(s, cu)
ClaimStep(g) == GatherFailed(g) \/ GatherRewards(g) \/ Broadcast(g) \/ SimulationFails(g)

Next ==
    \/ Serving
    \/ SaveRewardsSnapshotToDB
    \/ \E g \in Runners : ClaimStep(g) \/ NextEpoch(g) \/ SlowClaim(g)
                       \/ QueryFails(g) \/ SendFails(g)
    \/ \E tx \in mempool : Include(tx) \/ CommitTimeout(tx) \/ LoseTransaction(tx)
    \/ \E s \in events : PaymentHandler(s) \/ LoseEvent(s)
    \/ Restart

Spec == Init /\ [][Next]_vars

-----------------------------------------------------------------------------
\* No session is paid twice, whatever is restored, retried, claimed by two
\* goroutines at once or included late: IsDoubleSpend finds the payment until
\* the epoch itself can no longer be claimed (but see Once).
PaidOnce == Once(chain)

\* A payment is never credited with more than what was served and what the
\* badge allows, in whatever order and company the relays of an epoch arrive.
CreditWithinLimits == WithinServed(chain) /\ WithinAllocation(chain)

\* A proof that survived is never mislaid: as long as its session is unpaid and
\* the chain would still pay it, some later step of the server sends it.
InHand == SessionsOf(rewards) \cup SessionsOf(failed) \cup UNION {SessionsOf(runs[g].batch) : g \in Runners}
NothingMislaid ==
    \A s \in owed : chain.paid[s] = 0 /\ s.epoch >= Earliest(chain) => s \in InHand

\* What was served up to epoch e is covered by the consumers' months and by the badges.
ServedTo(ss) == MapThenSumSet(LAMBDA s : served[s], ss)
Covered(e) ==
    LET before == {s \in Sessions : s.epoch <= e}
    IN  /\ \A c \in Consumers : ServedTo({s \in before : s.consumer = c}) <= MonthCu
        /\ \A b \in Badges : ServedTo({s \in before : s.badge = b}) <= CuAllocation

\* Without a fault, a session that was served is paid in the epoch in which it is
\* claimed, as long as all that was served up to its epoch is covered (one consumer
\* without CU, or one badge beyond its allocation, fails the whole claim): what is
\* served later and is not covered cannot delay it.
PaidInTime ==
    faults = 0 => \A s \in Sessions :
        served[s] > 0 /\ chain.now > s.epoch + Distance /\ Covered(s.epoch) => chain.paid[s] > 0
=============================================================================
