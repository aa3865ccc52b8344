-------------------------- MODULE ProviderSession --------------------------
(***************************************************************************)
(* The provider's side of a relay: protocol/lavasession (the session       *)
(* manager, one project, its sessions) and the flow of rpcprovider_server  *)
(* through it, with the reward server's proof of each session.             *)
(*                                                                         *)
(* Every relay is served by a goroutine of its own, a member of Relays;    *)
(* its steps are the accesses to what the goroutines share.  A compare-    *)
(* and-swap loop on one counter is one step; one that also relies on       *)
(* another counter (SafeAddMissingComputeUnits) and a plain read-modify-   *)
(* write are a step that reads and one that writes.  Session objects are   *)
(* numbered as they are created and stay reachable by the relays that      *)
(* hold a pointer to them after the maps drop them; so are the counters of *)
(* the badge's user.  Every sum and difference is one of uint64 values.    *)
(*                                                                         *)
(* isBlockListed and isDataReliability are never set by the code and are   *)
(* left out, as are the subscriptions' own map and the guid of the lock.   *)
(***************************************************************************)
EXTENDS Integers, Sequences, FiniteSetsExt, Functions

CONSTANTS
    Relays,          \* goroutines serving relays
    SessionIds,
    Kinds,           \* subset of {"relay", "badge", "subscribe"}
    RelayNums,       \* relay numbers a consumer sends
    CuSums,          \* sums of CU a consumer sends
    RequestEpochs,   \* pairing epochs of the requests
    RestoredCus,     \* proofs the reward server may have loaded at the start
    CuFromSpec,      \* compute units of the api
    MaxComputeUnits, \* of the consumer in an epoch
    BadgeComputeUnits,
    AllowedMissing,  \* uint64(max * allowedMissingCUThreshold)
    VirtualEpoch,
    BlockDistance,   \* blockDistanceForEpochValidity, in epochs
    Word,            \* uint64 arithmetic is modulo Word
    MaxEpoch,        \* bound: epochs
    MaxRequests      \* bound: relays in a behaviour

ASSUME KindsAssumption == Kinds \subseteq {"relay", "badge", "subscribe"}
\* 0 stands for nobody.
ASSUME RelaysAssumption == IsFiniteSet(Relays) /\ 0 \notin Relays
\* All of these are uint64: what a consumer sends is not bounded further.
ASSUME CuAssumption ==
    /\ Word \in Nat \ {0}
    /\ CuFromSpec \in 1..(Word - 1)
    /\ {MaxComputeUnits, BadgeComputeUnits, AllowedMissing, VirtualEpoch} \subseteq 0..(Word - 1)
    /\ CuSums \cup RestoredCus \cup RelayNums \subseteq 0..(Word - 1)
ASSUME EpochAssumption ==
    BlockDistance \in Nat /\ MaxEpoch \in Nat /\ RequestEpochs \subseteq 1..MaxEpoch
ASSUME BoundAssumption == MaxRequests \in Nat

VARIABLES
    currentEpoch,
    blockedEpoch,   \* blockedEpochHeight
    registered,     \* epochs with the project in both of the manager's maps
    Sessions,       \* Sessions[<<epoch, id>>]: the object the project's map holds, or 0
    sps,            \* the SingleProviderSession objects
    used,           \* used[epoch]: UsedComputeUnits
    missing,        \* missing[epoch]: MissingComputeUnits
    badgeData,      \* badgeData[epoch]: the counter badgeEpochData holds for the badge's user, or 0
    badgeUsed,      \* UsedComputeUnits of every counter made for the badge's user
    proofs,         \* proofs[<<epoch, id>>]: CuSum of the stored proof, 0 without one
    relay,          \* relay[r]: the local state of a goroutine
    received,       \* relays received so far
    past            \* which unusual events have happened: see Events

manager == <<currentEpoch, blockedEpoch, registered>>
badges == <<badgeData, badgeUsed>>
counters == <<used, missing, badges>>
vars == <<manager, Sessions, sps, counters, proofs, relay, received, past>>

Keys == RequestEpochs \X SessionIds
Free == 0

\* "early": a relay let go of its session's lock and then called a function
\* that needs it; "raised": UpdateSessionCU raised a session's CuSum;
\* "fatal": the runtime stopped the process at an Unlock of an unlocked mutex;
\* "recreated": a session replaced another one of its id in the project's map;
\* "wrapped": a uint64 sum that decides about a relay passed the end of the word.
Events == {"early", "raised", "fatal", "recreated", "wrapped"}

Idle == [pc |-> "idle", kind |-> "relay", epoch |-> 0, id |-> 0, num |-> 0, cu |-> 0,
         badge |-> 0, obj |-> 0, total |-> 0, add |-> 0, old |-> 0]

Steps == {"idle", "get", "register", "again", "user", "newuser", "lookup", "create", "prepare",
          "missing", "missed", "charge", "badge", "apply", "write", "serve", "streaming", "fail",
          "undo", "disband", "proof", "update", "raise", "read", "bump"}

\* The steps at which a relay has its session for itself.
Holding == {"prepare", "missing", "missed", "charge", "badge", "apply", "write",
            "serve", "fail", "undo", "disband"}

Words == 0..(Word - 1)

SingleProviderSession ==
    [key: Keys, CuSum: Words, LatestRelayCu: Words, RelayNum: RelayNums \cup {0},
     lock: Relays \cup {Free}, badge: Nat]
Goroutine ==
    [pc: Steps, kind: Kinds \cup {"relay"}, epoch: RequestEpochs \cup {0}, id: SessionIds \cup {0},
     num: RelayNums \cup {0}, cu: CuSums \cup {0}, badge: Nat, obj: Nat,
     total: Words, add: Words, old: Words]

TypeOK ==
    /\ currentEpoch \in 0..MaxEpoch /\ blockedEpoch \in 0..MaxEpoch
    /\ registered \subseteq RequestEpochs
    /\ Sessions \in [Keys -> 0..Len(sps)]
    /\ sps \in Seq(SingleProviderSession)
    /\ {used, missing} \subseteq [RequestEpochs -> Words]
    /\ badgeUsed \in Seq(Words) /\ badgeData \in [RequestEpochs -> 0..Len(badgeUsed)]
    /\ \A o \in 1..Len(sps) : sps[o].badge <= Len(badgeUsed)
    /\ proofs \in [Keys -> CuSums \cup RestoredCus]
    /\ relay \in [Relays -> Goroutine]
    /\ \A r \in Relays : relay[r].obj <= Len(sps) /\ relay[r].badge <= Len(badgeUsed)
    /\ \A r \in Relays : relay[r].pc # "idle" =>
         /\ relay[r].kind \in Kinds /\ <<relay[r].epoch, relay[r].id>> \in Keys
         /\ relay[r].num \in RelayNums /\ relay[r].cu \in CuSums
    /\ received \in 0..MaxRequests
    /\ past \subseteq Events

\* What UpdateEpoch(e) leaves in blockedEpochHeight.
BlockedAt(e) == IF e > BlockDistance THEN e - BlockDistance ELSE 0

\* Registering for epoch updates tells the manager the chain's epoch before
\* any relay is served.
Init ==
    /\ currentEpoch \in 1..MaxEpoch /\ blockedEpoch = BlockedAt(currentEpoch)
    /\ registered = {}
    /\ Sessions = [k \in Keys |-> 0]
    /\ sps = <<>>
    /\ used = [e \in RequestEpochs |-> 0]
    /\ missing = [e \in RequestEpochs |-> 0]
    /\ badgeData = [e \in RequestEpochs |-> 0] /\ badgeUsed = <<>>
    /\ proofs \in [Keys -> RestoredCus]
    /\ relay = [r \in Relays |-> Idle]
    /\ received = 0
    /\ past = {}
-----------------------------------------------------------------------------
(* The session manager. *)

IsValidEpoch(e) == e > blockedEpoch

At(r, pc) == "fatal" \notin past /\ relay[r].pc = pc
Key(r) == <<relay[r].epoch, relay[r].id>>
Session(r) == sps[relay[r].obj]

Plus(a, b) == (a + b) % Word
SignedMinus(a, b) == a - b
Minus(a, b) == (a - b) % Word

\* The event of a sum that does not fit into a word.
Overflow(n) == IF n < Word THEN {} ELSE {"wrapped"}

\* Control of r moves to pc; an idle goroutine forgets its request.
Goto(r, pc) ==
    relay' = [relay EXCEPT ![r] = IF pc = "idle" THEN Idle ELSE [@ EXCEPT !.pc = pc]]

\* A relay arrives: the request's fields are the consumer's.
Receive(r) ==
    /\ At(r, "idle")
    /\ received < MaxRequests
    /\ \E kind \in Kinds, k \in Keys, n \in RelayNums, c \in CuSums :
         relay' = [relay EXCEPT ![r] = [Idle EXCEPT !.pc = "get", !.kind = kind,
                     !.epoch = k[1], !.id = k[2], !.num = n, !.cu = c]]
    /\ received' = received + 1
    /\ UNCHANGED <<manager, Sessions, sps, counters, proofs, past>>

\* GetSession up to the project: the epoch, the consumer's project, the
\* project's data.  An unknown consumer is registered, once.
GetSession(r) ==
    /\ At(r, "get") \/ At(r, "again")
    /\ Goto(r, IF ~IsValidEpoch(relay[r].epoch) THEN "idle"
               ELSE IF relay[r].epoch \in registered
               THEN IF relay[r].kind = "badge" THEN "user" ELSE "lookup"
               ELSE IF relay[r].pc = "get" THEN "register" ELSE "idle")
    /\ UNCHANGED <<manager, Sessions, sps, counters, proofs, received, past>>

\* VerifyPairing or GetMaxCuForUser fails, or the consumer is not paired.
NotPaired(r) ==
    /\ At(r, "register")
    /\ Goto(r, "idle")
    /\ UNCHANGED <<manager, Sessions, sps, counters, proofs, received, past>>

\* RegisterProviderSessionWithConsumer up to its second GetSession.
registerNewConsumer(r) ==
    /\ At(r, "register")
    /\ IF IsValidEpoch(relay[r].epoch)
       THEN Goto(r, "again") /\ registered' = registered \cup {relay[r].epoch}
       ELSE Goto(r, "idle") /\ UNCHANGED registered
    /\ UNCHANGED <<currentEpoch, blockedEpoch, Sessions, sps, counters, proofs, received, past>>

\* The counter of the badge's user is looked up under the read lock ...
getBadgeEpochData(r) ==
    /\ At(r, "user")
    /\ LET c == badgeData[relay[r].epoch] IN
         IF c = 0 THEN Goto(r, "newuser")
         ELSE relay' = [relay EXCEPT ![r].pc = "lookup", ![r].badge = c]
    /\ UNCHANGED <<manager, Sessions, sps, counters, proofs, received, past>>

\* ... and a new one is stored under the write lock, whatever the map holds by now.
registerBadgeEpochData(r) ==
    /\ At(r, "newuser")
    /\ badgeUsed' = Append(badgeUsed, 0)
    /\ badgeData' = [badgeData EXCEPT ![relay[r].epoch] = Len(badgeUsed')]
    /\ relay' = [relay EXCEPT ![r].pc = "lookup", ![r].badge = Len(badgeUsed')]
    /\ UNCHANGED <<manager, Sessions, sps, used, missing, proofs, received, past>>

NeverTaken(o, n) == FALSE
RelayNumTaken(o, n) == Plus(o.RelayNum, 1) > n

\* r has just locked object o of the sequence: the number of the relay is
\* checked, and the session is kept or let go.
KeepLocked(r, objects, o) ==
    /\ sps' = [objects EXCEPT ![o].lock = r]
    /\ IF RelayNumTaken(objects[o], relay[r].num) THEN Goto(r, "idle")
       ELSE relay' = [relay EXCEPT ![r].pc = "prepare", ![r].obj = o]
Keep(r, objects, o) ==
    IF RelayNumTaken(objects[o], relay[r].num)
    THEN Goto(r, "idle") /\ sps' = objects
    ELSE /\ relay' = [relay EXCEPT ![r].pc = "prepare", ![r].obj = o]
         /\ sps' = [objects EXCEPT ![o].lock = r,
                      ![o].badge = IF relay[r].badge # 0 THEN relay[r].badge ELSE @]

\* The session the maps hold, once its lock is free.
getExistingSession(r) ==
    /\ At(r, "lookup")
    /\ LET o == Sessions[Key(r)] IN
         IF o = 0 THEN Goto(r, "create") /\ UNCHANGED <<sps, past>>
         ELSE /\ sps[o].lock = Free /\ Keep(r, sps, o)
              /\ past' = past \cup Overflow(sps[o].RelayNum + 1)
    /\ UNCHANGED <<manager, Sessions, counters, proofs, received>>

\* All of the TRY_LOCK_ATTEMPTS found the session locked.
tryLockForUseFails(r) ==
    /\ At(r, "lookup")
    /\ Sessions[Key(r)] # 0 /\ sps[Sessions[Key(r)]].lock # Free
    /\ Goto(r, "idle")
    /\ UNCHANGED <<manager, Sessions, sps, counters, proofs, received, past>>

NewSession(k) ==
    [key |-> k, CuSum |-> 0, LatestRelayCu |-> 0, RelayNum |-> 0, lock |-> Free, badge |-> 0]

\* The map is written whatever it holds by now.
createNewSingleProviderSession(r) ==
    /\ At(r, "create")
    /\ Sessions' = [Sessions EXCEPT ![Key(r)] = Len(sps) + 1]
    /\ Keep(r, Append(sps, NewSession(Key(r))), Len(sps) + 1)
    /\ past' = past \cup IF Sessions[Key(r)] = 0 THEN {} ELSE {"recreated"}
    /\ UNCHANGED <<manager, counters, proofs, received>>

\* The manager learns of a new epoch and drops the ones that are too old.
UpdateEpoch(e) ==
    /\ "fatal" \notin past
    /\ e > blockedEpoch /\ e > currentEpoch
    /\ blockedEpoch' = BlockedAt(e)
    /\ currentEpoch' = e
    /\ registered' = {x \in registered : x > blockedEpoch'}
    /\ UNCHANGED <<Sessions, sps, counters, proofs, relay, received, past>>
-----------------------------------------------------------------------------
(* A single session, from PrepareSessionForUsage to its release. *)

LimitOneMore == (MaxComputeUnits * (VirtualEpoch + 1) + 1) % Word
Limit == (MaxComputeUnits * (VirtualEpoch + 1)) % Word
\* The badge's user has the least of the project's CU and the badge's allocation.
BadgeLimit == (Min({MaxComputeUnits, BadgeComputeUnits}) * (VirtualEpoch + 1)) % Word

\* What is left of a session object when it is unlocked.
Unlocked(o) == [o EXCEPT !.lock = Free]

\* The message cannot be parsed, or the lock that PrepareSessionForUsage
\* verifies is free: DisbandSession is next.
CannotPrepare(r) ==
    /\ At(r, "prepare")
    /\ Goto(r, "disband")
    /\ UNCHANGED <<manager, Sessions, sps, counters, proofs, received, past>>

\* The consumer pays for all of the relay: total is the sum it sent.  It
\* pays for a part: the rest is missing.  It pays nothing: all of it is, and
\* total is the session's own sum.
PrepareSessionForUsage(r) ==
    /\ At(r, "prepare")
    /\ Session(r).lock # Free
    /\ LET cu == relay[r].cu
           sum == Session(r).CuSum IN
         relay' = [relay EXCEPT ![r] =
                     IF cu >= Plus(sum, CuFromSpec) THEN [@ EXCEPT !.pc = "charge", !.total = cu]
                     ELSE IF cu > sum
                     THEN [@ EXCEPT !.pc = "missing", !.total = cu, !.add = Minus(Plus(CuFromSpec, sum), cu)]
                     ELSE [@ EXCEPT !.pc = "missing", !.total = sum, !.add = CuFromSpec]]
    /\ past' = past \cup Overflow(Session(r).CuSum + CuFromSpec)
    /\ UNCHANGED <<manager, Sessions, sps, counters, proofs, received>>

MayMiss(m, u) ==
    /\ Plus(m, u) <= MaxComputeUnits
    /\ m <= AllowedMissing
    /\ m <= u

\* SafeAddMissingComputeUnits: what is missing and what is used are read ...
ReadMissing(r) ==
    /\ At(r, "missing")
    /\ LET e == relay[r].epoch IN
         IF MayMiss(Plus(missing[e], relay[r].add), used[e])
         THEN relay' = [relay EXCEPT ![r].pc = "missed", ![r].old = missing[e]]
         ELSE Goto(r, "disband")
    /\ UNCHANGED <<manager, Sessions, sps, counters, proofs, received, past>>

\* ... and the sum is written if nothing was added in between.
AddMissingBlindly(r) ==
    /\ At(r, "missed")
    /\ missing' = [missing EXCEPT ![relay[r].epoch] = Plus(@, relay[r].add)]
    /\ Goto(r, "charge")
    /\ UNCHANGED <<manager, Sessions, sps, used, badges, proofs, received, past>>
AddMissing(r) ==
    /\ At(r, "missed")
    /\ LET e == relay[r].epoch IN
         IF missing[e] = relay[r].old
         THEN missing' = [missing EXCEPT ![e] = Plus(@, relay[r].add)] /\ Goto(r, "charge")
         ELSE Goto(r, "missing") /\ UNCHANGED missing
    /\ UNCHANGED <<manager, Sessions, sps, used, badges, proofs, received, past>>

validateAndAddUsedCU(r) ==
    /\ At(r, "charge")
    /\ LET e == relay[r].epoch
           cuToAdd == Minus(relay[r].total, Session(r).CuSum) IN
         IF Plus(used[e], cuToAdd) > Limit
         THEN Goto(r, "disband") /\ UNCHANGED <<used, past>>
         ELSE /\ used' = [used EXCEPT ![e] = Plus(@, cuToAdd)]
              /\ relay' = [relay EXCEPT ![r].add = cuToAdd,
                             ![r].pc = IF Session(r).badge # 0 THEN "badge" ELSE "apply"]
              /\ past' = past \cup Overflow(used[e] + cuToAdd)
    /\ UNCHANGED <<manager, Sessions, sps, missing, badges, proofs, received>>

\* Refused, the session is unlocked here and the parent keeps the CU; the
\* deferred DisbandSession follows.
validateAndAddBadgeUsedCU(r) ==
    /\ At(r, "badge")
    /\ LET c == Session(r).badge IN
         IF Plus(badgeUsed[c], relay[r].add) > BadgeLimit
         THEN /\ sps' = [sps EXCEPT ![relay[r].obj] = Unlocked(@)]
              /\ past' = past \cup {"early"} \cup IF Session(r).lock = Free THEN {"fatal"} ELSE {}
              /\ Goto(r, "disband") /\ UNCHANGED badgeUsed
         ELSE /\ badgeUsed' = [badgeUsed EXCEPT ![c] = Plus(@, relay[r].add)]
              /\ past' = past \cup Overflow(badgeUsed[c] + relay[r].add)
              /\ Goto(r, "apply") /\ UNCHANGED sps
    /\ UNCHANGED <<manager, Sessions, used, missing, badgeData, proofs, received>>

\* The end of PrepareSessionForUsage: LatestRelayCu, then CuSum += cuToAdd.
ReadCuSum(r) ==
    /\ At(r, "apply")
    /\ sps' = [sps EXCEPT ![relay[r].obj].LatestRelayCu = relay[r].add]
    /\ relay' = [relay EXCEPT ![r].pc = "write", ![r].old = Session(r).CuSum]
    /\ UNCHANGED <<manager, Sessions, counters, proofs, received, past>>

WriteCuSum(r) ==
    /\ At(r, "write")
    /\ sps' = [sps EXCEPT ![relay[r].obj].CuSum = Plus(relay[r].old, relay[r].add)]
    /\ Goto(r, "serve")
    /\ UNCHANGED <<manager, Sessions, counters, proofs, received, past>>

\* The error path of initRelay.  A session that is found unlocked, or in use,
\* is left as it is.
DisbandSession(r) ==
    /\ At(r, "disband")
    /\ sps' = IF Session(r).LatestRelayCu # 0 THEN sps
              ELSE [sps EXCEPT ![relay[r].obj] = Unlocked(@)]
    /\ Goto(r, "idle")
    /\ UNCHANGED <<manager, Sessions, counters, proofs, received, past>>

\* What onSessionDone leaves of an object that is locked.
DoneTakingBack(o, n) == [Unlocked(o) EXCEPT !.RelayNum = n, !.CuSum = @ - o.LatestRelayCu, !.LatestRelayCu = 0]
Done(o, n) == [Unlocked(o) EXCEPT !.RelayNum = n, !.LatestRelayCu = 0]

onSessionDone(r) ==
    sps' = IF Session(r).lock = Free THEN sps
           ELSE [sps EXCEPT ![relay[r].obj] = Done(@, relay[r].num)]

IsPayingRelay(o) == o.LatestRelayCu > 0

\* The node answered in time: a relay that pays is worth a proof.
RelayDone(r) ==
    /\ At(r, "serve") /\ relay[r].kind # "subscribe"
    /\ onSessionDone(r)
    /\ Goto(r, IF Session(r).lock # Free /\ IsPayingRelay(Session(r)) THEN "proof" ELSE "idle")
    /\ UNCHANGED <<manager, Sessions, counters, proofs, received, past>>

\* TryRelay fails or is late, or the node could not be asked to subscribe.
RelayFailed(r) ==
    /\ At(r, "serve")
    /\ Goto(r, "fail")
    /\ UNCHANGED <<manager, Sessions, sps, counters, proofs, received, past>>

\* The node refused to subscribe: the session is done, the proof is sent.
SubscribeRefused(r) ==
    /\ At(r, "serve") /\ relay[r].kind = "subscribe"
    /\ onSessionDone(r)
    /\ Goto(r, "proof")
    /\ UNCHANGED <<manager, Sessions, counters, proofs, received, past>>

\* ReleaseSessionAndCreateSubscription, its first half.
ReleaseSession(r) ==
    /\ At(r, "serve") /\ relay[r].kind = "subscribe"
    /\ onSessionDone(r)
    /\ Goto(r, IF Session(r).lock = Free THEN "fail" ELSE "streaming")
    /\ UNCHANGED <<manager, Sessions, counters, proofs, received, past>>

\* At least one message of the subscription reached the consumer.
Subscribed(r) ==
    /\ At(r, "streaming")
    /\ Goto(r, "proof")
    /\ UNCHANGED <<manager, Sessions, sps, counters, proofs, received, past>>

\* The subscription could not be stored, or it ended before a message was
\* sent: OnSessionFailure is called on the session that was released.
SubscribeFailed(r) ==
    /\ At(r, "streaming")
    /\ Goto(r, "fail")
    /\ past' = past \cup {"early"}
    /\ UNCHANGED <<manager, Sessions, sps, counters, proofs, received>>

\* In an epoch that was dropped meanwhile only the lock is released.
OnSessionFailure(r) ==
    /\ At(r, "fail")
    /\ IF ~IsValidEpoch(relay[r].epoch) THEN onSessionDone(r) /\ Goto(r, "idle")
       ELSE IF Session(r).lock = Free THEN Goto(r, "idle") /\ UNCHANGED sps
       ELSE relay' = [relay EXCEPT ![r].pc = "undo", ![r].old = Session(r).CuSum] /\ UNCHANGED sps
    /\ UNCHANGED <<manager, Sessions, counters, proofs, received, past>>

\* What a failure leaves of an object.
UndoneKeepingSum(o, sum) == [Unlocked(o) EXCEPT !.LatestRelayCu = 0]
Undone(o, sum) == [Unlocked(o) EXCEPT !.CuSum = Minus(sum, o.LatestRelayCu), !.LatestRelayCu = 0]

onSessionFailure(r) ==
    /\ At(r, "undo")
    /\ LET c == Session(r).badge
           cu == Session(r).LatestRelayCu IN
         /\ sps' = [sps EXCEPT ![relay[r].obj] = Undone(@, relay[r].old)]
         /\ used' = [used EXCEPT ![relay[r].epoch] = Minus(@, cu)]
         /\ badgeUsed' = IF c = 0 THEN badgeUsed ELSE [badgeUsed EXCEPT ![c] = Minus(@, cu)]
    /\ past' = past \cup IF Session(r).lock = Free THEN {"fatal"} ELSE {}
    /\ Goto(r, "idle")
    /\ UNCHANGED <<manager, Sessions, missing, badgeData, proofs, received>>
-----------------------------------------------------------------------------
(* The proof of a served relay, in a goroutine that outlives the relay. *)

\* SendNewProof: the reward server keeps the proof with the highest sum.
Stored(k, cu) == [proofs EXCEPT ![k] = Max({@, cu})]

\* SendProof: when the reward server has a higher proof the session is told.
SendProof(r) ==
    /\ At(r, "proof")
    /\ LET stored == proofs[Key(r)] IN
         /\ proofs' = Stored(Key(r), relay[r].cu)
         /\ IF stored > relay[r].cu
            THEN relay' = [relay EXCEPT ![r].pc = "update", ![r].total = stored]
            ELSE Goto(r, "idle")
    /\ UNCHANGED <<manager, Sessions, sps, counters, received, past>>

\* UpdateSessionCU: the session of the maps is looked up and its sum read; the
\* sum is written; the parent's used CU are read, then written.
UpdateSessionCU(r) ==
    /\ At(r, "update")
    /\ LET o == Sessions[Key(r)] IN
         IF /\ IsValidEpoch(relay[r].epoch) /\ relay[r].epoch \in registered
            /\ o # 0 /\ relay[r].total > sps[o].CuSum
         THEN relay' = [relay EXCEPT ![r].pc = "raise", ![r].obj = o, ![r].old = sps[o].CuSum]
         ELSE Goto(r, "idle")
    /\ UNCHANGED <<manager, Sessions, sps, counters, proofs, received, past>>

writeCuSumAtomically(r) ==
    /\ At(r, "raise")
    /\ sps' = [sps EXCEPT ![relay[r].obj].CuSum = relay[r].total]
    /\ past' = past \cup {"raised"}
    /\ Goto(r, "read")
    /\ UNCHANGED <<manager, Sessions, counters, proofs, received>>

atomicReadUsedComputeUnits(r) ==
    /\ At(r, "read")
    /\ relay' = [relay EXCEPT ![r].pc = "bump", ![r].add = used[relay[r].epoch]]
    /\ UNCHANGED <<manager, Sessions, sps, counters, proofs, received, past>>

atomicWriteUsedComputeUnits(r) ==
    /\ At(r, "bump")
    /\ used' = [used EXCEPT ![relay[r].epoch] =
                  Plus(relay[r].add, Minus(relay[r].total, relay[r].old))]
    /\ Goto(r, "idle")
    /\ UNCHANGED <<manager, Sessions, sps, missing, badges, proofs, received, past>>
-----------------------------------------------------------------------------
Lookup(r) ==
    \/ Receive(r) \/ GetSession(r) \/ NotPaired(r) \/ registerNewConsumer(r)
    \/ getBadgeEpochData(r) \/ registerBadgeEpochData(r)
    \/ getExistingSession(r) \/ tryLockForUseFails(r) \/ createNewSingleProviderSession(r)

Prepare(r) ==
    \/ CannotPrepare(r) \/ PrepareSessionForUsage(r) \/ ReadMissing(r) \/ AddMissing(r)
    \/ validateAndAddUsedCU(r) \/ validateAndAddBadgeUsedCU(r) \/ ReadCuSum(r)
    \/ WriteCuSum(r) \/ DisbandSession(r)

Serve(r) ==
    \/ RelayDone(r) \/ RelayFailed(r) \/ SubscribeRefused(r) \/ ReleaseSession(r)
    \/ Subscribed(r) \/ SubscribeFailed(r) \/ OnSessionFailure(r) \/ onSessionFailure(r)

Prove(r) ==
    \/ SendProof(r) \/ UpdateSessionCU(r) \/ writeCuSumAtomically(r)
    \/ atomicReadUsedComputeUnits(r) \/ atomicWriteUsedComputeUnits(r)

Next ==
    \/ \E r \in Relays : Lookup(r) \/ Prepare(r) \/ Serve(r) \/ Prove(r)
    \/ \E e \in 1..MaxEpoch : UpdateEpoch(e)

Spec == Init /\ [][Next]_vars
-----------------------------------------------------------------------------
\* "singleProviderSession is locked at this point" (GetSession), and nobody
\* else has it: a session is locked by the relay that uses it and, once that
\* relay has ended, by nobody.
SessionLocked ==
    \A o \in 1..Len(sps), r \in Relays :
        (relay[r].pc \in Holding /\ relay[r].obj = o) <=> sps[o].lock = r

\* No refused badge and no failed subscription has let go of a session that
\* its relay goes on to use: then the locks are exact.
Exclusive == "early" \notin past => SessionLocked

\* What the sessions of an epoch have been charged, and what relays have charged
\* to their parent and not yet added to their session.
SessionCu(e) == [o \in 1..Len(sps) |-> IF sps[o].key[1] = e THEN sps[o].CuSum ELSE 0]
PendingCu(e) ==
    [r \in Relays |-> IF relay[r].epoch = e /\ relay[r].pc \in {"badge", "apply", "write"}
                      THEN relay[r].add ELSE 0]

\* The parent's used CU are the sums of all its sessions, whether the maps
\* still hold them or not, and what relays have charged and not yet added: to
\* the word, whatever sums the consumer sends and however often they wrap.
UsedAccounted ==
    past \subseteq {"recreated", "wrapped"} => \A e \in RequestEpochs :
        used[e] = (SumFunction(SessionCu(e)) + SumFunction(PendingCu(e))) % Word

\* No lock was given up early, no sum was raised behind a relay's back, and no
\* sum has passed the end of its word.
Sound == past \subseteq {"recreated"}

\* However relays interleave, a consumer never gets more than its CU of an
\* epoch, nor a counter of its badge's user more than the badge's.
WithinLimit ==
    Sound => /\ \A e \in RequestEpochs : used[e] <= MaxComputeUnits * (VirtualEpoch + 1)
             /\ \A c \in 1..Len(badgeUsed) : badgeUsed[c] <= BadgeComputeUnits * (VirtualEpoch + 1)

\* The CU a consumer may leave unpaid are bounded, whatever happens.
MissingBounded == \A e \in RequestEpochs : missing[e] <= AllowedMissing

\* The relay number that GetSession compares the next relay of a session with.
Number(k) == IF Sessions[k] = 0 THEN 0 ELSE sps[Sessions[k]].RelayNum

\* Relay r, of session k, completes: the node's answer goes to the consumer.
Completes(r, k) == Key(r) = k /\ relay[r].pc = "serve" /\ relay'[r].pc \notin {"serve", "fail"}

\* The number of a session never falls, and a relay that completes raises it
\* to its own: in the project's map, not only in the object the relay has.
NumbersRise ==
    /\ \A k \in Keys : Number(k)' >= Number(k)
    /\ \A r \in Relays, k \in Keys :
         Completes(r, k) => relay[r].num > Number(k) /\ Number(k)' = relay[r].num

\* A relay number of a session is served at most once: until a session is
\* unlocked early, replaced by another one of its id, or past the last number.
ServedOnce ==
    [][past' \cap {"early", "recreated", "wrapped"} = {} => NumbersRise]_vars

\* What the provider claims for a session it has counted: a proof was loaded
\* at the start or is covered by the sum of a session with its id.
ProofCovered ==
    Sound => \A k \in Keys : proofs[k] \in RestoredCus
        \/ \E o \in 1..Len(sps) : sps[o].key = k /\ proofs[k] <= sps[o].CuSum
=============================================================================
