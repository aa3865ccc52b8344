---------------------------- MODULE FixationStore ----------------------------
(***************************************************************************)
(* One index of a fixation store under the calls its users make: versions  *)
(* appended, deleted, referenced and put back at the blocks a user of the  *)
(* store may name, with the store's timers firing between the blocks.      *)
(***************************************************************************)
EXTENDS Fixation

CONSTANTS
    MaxRefs,        \* bound: references a user holds on one version
    Data,           \* what users store: opaque to the store
    AppendBlocks,   \* [Blocks -> SUBSET Targets]: where users append, by current block
    DeleteBlocks    \* [Blocks -> SUBSET Targets]: where users delete, by current block

ASSUME RefsAssumption == MaxRefs \in Nat
ASSUME UsersAssumption ==
    /\ AppendBlocks \in [Blocks -> SUBSET Targets]
    /\ DeleteBlocks \in [Blocks -> SUBSET Targets]

\* Where a user names block b: never before it, and only the start of the next
\* epoch beyond it, which stays the same until it comes (EpochStorage's
\* NextEpochForeseen).
Named(b) == AppendBlocks[b] \cup DeleteBlocks[b]
ASSUME NextEpochAssumption ==
    /\ \A b \in Blocks : \A x \in AppendBlocks[b] : x >= b
    /\ \A b \in Blocks : \A x \in DeleteBlocks[b] : x > b
    /\ \A b, c \in Blocks : b <= c =>
          \A x \in Named(b), y \in Named(c) : x > c /\ y > c => x = y

VARIABLES
    fs,     \* the store: entries, index status, timers, and whether the code panicked
    held    \* [Targets -> Nat]: references users got with GetEntry and did not put back

vars == <<fs, ctx, held>>

-----------------------------------------------------------------------------
Init ==
    /\ fs = EmptyStore
    /\ ctx = 1
    /\ held = [b \in Targets |-> 0]

\* Code of a user module runs: the tick of this block is over.
UserRuns == ~fs.panic /\ Due(fs) = {}

AppendVersion(b, d) ==
    /\ UserRuns
    /\ fs' = AppendEntry(fs, b, d)
    /\ UNCHANGED <<ctx, held>>

Modify(b, d) ==
    /\ UserRuns
    /\ b \in Versions(fs)
    /\ fs' = ModifyEntry(fs, b, d)
    /\ UNCHANGED <<ctx, held>>

Del(at) ==
    /\ UserRuns
    /\ fs' = DelEntry(fs, at)
    /\ UNCHANGED <<ctx, held>>

Get ==
    /\ UserRuns
    /\ LET b == Find(fs, ctx)
       IN  b # NoBlock /\ held[b] < MaxRefs /\ held' = [held EXCEPT ![b] = @ + 1]
    /\ fs' = GetEntry(fs)
    /\ UNCHANGED ctx

\* A user puts back a reference it holds.
Put(b) ==
    /\ UserRuns
    /\ held[b] > 0
    /\ fs' = PutReference(fs, b)
    /\ held' = [held EXCEPT ![b] = @ - 1]
    /\ UNCHANGED ctx

\* The first due timer fires.
FireTimer(t) ==
    /\ ~fs.panic
    /\ \A u \in Due(fs) : NotLater(t, u)
    /\ fs' = Fire(fs, t)
    /\ UNCHANGED <<ctx, held>>

NewBlock ==
    /\ UserRuns
    /\ ctx < MaxBlock
    /\ ctx' = ctx + 1
    /\ UNCHANGED <<fs, held>>

Next ==
    \/ \E b \in AppendBlocks[ctx], d \in Data : AppendVersion(b, d)
    \/ \E b \in Versions(fs), d \in Data : Modify(b, d)
    \/ \E b \in DeleteBlocks[ctx] : Del(b)
    \/ Get
    \/ \E b \in Targets : Put(b)
    \/ \E t \in Due(fs) : FireTimer(t)
    \/ NewBlock

Spec == Init /\ [][Next]_vars

-----------------------------------------------------------------------------
TypeOK ==
    /\ Versions(fs) \subseteq Targets
    /\ \A b \in Versions(fs) : fs.entries[b] \in Entries(Data)
    /\ fs.index \in {"absent", "live", "dead"}
    /\ fs.timers \subseteq Timer
    /\ fs.panic \in BOOLEAN
    /\ ctx \in Blocks
    /\ held \in [Targets -> Nat]

\* The states between two operations of users.
Settled == UserRuns

\* None of the consistency panics of the store is ever reached.
NoPanic == ~fs.panic

\* Refcount (state invariants of fixationstore.go): the references users hold,
\* plus one for the latest version and for each future version.
RefcountExact ==
    Settled => \A b \in Versions(fs) :
        fs.entries[b].refcount = held[b] + (IF fs.entries[b].latest \/ b > ctx THEN 1 ELSE 0)

\* Whoever holds a reference to a version can still look it up.
HeldIsFound == Settled => \A b \in Targets : held[b] > 0 => Find(fs, b) = b

\* References keep a version alive and nothing else does.
References == RefcountExact /\ HeldIsFound

\* The latest mark is on the newest version in effect, and on no other.
LatestIsNewest ==
    Settled => \A b \in Versions(fs) : fs.entries[b].latest =>
        b <= ctx /\ \A c \in Versions(fs) : c <= ctx => c <= b

\* A pending delete is held by the newest version before it, no version lies
\* on or beyond it, and exactly the pending deletes have a delete timer.
DeletePending ==
    Settled =>
        /\ \A b \in Versions(fs) : LET at == fs.entries[b].deleteAt IN
             HasDeleteAt(fs.entries[b]) /\ at > ctx => \A c \in Versions(fs) : c <= b
        /\ {t \in fs.timers : t.kind = Delete} =
             {[at |-> fs.entries[b].deleteAt, kind |-> Delete, block |-> b] :
                b \in {c \in Versions(fs) : HasDeleteAt(fs.entries[c]) /\ fs.entries[c].deleteAt > ctx}}

\* Exactly the future versions wait for a future timer.
FuturePending ==
    Settled => {t.block : t \in {u \in fs.timers : u.kind = Future}} = {b \in Versions(fs) : b > ctx}

\* The index is listed as live exactly while a version is in effect or to come.
IndexLive ==
    Settled =>
        /\ fs.index = "absent" <=> Versions(fs) = {}
        /\ fs.index = "live" <=> \E b \in Versions(fs) : fs.entries[b].latest \/ b > ctx

\* Unreferenced versions are cleaned up: the oldest version is never one that
\* is already stale.
OldestNotStale == Settled /\ Versions(fs) # {} => Min(Versions(fs)) \notin StaleVersions(fs)

\* The state invariants of fixationstore.go: the marks of the versions, the index
\* and the timers agree with each other and with the block.
WellFormed ==
    TypeOK /\ LatestIsNewest /\ DeletePending /\ FuturePending /\ IndexLive /\ OldestNotStale

\* The past is fixed: what a lookup for a past block found may disappear
\* (deleted, stale) but never turns into another version, nor reappears.
PastIsFixed ==
    [][\A b \in Blocks : b < ctx => Find(fs, b)' \in {Find(fs, b), NoBlock}]_vars
=============================================================================
