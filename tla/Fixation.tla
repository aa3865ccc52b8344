------------------------------ MODULE Fixation ------------------------------
(***************************************************************************)
(* x/fixationstore: versioned entries with reference counts.  A version    *)
(* is identified by its block; it is in effect from that block until the   *)
(* next version's.  A store record s holds one index: the code keeps the   *)
(* versions, the status and the timers of every index apart and no         *)
(* operation reads those of another index.                                 *)
(*                                                                         *)
(* Handlers call each other and finish in one transaction or callback, so  *)
(* each function of the code is an operator from the record to the record  *)
(* it leaves; the modules that own a store apply them in their actions.    *)
(* Timers are those of x/timerstore (see TimerStore): they fire one at a   *)
(* time, at the start of the block of their expiry, in the order of their  *)
(* keys.                                                                   *)
(***************************************************************************)
EXTENDS Integers, FiniteSets, FiniteSetsExt, Functions

CONSTANTS
    MaxBlock,       \* bound: the last block height
    StaleBlocks     \* getStaleBlocks

Blocks  == 1..MaxBlock
Targets == 1..(2 * MaxBlock)

ASSUME BlockAssumption == MaxBlock \in Nat \ {0}
\* epochstorage.BlocksToSaveRaw: never zero (a timer may not expire at once).
ASSUME StaleAssumption == StaleBlocks \in Nat \ {0}

VARIABLE ctx    \* ctx.BlockHeight()

\* math.MaxUint64, as StaleAt or DeleteAt.
Never == 4 * MaxBlock + StaleBlocks

NoBlock == 0

Future == 1     \* timerFutureEntry
Delete == 2     \* timerDeleteEntry
Stale  == 3     \* timerStaleEntry

Timer == [at: Nat, kind: {Future, Delete, Stale}, block: Targets]
Entries(D) == [staleAt: Nat, deleteAt: Nat, latest: BOOLEAN, refcount: Nat, data: D]

EmptyStore == [entries |-> <<>>, index |-> "absent", timers |-> {}, panic |-> FALSE]

\* The order of encodeForTimer's keys after the expiry: kind, then version.
NotLater(t, u) ==
    \/ t.at < u.at
    \/ t.at = u.at /\ t.kind < u.kind
    \/ t.at = u.at /\ t.kind = u.kind /\ t.block <= u.block

-----------------------------------------------------------------------------
(* Predicates on an entry (fixation.go). *)

IsStaleBy(e, block)   == e.refcount = 0 /\ e.staleAt <= block
IsDeletedBy(e, block) == e.deleteAt <= block
HasDeleteAt(e)        == e.deleteAt < Never

(* Operators on the store. *)

Versions(s)       == DOMAIN s.entries
Due(s)            == {t \in s.timers : t.at <= ctx}
Panic(s)          == [s EXCEPT !.panic = TRUE]
SetEntry(s, b, e) ==
    [s EXCEPT !.entries = [x \in DOMAIN @ \cup {b} |-> IF x = b THEN e ELSE s.entries[x]]]
SetIndex(s, v)    == [s EXCEPT !.index = v]

AddTimer(s, at, kind, b) ==
    IF at <= ctx THEN Panic(s)
    ELSE [s EXCEPT !.timers = @ \cup {[at |-> at, kind |-> kind, block |-> b]}]

DelTimer(s, at, kind, b) ==
    LET t == [at |-> at, kind |-> kind, block |-> b]
    IN  IF t \in s.timers THEN [s EXCEPT !.timers = @ \ {t}] ELSE Panic(s)

\* getUnmarshaledEntryForBlock: the nearest-no-later version, unless that one
\* is a stale marker; NoBlock when there is none.
Nearest(s, block) ==
    LET candidates == {b \in Versions(s) : b <= block}
    IN  IF candidates = {} THEN NoBlock
        ELSE LET b == Max(candidates)
             IN  IF IsStaleBy(s.entries[b], ctx) /\ ~IsDeletedBy(s.entries[b], block)
                 THEN NoBlock ELSE b

\* FindEntry: the version a lookup for the block resolves to, or NoBlock.
Find(s, block) ==
    LET b == Nearest(s, block)
    IN  IF b # NoBlock /\ ~IsDeletedBy(s.entries[b], block) THEN b ELSE NoBlock

\* putFutureEntry for a set of versions: each must have its future timer.
CancelKeepingTimer(s, bs) ==
    [s EXCEPT !.entries = Restrict(@, Versions(s) \ bs),
              !.index = IF Versions(s) \subseteq bs THEN "absent" ELSE @]
CancelFuture(s, bs) ==
    LET own == {[at |-> b, kind |-> Future, block |-> b] : b \in bs}
        rest == Restrict(s.entries, Versions(s) \ bs)
    IN  IF bs = {} THEN s
        ELSE IF ~(own \subseteq s.timers) THEN Panic(s)
        ELSE [s EXCEPT !.timers = @ \ own, !.entries = rest,
                       !.index = IF DOMAIN rest = {} THEN "absent" ELSE @]

\* putEntry, of the version b whose record (perhaps already modified) is e.
PutEntry(s, b, e) ==
    LET d == [e EXCEPT !.refcount = @ - 1]
    IN  IF e.refcount = 0 THEN Panic(s)
        ELSE IF d.refcount > 0 THEN SetEntry(s, b, d)
        ELSE IF b > ctx THEN CancelFuture(s, {b})
        ELSE SetEntry(AddTimer(s, ctx + StaleBlocks, Stale, b), b,
                      [d EXCEPT !.staleAt = ctx + StaleBlocks])

\* The last part of AppendEntry: version b is created after version prev
\* (NoBlock or deleted when first), and takes over its latest mark and its
\* pending delete.
SupersedeKeepingDelete(s, b, d, prev, first) ==
    LET indexed == IF first THEN SetIndex(s, "live") ELSE s
        started == IF b > ctx THEN AddTimer(indexed, b, Future, b)
                   ELSE IF prev # NoBlock /\ s.entries[prev].latest
                   THEN PutEntry(indexed, prev, [s.entries[prev] EXCEPT !.latest = FALSE])
                   ELSE indexed
    IN  SetEntry(started, b, [staleAt |-> Never, deleteAt |-> Never,
                              latest |-> b <= ctx, refcount |-> 1, data |-> d])
Supersede(s, b, d, prev, first) ==
    LET deleteAt == IF first THEN Never ELSE s.entries[prev].deleteAt
        indexed  == IF first THEN SetIndex(s, "live") ELSE s
        unmarked == IF first THEN indexed
                    ELSE SetEntry(indexed, prev, [s.entries[prev] EXCEPT !.deleteAt = Never])
        started  == IF b > ctx THEN AddTimer(unmarked, b, Future, b)
                    ELSE IF prev # NoBlock /\ unmarked.entries[prev].latest
                    THEN PutEntry(unmarked, prev, [unmarked.entries[prev] EXCEPT !.latest = FALSE])
                    ELSE unmarked
        moved    == IF deleteAt = Never THEN started
                    ELSE AddTimer(DelTimer(started, deleteAt, Delete, prev), deleteAt, Delete, b)
    IN  SetEntry(moved, b, [staleAt |-> Never, deleteAt |-> deleteAt,
                            latest |-> b <= ctx, refcount |-> 1, data |-> d])

\* ModifyEntry: getEntry panics on a missing version.
ModifyEntry(s, b, d) ==
    IF b \notin Versions(s) THEN Panic(s) ELSE SetEntry(s, b, [s.entries[b] EXCEPT !.data = d])

\* AppendEntry: refused before the latest version and on or beyond a pending
\* delete; an existing version is only modified.
IsFirst(s, b) ==
    Nearest(s, b) # NoBlock => IsDeletedBy(s.entries[Nearest(s, b)], ctx)
AppendSucceeds(s, b) ==
    ~IsFirst(s, b) => LET prev == Nearest(s, b)
                      IN  /\ b < ctx => s.entries[prev].latest
                          /\ b # prev => ~IsDeletedBy(s.entries[prev], b)

AppendEntry(s, b, d) ==
    IF ~AppendSucceeds(s, b) THEN s
    ELSE IF ~IsFirst(s, b) /\ b = Nearest(s, b) THEN ModifyEntry(s, b, d)
    ELSE Supersede(s, b, d, Nearest(s, b), IsFirst(s, b))

\* GetEntry: a reference to the version in effect now, if there is one.
GetEntry(s) ==
    LET b == Find(s, ctx)
    IN  IF b = NoBlock THEN s ELSE SetEntry(s, b, [s.entries[b] EXCEPT !.refcount = @ + 1])

\* PutEntry of a reference to version b; getEntry panics on a missing version,
\* and the last reference of the latest version is refused.
PutReference(s, b) ==
    IF b \notin Versions(s) THEN Panic(s)
    ELSE IF s.entries[b].latest /\ s.entries[b].refcount = 1 THEN s
    ELSE PutEntry(s, b, s.entries[b])

\* updateFutureEntry: version b matures.
MatureEntry(s, b) ==
    LET prev == Nearest(s, b - 1)
        replaces == prev # NoBlock /\ s.entries[prev].latest
        dropped  == IF ~replaces THEN s
                    ELSE PutEntry(s, prev, [s.entries[prev] EXCEPT !.latest = FALSE])
    IN  IF \/ replaces /\ IsDeletedBy(s.entries[prev], b)
           \/ b \notin Versions(dropped)
        THEN Panic(s)
        ELSE SetEntry(dropped, b, [dropped.entries[b] EXCEPT !.latest = TRUE])

\* deleteMarkedEntry.
DeleteWithoutPut(s, b) ==
    SetEntry(SetIndex(s, "dead"), b, [s.entries[b] EXCEPT !.latest = FALSE])
DeleteMarked(s, b) ==
    IF b \notin Versions(s) THEN Panic(s)
    ELSE PutEntry(SetIndex(s, "dead"), b, [s.entries[b] EXCEPT !.latest = FALSE])

\* deleteStaleEntries.  A version is a delete marker that must stay when some
\* older version stays; a stale version goes when it is the oldest or follows
\* a stale version that is not such a marker.
StaleVersions(s) == {b \in Versions(s) : IsStaleBy(s.entries[b], ctx)}
KeptMarker(s, b) == HasDeleteAt(s.entries[b]) /\ \E c \in Versions(s) \ StaleVersions(s) : c < b
EveryStale(s, b) == b \in StaleVersions(s)
Removable(s, b) ==
    LET older == {c \in Versions(s) : c < b}
    IN  /\ b \in StaleVersions(s) /\ ~KeptMarker(s, b)
        /\ older # {} => Max(older) \in StaleVersions(s) /\ ~KeptMarker(s, Max(older))

DeleteStale(s) ==
    LET rest == Restrict(s.entries, {b \in Versions(s) : ~Removable(s, b)})
    IN  [s EXCEPT !.entries = rest,
                  !.index = IF DOMAIN rest = {} THEN "absent" ELSE @]

\* trimFutureEntries: discard the versions on or beyond the delete.
TrimFuture(s, at) == CancelFuture(s, {b \in Versions(s) : b >= at})

\* DelEntry succeeds: a version strictly before a future delete (or at the
\* current block), not yet marked, or else a first version still to come.
DelTarget(s, at) == Nearest(s, IF at > ctx THEN at - 1 ELSE at)
DelSucceeds(s, at) ==
    /\ at >= ctx
    /\ IF DelTarget(s, at) = NoBlock THEN Nearest(s, at) # NoBlock
       ELSE ~HasDeleteAt(s.entries[DelTarget(s, at)])

DelEntry(s, at) ==
    LET b == DelTarget(s, at)
        marked  == SetEntry(s, b, [s.entries[b] EXCEPT !.deleteAt = at])
        deleted == IF at = ctx THEN DeleteMarked(marked, b) ELSE AddTimer(marked, at, Delete, b)
    IN  IF ~DelSucceeds(s, at) THEN s
        ELSE IF b = NoBlock THEN TrimFuture(s, at)
        ELSE TrimFuture(deleted, at)

\* entryCallbackBeginBlock, of the due timers in turn at the start of a block.
Fire(s, t) ==
    LET u == [s EXCEPT !.timers = @ \ {t}]
    IN  CASE t.kind = Future -> MatureEntry(u, t.block)
          [] t.kind = Delete -> DeleteMarked(u, t.block)
          [] t.kind = Stale  -> DeleteStale(u)
FirstDue(s) == {t \in Due(s) : \A u \in Due(s) : NotLater(t, u)}
=============================================================================
