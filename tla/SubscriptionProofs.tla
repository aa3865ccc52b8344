-------------------------- MODULE SubscriptionProofs --------------------------
(***************************************************************************)
(* Proofs about Subscription and CuTracker, for any finite sets of         *)
(* consumers and providers and any plans, prices and lengths of months.    *)
(*                                                                         *)
(* CuTracker implements Subscription: what it pays the providers of a      *)
(* month is at most the month's credit.  And the module's account covers   *)
(* what it owes: what a store owes is the worth of its newest version,     *)
(* unless that is deleted, and every operation on a store that is sound    *)
(* (Sound) leaves a sound one and a known debt.  The lemmas before say     *)
(* what the operations of Fixation and the handlers return.                *)
(***************************************************************************)
EXTENDS CuTracker, SumTheorems

-----------------------------------------------------------------------------
(* Stores of data D, whatever their history.                                 *)

StoreOf(D) == [entries: UNION {[V -> Entries(D)] : V \in SUBSET Targets},
               index: {"absent", "live", "dead"}, timers: SUBSET Timer, panic: BOOLEAN]

LEMMA Bounds ==
    /\ MaxBlock \in Nat /\ MaxBlock > 0 /\ StaleBlocks \in Nat /\ StaleBlocks > 0
    /\ Never \in Nat /\ NoBlock \notin Targets
    /\ \A b \in Targets : b \in Nat /\ b > 0
    /\ \A b \in Blocks : b \in Targets
  BY BlockAssumption, StaleAssumption DEF Never, NoBlock, Targets, Blocks

LEMMA StoreParts ==
    ASSUME NEW D, NEW s \in StoreOf(D)
    PROVE  /\ Versions(s) \in SUBSET Targets /\ s.entries \in [Versions(s) -> Entries(D)]
           /\ s.index \in {"absent", "live", "dead"} /\ s.timers \in SUBSET Timer
           /\ s.panic \in BOOLEAN
  BY DEF StoreOf, Versions

LEMMA EntryParts ==
    ASSUME NEW D, NEW e \in Entries(D)
    PROVE  /\ e.staleAt \in Nat /\ e.deleteAt \in Nat /\ e.latest \in BOOLEAN
           /\ e.refcount \in Nat /\ e.data \in D
  BY DEF Entries

LEMMA EntryOfStore ==
    ASSUME NEW D, NEW s \in StoreOf(D), NEW b \in Versions(s)
    PROVE  b \in Targets /\ s.entries[b] \in Entries(D)
  BY StoreParts

LEMMA EmptyTyped == ASSUME NEW D PROVE EmptyStore \in StoreOf(D)
<1>1. <<>> \in [{} -> Entries(D)]
  OBVIOUS
<1>2. <<>> \in UNION {[V -> Entries(D)] : V \in SUBSET Targets}
  BY <1>1
<1> QED BY <1>2 DEF EmptyStore, StoreOf

LEMMA PanicTyped == ASSUME NEW D, NEW s \in StoreOf(D) PROVE Panic(s) \in StoreOf(D)
  BY DEF Panic, StoreOf

LEMMA IndexTyped ==
    ASSUME NEW D, NEW s \in StoreOf(D), NEW x \in {"absent", "live", "dead"}
    PROVE  SetIndex(s, x) \in StoreOf(D) /\ SetIndex(s, x).entries = s.entries
  BY DEF SetIndex, StoreOf

LEMMA EntriesTyped ==
    ASSUME NEW D, NEW s \in StoreOf(D), NEW V \in SUBSET Targets, NEW E \in [V -> Entries(D)]
    PROVE  [s EXCEPT !.entries = E] \in StoreOf(D)
<1>1. E \in UNION {[W -> Entries(D)] : W \in SUBSET Targets}
  OBVIOUS
<1> QED BY <1>1 DEF StoreOf

LEMMA SetEntryTyped ==
    ASSUME NEW D, NEW s \in StoreOf(D), NEW b \in Targets, NEW e \in Entries(D)
    PROVE  LET r == SetEntry(s, b, e)
           IN  /\ r \in StoreOf(D) /\ Versions(r) = Versions(s) \cup {b} /\ r.entries[b] = e
               /\ \A c \in Versions(s) \ {b} : r.entries[c] = s.entries[c]
               /\ r.panic = s.panic /\ r.timers = s.timers /\ r.index = s.index
<1> DEFINE V == Versions(s) \cup {b}
           E == [x \in V |-> IF x = b THEN e ELSE s.entries[x]]
<1>1. V \in SUBSET Targets /\ E \in [V -> Entries(D)]
  BY StoreParts
<1>2. SetEntry(s, b, e) = [s EXCEPT !.entries = E]
  BY DEF SetEntry, Versions, StoreOf
<1>3. E[b] = e /\ \A c \in Versions(s) \ {b} : E[c] = s.entries[c]
  OBVIOUS
<1>4. DOMAIN E = V
  OBVIOUS
<1> HIDE DEF E
<1>5. LET r == [s EXCEPT !.entries = E]
      IN  /\ r \in StoreOf(D) /\ r.entries = E
          /\ r.panic = s.panic /\ r.timers = s.timers /\ r.index = s.index
  <2>1. [s EXCEPT !.entries = E] \in StoreOf(D)
    BY <1>1, EntriesTyped
  <2> QED BY <2>1 DEF StoreOf
<1> QED BY <1>2, <1>3, <1>4, <1>5 DEF Versions

LEMMA AddTimerTyped ==
    ASSUME NEW D, NEW s \in StoreOf(D), NEW at \in Nat,
           NEW kind \in {Future, Delete, Stale}, NEW b \in Targets
    PROVE  AddTimer(s, at, kind, b) \in StoreOf(D) /\ AddTimer(s, at, kind, b).entries = s.entries
<1> DEFINE T == s.timers \cup {[at |-> at, kind |-> kind, block |-> b]}
<1>1. T \in SUBSET Timer
  BY StoreParts DEF Timer
<1>2. [s EXCEPT !.timers = @ \cup {[at |-> at, kind |-> kind, block |-> b]}] = [s EXCEPT !.timers = T]
  BY DEF StoreOf
<1> HIDE DEF T
<1>3. [s EXCEPT !.timers = T] \in StoreOf(D) /\ [s EXCEPT !.timers = T].entries = s.entries
  BY <1>1 DEF StoreOf
<1>4. Panic(s) \in StoreOf(D) /\ Panic(s).entries = s.entries
  BY DEF Panic, StoreOf
<1> QED BY <1>2, <1>3, <1>4 DEF AddTimer

LEMMA DropTimersTyped ==
    ASSUME NEW D, NEW s \in StoreOf(D), NEW U
    PROVE  [s EXCEPT !.timers = @ \ U] \in StoreOf(D) /\ [s EXCEPT !.timers = @ \ U].entries = s.entries
<1> DEFINE T == s.timers \ U
<1>1. T \in SUBSET Timer
  BY StoreParts
<1>2. [s EXCEPT !.timers = @ \ U] = [s EXCEPT !.timers = T]
  BY DEF StoreOf
<1> HIDE DEF T
<1> QED BY <1>1, <1>2 DEF StoreOf

LEMMA DelTimerTyped ==
    ASSUME NEW D, NEW s \in StoreOf(D), NEW at, NEW kind, NEW b
    PROVE  DelTimer(s, at, kind, b) \in StoreOf(D) /\ DelTimer(s, at, kind, b).entries = s.entries
<1>1. Panic(s) \in StoreOf(D) /\ Panic(s).entries = s.entries
  BY DEF Panic, StoreOf
<1> QED BY <1>1, DropTimersTyped DEF DelTimer

\* What is left of the entries when only those of V stay.
LEMMA RestrictTyped ==
    ASSUME NEW D, NEW s \in StoreOf(D), NEW V \in SUBSET Versions(s)
    PROVE  Restrict(s.entries, V) \in UNION {[W -> Entries(D)] : W \in SUBSET Targets}
<1>1. Restrict(s.entries, V) \in [V -> Entries(D)] /\ V \in SUBSET Targets
  BY StoreParts DEF Restrict
<1> QED BY <1>1

LEMMA CancelTyped ==
    ASSUME NEW D, NEW s \in StoreOf(D), NEW bs
    PROVE  CancelFuture(s, bs) \in StoreOf(D)
<1> DEFINE own == {[at |-> b, kind |-> Future, block |-> b] : b \in bs}
           rest == Restrict(s.entries, Versions(s) \ bs)
           x == IF DOMAIN rest = {} THEN "absent" ELSE s.index
           u == [s EXCEPT !.timers = @ \ own, !.entries = rest,
                          !.index = IF DOMAIN rest = {} THEN "absent" ELSE @]
           T == s.timers \ own
<1>1. rest \in UNION {[W -> Entries(D)] : W \in SUBSET Targets}
  BY RestrictTyped
<1>2. T \in SUBSET Timer /\ x \in {"absent", "live", "dead"}
  BY StoreParts
<1>3. CancelFuture(s, bs) = IF bs = {} THEN s ELSE IF ~(own \subseteq s.timers) THEN Panic(s) ELSE u
  BY DEF CancelFuture
<1>4. u = [s EXCEPT !.timers = T, !.entries = rest, !.index = x]
  BY DEF StoreOf
<1> HIDE DEF own, rest, x, u, T
<1>5. u \in StoreOf(D)
  BY <1>1, <1>2, <1>4 DEF StoreOf
<1> QED BY <1>3, <1>5, PanicTyped

-----------------------------------------------------------------------------
\* A non-empty set of versions has a newest one.
LEMMA NewestOf ==
    ASSUME NEW W \in SUBSET Targets, W # {}
    PROVE  \E m \in W : \A c \in W : c <= m
<1> DEFINE n == 2 * MaxBlock
           U == {n - x : x \in W}
<1>1. \A x \in W : x \in Int /\ n - x \in Nat
  BY BlockAssumption DEF Targets
<1>2. U \in SUBSET Nat /\ U # {}
  BY <1>1
<1>3. PICK m \in U : \A u \in U : m <= u
  <2> HIDE DEF U
  <2> QED BY <1>2, LeastNumber
<1>4. PICK x \in W : m = n - x
  BY <1>3
<1>5. ASSUME NEW y \in W PROVE y <= x
  <2>1. x \in Int /\ y \in Int /\ n \in Int
    BY <1>1, BlockAssumption
  <2>2. m <= n - y
    BY <1>3
  <2> QED BY <1>4, <2>1, <2>2
<1> QED BY <1>5

\* A lookup finds a version of the store, or none.
LEMMA NearestVersion ==
    ASSUME NEW D, NEW s \in StoreOf(D), NEW block \in Int, Nearest(s, block) # NoBlock
    PROVE  Nearest(s, block) \in Versions(s) /\ Nearest(s, block) <= block
<1> DEFINE S == {b \in Versions(s) : b <= block}
<1>1. S # {} /\ S \in SUBSET Targets /\ \A x \in S : x \in Int
  BY StoreParts, Bounds DEF Nearest
<1>2. Nearest(s, block) \in {NoBlock, Max(S)}
  BY <1>1 DEF Nearest
<1>3. Max(S) \in S
  <2> HIDE DEF S
  <2>1. PICK m \in S : \A c \in S : c <= m
    BY <1>1, NewestOf
  <2>2. \E x \in S : \A y \in S : x >= y
    BY <1>1, <2>1
  <2> QED BY <2>2 DEF Max
<1> QED BY <1>2, <1>3

LEMMA FindVersion ==
    ASSUME NEW D, NEW s \in StoreOf(D), NEW block \in Int, Find(s, block) # NoBlock
    PROVE  /\ Find(s, block) \in Versions(s) /\ Find(s, block) \in Targets
           /\ s.entries[Find(s, block)] \in Entries(D)
<1>1. Find(s, block) = Nearest(s, block) /\ Nearest(s, block) # NoBlock
  BY DEF Find
<1>2. Nearest(s, block) \in Versions(s)
  BY <1>1, NearestVersion
<1> QED BY <1>1, <1>2, EntryOfStore

-----------------------------------------------------------------------------
\* A store keeps its type, and the data of version c is kept from s to r.
LEMMA PutEntryTyped ==
    ASSUME NEW D, NEW s \in StoreOf(D), ctx \in Blocks, NEW b \in Targets, NEW e \in Entries(D)
    PROVE  PutEntry(s, b, e) \in StoreOf(D)
<1>1. ctx \in Nat /\ StaleBlocks \in Nat /\ e.refcount \in Nat
  BY Bounds, EntryParts
<1> DEFINE d == [e EXCEPT !.refcount = @ - 1]
           at == ctx + StaleBlocks
           d2 == [d EXCEPT !.staleAt = at]
           u == AddTimer(s, at, Stale, b)
<1>2. ASSUME e.refcount # 0 PROVE d \in Entries(D)
  <2>1. e.refcount - 1 \in Nat
    BY <1>1, <1>2
  <2> QED BY <2>1 DEF Entries
<1>3. PutEntry(s, b, e) = IF e.refcount = 0 THEN Panic(s)
        ELSE IF d.refcount > 0 THEN SetEntry(s, b, d)
        ELSE IF b > ctx THEN CancelFuture(s, {b})
        ELSE SetEntry(u, b, d2)
  BY DEF PutEntry
<1>5. at \in Nat
  BY <1>1
<1> HIDE DEF d, at
<1>4. u \in StoreOf(D)
  BY <1>5, AddTimerTyped
<1>6. ASSUME e.refcount # 0 PROVE d2 \in Entries(D)
  BY <1>2, <1>5, <1>6 DEF Entries
<1> HIDE DEF u, d2
<1>7. ASSUME e.refcount # 0 PROVE SetEntry(s, b, d) \in StoreOf(D) /\ SetEntry(u, b, d2) \in StoreOf(D)
  BY <1>2, <1>4, <1>6, <1>7, SetEntryTyped
<1> QED BY <1>3, <1>7, PanicTyped, CancelTyped

LEMMA ModifyTyped ==
    ASSUME NEW D, NEW s \in StoreOf(D), NEW b, NEW d \in D
    PROVE  ModifyEntry(s, b, d) \in StoreOf(D)
<1>1. CASE b \in Versions(s)
  <2>1. b \in Targets /\ s.entries[b] \in Entries(D)
    BY <1>1, EntryOfStore
  <2>2. [s.entries[b] EXCEPT !.data = d] \in Entries(D)
    BY <2>1 DEF Entries
  <2> QED BY <1>1, <2>1, <2>2, SetEntryTyped DEF ModifyEntry
<1>2. CASE b \notin Versions(s)
  BY <1>2, PanicTyped DEF ModifyEntry
<1> QED BY <1>1, <1>2

LEMMA SupersedeTyped ==
    ASSUME NEW D, NEW s \in StoreOf(D), ctx \in Blocks, NEW b \in Targets, NEW d \in D,
           NEW prev \in {NoBlock} \cup Versions(s), NEW first \in BOOLEAN,
           ~first => prev # NoBlock
    PROVE  Supersede(s, b, d, prev, first) \in StoreOf(D)
<1> DEFINE deleteAt == IF first THEN Never ELSE s.entries[prev].deleteAt
           indexed  == IF first THEN SetIndex(s, "live") ELSE s
           unmarked == IF first THEN indexed
                       ELSE SetEntry(indexed, prev, [s.entries[prev] EXCEPT !.deleteAt = Never])
           unlatest == [unmarked.entries[prev] EXCEPT !.latest = FALSE]
           started  == IF b > ctx THEN AddTimer(unmarked, b, Future, b)
                       ELSE IF prev # NoBlock /\ unmarked.entries[prev].latest
                       THEN PutEntry(unmarked, prev, unlatest)
                       ELSE unmarked
           moved    == IF deleteAt = Never THEN started
                       ELSE AddTimer(DelTimer(started, deleteAt, Delete, prev), deleteAt, Delete, b)
           e == [staleAt |-> Never, deleteAt |-> deleteAt, latest |-> b <= ctx,
                 refcount |-> 1, data |-> d]
<1>1. Supersede(s, b, d, prev, first) = SetEntry(moved, b, e)
  BY DEF Supersede
<1>2. Never \in Nat /\ b \in Nat /\ ctx \in Nat
  BY Bounds
<1>3. prev # NoBlock => prev \in Versions(s) /\ prev \in Targets /\ s.entries[prev] \in Entries(D)
  BY EntryOfStore
<1>4. deleteAt \in Nat
  BY <1>2, <1>3, EntryParts
<1>5. indexed \in StoreOf(D) /\ Versions(indexed) = Versions(s) /\ indexed.entries = s.entries
  BY IndexTyped DEF Versions
<1>6. ~first => [s.entries[prev] EXCEPT !.deleteAt = Never] \in Entries(D)
  BY <1>2, <1>3 DEF Entries
<1> HIDE DEF deleteAt, indexed
<1>7. unmarked \in StoreOf(D) /\ (prev # NoBlock => prev \in Versions(unmarked))
  BY <1>3, <1>5, <1>6, SetEntryTyped
<1> HIDE DEF unmarked
<1>8. prev # NoBlock => unlatest \in Entries(D)
  <2>1. prev # NoBlock => unmarked.entries[prev] \in Entries(D)
    BY <1>7, EntryOfStore
  <2> QED BY <2>1 DEF Entries
<1> HIDE DEF unlatest
<1>9. started \in StoreOf(D)
  <2>1. prev # NoBlock => PutEntry(unmarked, prev, unlatest) \in StoreOf(D)
    BY <1>3, <1>7, <1>8, PutEntryTyped
  <2>2. AddTimer(unmarked, b, Future, b) \in StoreOf(D)
    BY <1>2, <1>7, AddTimerTyped
  <2> QED BY <1>7, <2>1, <2>2
<1> HIDE DEF started
<1>10. moved \in StoreOf(D)
  <2>1. DelTimer(started, deleteAt, Delete, prev) \in StoreOf(D)
    BY <1>9, DelTimerTyped
  <2>2. AddTimer(DelTimer(started, deleteAt, Delete, prev), deleteAt, Delete, b) \in StoreOf(D)
    BY <1>4, <2>1, AddTimerTyped
  <2> QED BY <1>9, <2>2
<1>11. e \in Entries(D)
  <2>1. (b <= ctx) \in BOOLEAN
    OBVIOUS
  <2> QED BY <1>2, <1>4, <2>1 DEF Entries
<1> HIDE DEF moved, e
<1> QED BY <1>1, <1>10, <1>11, SetEntryTyped

LEMMA AppendTyped ==
    ASSUME NEW D, NEW s \in StoreOf(D), ctx \in Blocks, NEW b \in Targets, NEW d \in D
    PROVE  AppendEntry(s, b, d) \in StoreOf(D)
<1>1. b \in Int
  BY Bounds
<1>2. Nearest(s, b) \in {NoBlock} \cup Versions(s)
  BY <1>1, NearestVersion
<1>3. IsFirst(s, b) \in BOOLEAN /\ (~IsFirst(s, b) => Nearest(s, b) # NoBlock)
  BY DEF IsFirst
<1>4. Supersede(s, b, d, Nearest(s, b), IsFirst(s, b)) \in StoreOf(D)
  BY <1>2, <1>3, SupersedeTyped
<1>5. ModifyEntry(s, b, d) \in StoreOf(D)
  BY ModifyTyped
<1> QED BY <1>4, <1>5 DEF AppendEntry

LEMMA GetTyped ==
    ASSUME NEW D, NEW s \in StoreOf(D), ctx \in Blocks
    PROVE  GetEntry(s) \in StoreOf(D)
<1> DEFINE b == Find(s, ctx)
           e == [s.entries[b] EXCEPT !.refcount = @ + 1]
<1>1. CASE b = NoBlock
  BY <1>1 DEF GetEntry
<1>2. CASE b # NoBlock
  <2>1. ctx \in Int
    BY Bounds
  <2>2. b \in Targets /\ s.entries[b] \in Entries(D)
    BY <1>2, <2>1, FindVersion
  <2>3. s.entries[b].refcount + 1 \in Nat
    BY <2>2, EntryParts
  <2>4. e \in Entries(D)
    <3> HIDE DEF b
    <3> QED BY <2>2, <2>3 DEF Entries
  <2>5. GetEntry(s) = SetEntry(s, b, e)
    BY <1>2 DEF GetEntry
  <2> HIDE DEF b, e
  <2> QED BY <2>2, <2>4, <2>5, SetEntryTyped
<1> QED BY <1>1, <1>2

LEMMA PutReferenceTyped ==
    ASSUME NEW D, NEW s \in StoreOf(D), ctx \in Blocks, NEW b
    PROVE  PutReference(s, b) \in StoreOf(D)
<1>1. b \in Versions(s) => PutEntry(s, b, s.entries[b]) \in StoreOf(D)
  BY EntryOfStore, PutEntryTyped
<1> QED BY <1>1, PanicTyped DEF PutReference

LEMMA DeleteMarkedTyped ==
    ASSUME NEW D, NEW s \in StoreOf(D), ctx \in Blocks, NEW b
    PROVE  DeleteMarked(s, b) \in StoreOf(D)
<1>1. SetIndex(s, "dead") \in StoreOf(D)
  BY IndexTyped
<1>2. ASSUME b \in Versions(s)
      PROVE  PutEntry(SetIndex(s, "dead"), b, [s.entries[b] EXCEPT !.latest = FALSE]) \in StoreOf(D)
  <2>1. b \in Targets /\ s.entries[b] \in Entries(D)
    BY <1>2, EntryOfStore
  <2>2. [s.entries[b] EXCEPT !.latest = FALSE] \in Entries(D)
    BY <2>1 DEF Entries
  <2> QED BY <1>1, <2>1, <2>2, PutEntryTyped
<1> QED BY <1>2, PanicTyped DEF DeleteMarked

LEMMA MatureTyped ==
    ASSUME NEW D, NEW s \in StoreOf(D), ctx \in Blocks, NEW b \in Targets
    PROVE  MatureEntry(s, b) \in StoreOf(D)
<1> DEFINE prev == Nearest(s, b - 1)
           replaces == prev # NoBlock /\ s.entries[prev].latest
           e == [s.entries[prev] EXCEPT !.latest = FALSE]
           dropped == IF ~replaces THEN s ELSE PutEntry(s, prev, e)
<1>1. b - 1 \in Int
  BY Bounds
<1>2. prev # NoBlock => prev \in Targets /\ s.entries[prev] \in Entries(D)
  BY <1>1, NearestVersion, EntryOfStore
<1>3. prev # NoBlock => e \in Entries(D)
  <2> HIDE DEF prev
  <2> QED BY <1>2 DEF Entries
<1>4. dropped \in StoreOf(D)
  <2> HIDE DEF prev, e
  <2>1. prev # NoBlock => PutEntry(s, prev, e) \in StoreOf(D)
    BY <1>2, <1>3, PutEntryTyped
  <2> QED BY <2>1
<1>5. MatureEntry(s, b) \in {Panic(s), SetEntry(dropped, b, [dropped.entries[b] EXCEPT !.latest = TRUE])}
      /\ (b \notin Versions(dropped) => MatureEntry(s, b) = Panic(s))
  BY DEF MatureEntry
<1> HIDE DEF dropped
<1>6. ASSUME b \in Versions(dropped)
      PROVE SetEntry(dropped, b, [dropped.entries[b] EXCEPT !.latest = TRUE]) \in StoreOf(D)
  <2>1. dropped.entries[b] \in Entries(D)
    BY <1>4, <1>6, EntryOfStore
  <2>2. [dropped.entries[b] EXCEPT !.latest = TRUE] \in Entries(D)
    BY <2>1 DEF Entries
  <2> QED BY <1>4, <2>2, SetEntryTyped
<1> QED BY <1>5, <1>6, PanicTyped

LEMMA DeleteStaleTyped ==
    ASSUME NEW D, NEW s \in StoreOf(D)
    PROVE  DeleteStale(s) \in StoreOf(D)
<1> DEFINE V == {b \in Versions(s) : ~Removable(s, b)}
           rest == Restrict(s.entries, V)
           x == IF DOMAIN rest = {} THEN "absent" ELSE s.index
<1>1. rest \in UNION {[W -> Entries(D)] : W \in SUBSET Targets}
  BY RestrictTyped
<1>2. x \in {"absent", "live", "dead"}
  BY StoreParts
<1>3. DeleteStale(s) = [s EXCEPT !.entries = rest, !.index = IF DOMAIN rest = {} THEN "absent" ELSE @]
  BY DEF DeleteStale
<1>4. DeleteStale(s) = [s EXCEPT !.entries = rest, !.index = x]
  <2> HIDE DEF rest
  <2> QED BY <1>3 DEF StoreOf
<1> HIDE DEF rest, x
<1> QED BY <1>1, <1>2, <1>4 DEF StoreOf

LEMMA DelTyped ==
    ASSUME NEW D, NEW s \in StoreOf(D), ctx \in Blocks, NEW at \in Nat
    PROVE  DelEntry(s, at) \in StoreOf(D)
<1> DEFINE b == DelTarget(s, at)
           e == [s.entries[b] EXCEPT !.deleteAt = at]
           marked  == SetEntry(s, b, e)
           deleted == IF at = ctx THEN DeleteMarked(marked, b) ELSE AddTimer(marked, at, Delete, b)
<1>1. DelEntry(s, at) = IF ~DelSucceeds(s, at) THEN s
        ELSE IF b = NoBlock THEN TrimFuture(s, at)
        ELSE TrimFuture(deleted, at)
  BY DEF DelEntry
<1>2. TrimFuture(s, at) \in StoreOf(D)
  BY CancelTyped DEF TrimFuture
<1>3. b # NoBlock => b \in Targets /\ s.entries[b] \in Entries(D)
  <2>1. (IF at > ctx THEN at - 1 ELSE at) \in Int
    BY Bounds
  <2> QED BY <2>1, NearestVersion, EntryOfStore DEF DelTarget
<1> HIDE DEF b
<1>4. b # NoBlock => e \in Entries(D)
  BY <1>3 DEF Entries
<1> HIDE DEF e
<1>5. b # NoBlock => marked \in StoreOf(D)
  BY <1>3, <1>4, SetEntryTyped
<1> HIDE DEF marked
<1>6. b # NoBlock => deleted \in StoreOf(D)
  BY <1>3, <1>5, DeleteMarkedTyped, AddTimerTyped
<1> HIDE DEF deleted
<1>7. b # NoBlock => TrimFuture(deleted, at) \in StoreOf(D)
  BY <1>6, CancelTyped DEF TrimFuture
<1> QED BY <1>1, <1>2, <1>7

LEMMA FireTyped ==
    ASSUME NEW D, NEW s \in StoreOf(D), ctx \in Blocks, NEW t \in s.timers
    PROVE  Fire(s, t) \in StoreOf(D)
<1> DEFINE u == [s EXCEPT !.timers = @ \ {t}]
<1>1. t \in Timer
  BY StoreParts
<1>2. t.kind \in {Future, Delete, Stale} /\ t.block \in Targets
  BY <1>1 DEF Timer
<1>3. u \in StoreOf(D)
  BY DropTimersTyped
<1>4. Fire(s, t) = CASE t.kind = Future -> MatureEntry(u, t.block)
                     [] t.kind = Delete -> DeleteMarked(u, t.block)
                     [] t.kind = Stale  -> DeleteStale(u)
  BY DEF Fire
<1> HIDE DEF u
<1>5. MatureEntry(u, t.block) \in StoreOf(D) /\ DeleteMarked(u, t.block) \in StoreOf(D) /\ DeleteStale(u) \in StoreOf(D)
  BY <1>2, <1>3, MatureTyped, DeleteMarkedTyped, DeleteStaleTyped
<1> QED BY <1>2, <1>4, <1>5 DEF Future, Delete, Stale

-----------------------------------------------------------------------------
(* The types of the chain's record.                                          *)

Futures == {NoFuture} \cup [plan: PlanIndices, planBlock: Targets, bought: Nat, credit: Nat]
Subs == [block: Targets, plan: PlanIndices, planBlock: Targets, left: Nat, expiry: Nat,
         credit: Nat, renew: PlanIndices \cup {None}, future: Futures]
MonthTimers == [at: Nat, consumer: Consumers]
CuTimers == [at: Nat, consumer: Consumers, block: Targets, credit: Nat]
Chain == [plans: [PlanIndices -> StoreOf({"plan"})], subs: [Consumers -> StoreOf(Subs)],
          admin: [Consumers -> StoreOf({"project"})], months: SUBSET MonthTimers,
          cuTimers: SUBSET CuTimers, balance: Int, unsent: Int, panic: BOOLEAN]
Clock == ctx \in EpochBlocks..MaxBlock

LEMMA ClockBounds ==
    ASSUME Clock
    PROVE  /\ ctx \in Nat /\ ctx > 0 /\ ctx \in Targets /\ ctx \in Blocks
           /\ EpochStart \in Targets /\ EpochStart <= ctx /\ NextEpoch > ctx
           /\ NextEpoch \in Targets /\ NextEpoch \in Nat /\ NextMonth \in Nat
<1>1. ctx \in Nat /\ ctx > 0 /\ ctx <= MaxBlock /\ MaxBlock \in Nat /\ EpochBlocks <= ctx
  BY Bounds, EpochAssumption DEF Clock
<1>2. EpochBlocks \in Nat /\ EpochBlocks > 0 /\ EpochBlocks <= MaxBlock /\ MonthBlocks \in Nat
  BY <1>1, EpochAssumption, MonthAssumption
<1>3. ctx % EpochBlocks \in Nat /\ ctx % EpochBlocks < EpochBlocks /\ ctx % EpochBlocks <= ctx
  BY <1>1, <1>2
<1> QED BY <1>1, <1>2, <1>3 DEF EpochStart, NextEpoch, NextMonth, Targets, Blocks

LEMMA FutureParts ==
    ASSUME NEW f \in Futures
    PROVE  /\ f.credit \in Nat /\ f.bought \in Nat
           /\ f # NoFuture => f.plan \in PlanIndices /\ f.planBlock \in Targets
  BY DEF Futures, NoFuture

LEMMA SubParts ==
    ASSUME NEW sub \in Subs
    PROVE  /\ sub.block \in Targets /\ sub.plan \in PlanIndices /\ sub.planBlock \in Targets
           /\ sub.left \in Nat /\ sub.expiry \in Nat /\ sub.credit \in Nat
           /\ sub.renew \in PlanIndices \cup {None} /\ sub.future \in Futures
  BY DEF Subs

LEMMA ChainParts ==
    ASSUME NEW st \in Chain
    PROVE  /\ st.plans \in [PlanIndices -> StoreOf({"plan"})] /\ st.subs \in [Consumers -> StoreOf(Subs)]
           /\ st.admin \in [Consumers -> StoreOf({"project"})] /\ st.months \in SUBSET MonthTimers
           /\ st.cuTimers \in SUBSET CuTimers /\ st.balance \in Int /\ st.panic \in BOOLEAN
           /\ st.unsent \in Int
  BY DEF Chain

\* r is st but for the fields of F.
SameBut(st, r, F) ==
    /\ r \in Chain
    /\ "plans" \notin F => r.plans = st.plans
    /\ "subs" \notin F => r.subs = st.subs
    /\ "admin" \notin F => r.admin = st.admin
    /\ "months" \notin F => r.months = st.months
    /\ "cuTimers" \notin F => r.cuTimers = st.cuTimers
    /\ "balance" \notin F => r.balance = st.balance
    /\ "panic" \notin F => r.panic = st.panic

LEMMA PlansSet ==
    ASSUME NEW st \in Chain, NEW p \in PlanIndices, NEW s \in StoreOf({"plan"})
    PROVE  SameBut(st, [st EXCEPT !.plans[p] = s], {"plans"})
<1> DEFINE f == [st.plans EXCEPT ![p] = s]
<1>1. f \in [PlanIndices -> StoreOf({"plan"})]
  BY ChainParts
<1>2. [st EXCEPT !.plans[p] = s] = [st EXCEPT !.plans = f]
  BY DEF Chain
<1> HIDE DEF f
<1> QED BY <1>1, <1>2 DEF Chain, SameBut

LEMMA SubsSet ==
    ASSUME NEW st \in Chain, NEW c \in Consumers, NEW s \in StoreOf(Subs)
    PROVE  LET r == [st EXCEPT !.subs[c] = s]
           IN  /\ SameBut(st, r, {"subs"}) /\ r.subs[c] = s
               /\ \A x \in Consumers \ {c} : r.subs[x] = st.subs[x]
<1> DEFINE f == [st.subs EXCEPT ![c] = s]
<1>1. f \in [Consumers -> StoreOf(Subs)] /\ f[c] = s /\ \A x \in Consumers \ {c} : f[x] = st.subs[x]
  BY ChainParts
<1>2. [st EXCEPT !.subs[c] = s] = [st EXCEPT !.subs = f]
  BY DEF Chain
<1> HIDE DEF f
<1> QED BY <1>1, <1>2 DEF Chain, SameBut

LEMMA AdminSet ==
    ASSUME NEW st \in Chain, NEW c \in Consumers, NEW s \in StoreOf({"project"})
    PROVE  SameBut(st, [st EXCEPT !.admin[c] = s], {"admin"})
<1> DEFINE f == [st.admin EXCEPT ![c] = s]
<1>1. f \in [Consumers -> StoreOf({"project"})]
  BY ChainParts
<1>2. [st EXCEPT !.admin[c] = s] = [st EXCEPT !.admin = f]
  BY DEF Chain
<1> HIDE DEF f
<1> QED BY <1>1, <1>2 DEF Chain, SameBut

LEMMA MonthsSet ==
    ASSUME NEW st \in Chain, NEW M \in SUBSET MonthTimers
    PROVE  SameBut(st, [st EXCEPT !.months = M], {"months"}) /\ [st EXCEPT !.months = M].months = M
  BY DEF Chain, SameBut

LEMMA CuTimersSet ==
    ASSUME NEW st \in Chain, NEW T \in SUBSET CuTimers
    PROVE  SameBut(st, [st EXCEPT !.cuTimers = T], {"cuTimers"}) /\ [st EXCEPT !.cuTimers = T].cuTimers = T
  BY DEF Chain, SameBut

LEMMA BalanceSet ==
    ASSUME NEW st \in Chain, NEW n \in Int
    PROVE  SameBut(st, [st EXCEPT !.balance = n], {"balance"}) /\ [st EXCEPT !.balance = n].balance = n
  BY DEF Chain, SameBut

LEMMA UnsentSet ==
    ASSUME NEW st \in Chain, NEW n \in Int
    PROVE  SameBut(st, [st EXCEPT !.unsent = n], {})
  BY DEF Chain, SameBut

LEMMA FailSet ==
    ASSUME NEW st \in Chain
    PROVE  SameBut(st, Fail(st), {"panic"})
  BY DEF Chain, SameBut, Fail

-----------------------------------------------------------------------------
(* The pieces of the handlers.                                               *)

LEMMA GetPlanIs ==
    ASSUME Clock, NEW st \in Chain, NEW p \in PlanIndices
    PROVE  SameBut(st, GetPlan(st, p), {"plans"})
<1>1. GetEntry(st.plans[p]) \in StoreOf({"plan"})
  BY ChainParts, GetTyped, ClockBounds
<1> QED BY <1>1, PlansSet DEF GetPlan

LEMMA PutPlanIs ==
    ASSUME Clock, NEW st \in Chain, NEW p \in PlanIndices, NEW b
    PROVE  SameBut(st, PutPlan(st, p, b), {"plans"})
<1>1. PutReference(st.plans[p], b) \in StoreOf({"plan"})
  BY ChainParts, PutReferenceTyped, ClockBounds
<1> QED BY <1>1, PlansSet DEF PutPlan

LEMMA ModifySubIs ==
    ASSUME NEW st \in Chain, NEW c \in Consumers, NEW sub \in Subs
    PROVE  LET r == ModifySub(st, c, sub)
           IN  /\ SameBut(st, r, {"subs"}) /\ r.subs[c] = ModifyEntry(st.subs[c], sub.block, sub)
               /\ \A x \in Consumers \ {c} : r.subs[x] = st.subs[x]
<1>1. ModifyEntry(st.subs[c], sub.block, sub) \in StoreOf(Subs)
  BY ChainParts, ModifyTyped
<1> QED BY <1>1, SubsSet DEF ModifySub

LEMMA AppendAdminIs ==
    ASSUME Clock, NEW st \in Chain, NEW c \in Consumers, NEW b \in Targets
    PROVE  SameBut(st, [st EXCEPT !.admin[c] = AppendEntry(@, b, "project")], {"admin"})
<1>1. AppendEntry(st.admin[c], b, "project") \in StoreOf({"project"})
  BY ChainParts, AppendTyped, ClockBounds
<1> QED BY <1>1, AdminSet

LEMMA SnapshotIs ==
    ASSUME Clock, NEW st \in Chain, NEW c \in Consumers, NEW b \in Targets
    PROVE  SameBut(st, SnapshotProjects(st, c, b), {"admin"})
<1>1. SameBut(st, st, {"admin"})
  BY DEF SameBut
<1> QED BY <1>1, AppendAdminIs DEF SnapshotProjects

LEMMA DelAllIs ==
    ASSUME Clock, NEW st \in Chain, NEW c \in Consumers
    PROVE  SameBut(st, DelAllProjects(st, c), {"admin"}) /\ SameBut(st, DeleteProject(st, c), {"admin"})
<1>1. SameBut(st, st, {"admin"})
  BY DEF SameBut
<1>2. DelEntry(st.admin[c], NextEpoch) \in StoreOf({"project"})
  BY ChainParts, DelTyped, ClockBounds
<1>3. SameBut(st, DeleteProject(st, c), {"admin"})
  BY <1>1, <1>2, AdminSet DEF DeleteProject
<1> QED BY <1>1, <1>3 DEF DelAllProjects

LEMMA RewardBound ==
    ASSUME NEW n \in Nat, NEW k \in Nat, k > 0
    PROVE  n \div k \in Nat /\ n \div k <= n /\ (k = 1 => n \div k = n)
<1>1. n \div k \in Nat
  OBVIOUS
<1>2. n \div k <= n
  OBVIOUS
<1>3. k = 1 => n \div k = n
  OBVIOUS
<1> QED BY <1>1, <1>2, <1>3

LEMMA CuTimerIs ==
    ASSUME NEW st \in Chain, NEW c \in Consumers, NEW block \in Nat, NEW sub \in Subs, sub.left > 0
    PROVE  LET r == AddCuTrackerTimer(st, c, block, sub)
               t == [at |-> block + StaleBlocks - 1, consumer |-> c,
                     block |-> sub.block, credit |-> CreditReward(sub)]
           IN  /\ SameBut(st, r, {"cuTimers"}) /\ t \in CuTimers
               /\ r.cuTimers = {u \in st.cuTimers : u.at # t.at \/ u.consumer # t.consumer} \cup {t}
<1> DEFINE t == [at |-> block + StaleBlocks - 1, consumer |-> c,
                 block |-> sub.block, credit |-> CreditReward(sub)]
           T == {u \in st.cuTimers : u.at # t.at \/ u.consumer # t.consumer} \cup {t}
<1>1. block + StaleBlocks - 1 \in Nat
  BY Bounds
<1>2. CreditReward(sub) \in Nat
  BY SubParts, RewardBound DEF CreditReward
<1>3. t \in CuTimers
  BY <1>1, <1>2, SubParts DEF CuTimers
<1>4. T \in SUBSET CuTimers
  <2> HIDE DEF t
  <2> QED BY <1>3, ChainParts
<1>5. AddCuTrackerTimer(st, c, block, sub) = [st EXCEPT !.cuTimers = T]
  BY DEF AddCuTrackerTimer, AddCuTimer, Chain
<1> HIDE DEF T, t
<1>6. SameBut(st, [st EXCEPT !.cuTimers = T], {"cuTimers"}) /\ [st EXCEPT !.cuTimers = T].cuTimers = T
  BY <1>4, CuTimersSet
<1> QED BY <1>3, <1>5, <1>6 DEF T, t

LEMMA RestartIs ==
    ASSUME Clock, NEW st \in Chain, NEW c \in Consumers, NEW sub, NEW d
    PROVE  SameBut(st, RestartTimer(st, c, sub, d), {"months"})
<1> DEFINE old == [at |-> sub.expiry, consumer |-> c]
           M == (IF d THEN st.months \ {old} ELSE st.months) \cup {[at |-> NextMonth, consumer |-> c]}
<1>1. M \in SUBSET MonthTimers
  BY ClockBounds, ChainParts DEF MonthTimers
<1>2. RestartTimer(st, c, sub, d) = [st EXCEPT !.months = M]
  BY DEF RestartTimer, Chain
<1> HIDE DEF M
<1> QED BY <1>1, <1>2, MonthsSet

LEMMA ResetIs ==
    ASSUME Clock, NEW st \in Chain, NEW c \in Consumers, NEW sub \in Subs, NEW b \in Targets, NEW d \in BOOLEAN
    PROVE  LET r == ResetAndAppend(st, c, sub, b, d)
               new == [sub EXCEPT !.block = b, !.expiry = NextMonth]
           IN  /\ SameBut(st, r, {"subs", "admin", "months"}) /\ new \in Subs
               /\ r.subs[c] = AppendEntry(st.subs[c], b, new)
               /\ \A x \in Consumers \ {c} : r.subs[x] = st.subs[x]
<1> DEFINE new == [sub EXCEPT !.block = b, !.expiry = NextMonth]
           timed == RestartTimer(st, c, sub, d)
           appended == [timed EXCEPT !.subs[c] = AppendEntry(@, b, new)]
<1>1. new \in Subs
  BY ClockBounds DEF Subs
<1>2. SameBut(st, timed, {"months"})
  BY RestartIs
<1>3. ResetAndAppend(st, c, sub, b, d) =
        IF ~AppendSucceeds(st.subs[c], b) THEN timed ELSE SnapshotProjects(appended, c, b)
  BY DEF ResetAndAppend
<1> HIDE DEF timed, new
<1>4. timed \in Chain /\ timed.subs = st.subs /\ AppendEntry(timed.subs[c], b, new) \in StoreOf(Subs)
  BY <1>1, <1>2, ChainParts, AppendTyped, ClockBounds DEF SameBut
<1>5. /\ SameBut(timed, appended, {"subs"}) /\ appended.subs[c] = AppendEntry(st.subs[c], b, new)
      /\ \A x \in Consumers \ {c} : appended.subs[x] = st.subs[x]
  BY <1>4, SubsSet
<1> HIDE DEF appended
<1>6. SameBut(appended, SnapshotProjects(appended, c, b), {"admin"})
  BY <1>5, SnapshotIs DEF SameBut
<1>7. ~AppendSucceeds(st.subs[c], b) => AppendEntry(st.subs[c], b, new) = st.subs[c]
  BY DEF AppendEntry
<1> QED BY <1>1, <1>2, <1>3, <1>5, <1>6, <1>7 DEF SameBut, new

LEMMA RemoveIs ==
    ASSUME Clock, NEW st \in Chain, NEW c \in Consumers, NEW p \in PlanIndices, NEW b
    PROVE  LET r == RemoveExpired(st, c, p, b)
           IN  /\ SameBut(st, r, {"plans", "subs", "admin"})
               /\ r.subs[c] = DelEntry(st.subs[c], NextEpoch)
               /\ \A x \in Consumers \ {c} : r.subs[x] = st.subs[x]
<1> DEFINE cleared == DelAllProjects(st, c)
           deleted == [cleared EXCEPT !.subs[c] = DelEntry(@, NextEpoch)]
<1>1. SameBut(st, cleared, {"admin"})
  BY DelAllIs
<1>2. RemoveExpired(st, c, p, b) =
        IF DelSucceeds(cleared.subs[c], NextEpoch) THEN PutPlan(deleted, p, b) ELSE cleared
  BY DEF RemoveExpired
<1> HIDE DEF cleared
<1>3. cleared \in Chain /\ cleared.subs = st.subs /\ DelEntry(cleared.subs[c], NextEpoch) \in StoreOf(Subs)
  BY <1>1, ChainParts, ClockBounds, DelTyped DEF SameBut
<1>4. /\ SameBut(cleared, deleted, {"subs"}) /\ deleted.subs[c] = DelEntry(st.subs[c], NextEpoch)
      /\ \A x \in Consumers \ {c} : deleted.subs[x] = st.subs[x]
  BY <1>3, SubsSet
<1> HIDE DEF deleted
<1>5. SameBut(deleted, PutPlan(deleted, p, b), {"plans"})
  BY <1>4, PutPlanIs DEF SameBut
<1>6. ~DelSucceeds(st.subs[c], NextEpoch) => DelEntry(st.subs[c], NextEpoch) = st.subs[c]
  BY DEF DelEntry
<1> QED BY <1>1, <1>2, <1>3, <1>4, <1>5, <1>6 DEF SameBut

-----------------------------------------------------------------------------
(* The handlers.                                                             *)

LEMMA PriceNat ==
    ASSUME NEW p \in PlanIndices, NEW d \in Durations
    PROVE  DiscountedPrice(p, d) \in Nat /\ d \in Nat /\ d > 0
<1> DEFINE a == Price[p] * d
           k == 100 - DiscountPercent
           m == a * k
<1>1. Price[p] \in Nat /\ d \in Nat /\ d > 0 /\ k \in Nat
  BY PriceAssumption, DurationAssumption, DiscountAssumption
<1>2. a \in Nat
  BY <1>1
<1>3. DiscountedPrice(p, d) = IF d >= DiscountMonths THEN m \div 100 ELSE a
  BY DEF DiscountedPrice
<1> HIDE DEF a, k
<1>4. m \in Nat
  BY <1>1, <1>2
<1> HIDE DEF m
<1>5. m \div 100 \in Nat
  BY <1>4
<1> QED BY <1>1, <1>2, <1>3, <1>5

\* What a lookup finds in the stores of the chain.
LEMMA PlanFoundIs ==
    ASSUME NEW st \in Chain, NEW p \in PlanIndices, NEW b \in Int, FindPlan(st, p, b) # NoBlock
    PROVE  FindPlan(st, p, b) \in Targets
  BY ChainParts, FindVersion DEF FindPlan

LEMMA SubFoundIs ==
    ASSUME NEW st \in Chain, NEW c \in Consumers, NEW b \in Int, SubBlock(st, c, b) # NoBlock
    PROVE  /\ SubBlock(st, c, b) \in Versions(st.subs[c])
           /\ SubData(st, c, SubBlock(st, c, b)) \in Subs
<1>1. st.subs[c] \in StoreOf(Subs)
  BY ChainParts
<1>2. SubBlock(st, c, b) \in Versions(st.subs[c]) /\ st.subs[c].entries[SubBlock(st, c, b)] \in Entries(Subs)
  BY <1>1, FindVersion DEF SubBlock
<1> QED BY <1>2, EntryParts DEF SubData

\* An append that succeeds leaves the version with its data.
LEMMA AppendLeaves ==
    ASSUME NEW D, NEW s \in StoreOf(D), ctx \in Blocks, NEW b \in Targets, NEW d \in D,
           AppendSucceeds(s, b)
    PROVE  b \in Versions(AppendEntry(s, b, d)) /\ AppendEntry(s, b, d).entries[b].data = d
<1>1. b \in Int
  BY Bounds
<1>2. CASE ~IsFirst(s, b) /\ b = Nearest(s, b)
  <2>1. b \in Versions(s)
    BY <1>1, <1>2, NearestVersion DEF IsFirst
  <2>2. s.entries[b] \in Entries(D)
    BY <2>1, EntryOfStore
  <2> DEFINE e == [s.entries[b] EXCEPT !.data = d]
  <2>3. e \in Entries(D) /\ e.data = d
    BY <2>2 DEF Entries
  <2>4. AppendEntry(s, b, d) = SetEntry(s, b, e)
    BY <1>2, <2>1 DEF AppendEntry, ModifyEntry
  <2> HIDE DEF e
  <2> QED BY <2>3, <2>4, SetEntryTyped
<1>3. CASE ~(~IsFirst(s, b) /\ b = Nearest(s, b))
  <2>1. AppendEntry(s, b, d) = Supersede(s, b, d, Nearest(s, b), IsFirst(s, b))
    BY <1>3 DEF AppendEntry
  <2>2. PICK u, e : Supersede(s, b, d, Nearest(s, b), IsFirst(s, b)) = SetEntry(u, b, e) /\ e.data = d
    BY DEF Supersede
  <2>3. AppendEntry(s, b, d) \in StoreOf(D)
    BY AppendTyped
  <2>4. SetEntry(u, b, e).entries = [x \in DOMAIN u.entries \cup {b} |-> IF x = b THEN e ELSE u.entries[x]]
    <3>1. SetEntry(u, b, e) = [u EXCEPT !.entries = [x \in DOMAIN @ \cup {b} |-> IF x = b THEN e ELSE u.entries[x]]]
      BY DEF SetEntry
    <3>2. "entries" \in DOMAIN SetEntry(u, b, e)
      BY <2>1, <2>2, <2>3 DEF StoreOf
    <3>3. "entries" \in DOMAIN u
      BY <3>1, <3>2
    <3> QED BY <3>1, <3>3
  <2> QED BY <2>1, <2>2, <2>4 DEF Versions
<1> QED BY <1>2, <1>3

LEMMA NewSubscriptionIs ==
    ASSUME Clock, NEW st \in Chain, NEW c \in Consumers, NEW p \in PlanIndices, NEW d \in Durations,
           NEW a \in BOOLEAN, CreateSucceeds(st, c, p)
    PROVE  LET r == NewSubscription(st, c, p, d, a)
           IN  /\ SameBut(st, r, {"plans", "subs", "admin", "months", "balance"})
               /\ r.balance = st.balance + DiscountedPrice(p, d)
               /\ \E sub \in Subs : /\ sub.block = ctx /\ sub.credit = DiscountedPrice(p, d)
                                    /\ sub.future = NoFuture
                                    /\ r.subs[c] = AppendEntry(st.subs[c], ctx, sub)
               /\ \A x \in Consumers \ {c} : r.subs[x] = st.subs[x]
<1> DEFINE price == DiscountedPrice(p, d)
           sub == [block |-> ctx, plan |-> p, planBlock |-> FindPlan(st, p, ctx),
                   left |-> d, expiry |-> NextMonth, credit |-> price,
                   renew |-> IF a THEN p ELSE None, future |-> NoFuture]
           made == CreateAdminProject(st, c)
           got == GetPlan(made, p)
           paid == [got EXCEPT !.balance = @ + price]
           M == st.months \cup {[at |-> NextMonth, consumer |-> c]}
           s == AppendEntry(st.subs[c], ctx, sub)
           r0 == [paid EXCEPT !.subs[c] = s]
           r == [paid EXCEPT !.subs[c] = AppendEntry(@, ctx, sub),
                             !.months = @ \cup {[at |-> NextMonth, consumer |-> c]}]
<1>1. price \in Nat /\ d \in Nat
  BY PriceNat
<1>2. FindPlan(st, p, ctx) \in Targets
  BY ClockBounds, PlanFoundIs DEF CreateSucceeds
<1>3. sub \in Subs /\ sub.block = ctx /\ sub.credit = price /\ sub.future = NoFuture
  <2>1. NoFuture \in Futures /\ (IF a THEN p ELSE None) \in PlanIndices \cup {None}
    BY DEF Futures
  <2> HIDE DEF price
  <2> QED BY <1>1, <1>2, <2>1, ClockBounds DEF Subs
<1>4. SameBut(st, made, {"admin"})
  BY ClockBounds, AppendAdminIs DEF CreateAdminProject
<1> HIDE DEF price, sub, made
<1>5. SameBut(made, got, {"plans"})
  BY <1>4, GetPlanIs DEF SameBut
<1> HIDE DEF got
<1>6. got \in Chain /\ got.balance = st.balance /\ got.balance \in Int
  BY <1>4, <1>5, ChainParts DEF SameBut
<1>7. SameBut(got, paid, {"balance"}) /\ paid.balance = st.balance + price
  <2>1. got.balance + price \in Int
    BY <1>1, <1>6
  <2>2. paid = [got EXCEPT !.balance = got.balance + price]
    OBVIOUS
  <2> QED BY <1>6, <2>1, <2>2, BalanceSet
<1> HIDE DEF paid
<1>8. paid \in Chain /\ paid.subs = st.subs /\ paid.months = st.months
  BY <1>4, <1>5, <1>7 DEF SameBut
<1>9. s \in StoreOf(Subs) /\ M \in SUBSET MonthTimers
  BY <1>3, ChainParts, AppendTyped, ClockBounds DEF MonthTimers
<1>10. r = [r0 EXCEPT !.months = M]
  BY <1>8 DEF Chain
<1> HIDE DEF s, M
<1>11. /\ SameBut(paid, r0, {"subs"}) /\ r0.subs[c] = s
       /\ \A x \in Consumers \ {c} : r0.subs[x] = paid.subs[x]
  BY <1>8, <1>9, SubsSet
<1> HIDE DEF r, r0
<1>12. SameBut(r0, r, {"months"})
  BY <1>9, <1>10, <1>11, MonthsSet DEF SameBut
<1>13. NewSubscription(st, c, p, d, a) = r
  BY DEF NewSubscription, r, paid, got, made, sub, price
<1>14. SameBut(st, r, {"plans", "subs", "admin", "months", "balance"}) /\ r.balance = st.balance + price
  BY <1>4, <1>5, <1>7, <1>11, <1>12 DEF SameBut
<1>15. r.subs[c] = AppendEntry(st.subs[c], ctx, sub) /\ \A x \in Consumers \ {c} : r.subs[x] = st.subs[x]
  BY <1>8, <1>11, <1>12 DEF SameBut, s
<1> QED BY <1>3, <1>13, <1>14, <1>15 DEF price

\* A handler that only rewrites the version found, and moves n tokens.
LEMMA ModifyPaid ==
    ASSUME Clock, NEW st \in Chain, NEW c \in Consumers, NEW p \in PlanIndices, NEW sub \in Subs,
           NEW n \in Int
    PROVE  LET r == [ModifySub(GetPlan(st, p), c, sub) EXCEPT !.balance = @ + n]
           IN  /\ SameBut(st, r, {"plans", "subs", "balance"})
               /\ r.balance = st.balance + n
               /\ r.subs[c] = ModifyEntry(st.subs[c], sub.block, sub)
               /\ \A x \in Consumers \ {c} : r.subs[x] = st.subs[x]
<1> DEFINE got == GetPlan(st, p)
           m == ModifySub(got, c, sub)
           r == [m EXCEPT !.balance = m.balance + n]
<1>1. SameBut(st, got, {"plans"})
  BY GetPlanIs
<1> HIDE DEF got
<1>2. got \in Chain /\ got.subs = st.subs /\ got.balance = st.balance /\ st.balance \in Int
  BY <1>1, ChainParts DEF SameBut
<1>3. /\ SameBut(got, m, {"subs"}) /\ m.subs[c] = ModifyEntry(got.subs[c], sub.block, sub)
      /\ \A x \in Consumers \ {c} : m.subs[x] = got.subs[x]
  BY <1>2, ModifySubIs
<1> HIDE DEF m
<1>4. m \in Chain /\ m.balance = st.balance /\ m.balance + n \in Int
  BY <1>2, <1>3 DEF SameBut
<1>5. SameBut(m, r, {"balance"}) /\ r.balance = st.balance + n
  BY <1>4, BalanceSet
<1> HIDE DEF r
<1>6. SameBut(st, r, {"plans", "subs", "balance"}) /\ r.subs = m.subs
  BY <1>1, <1>3, <1>5 DEF SameBut
<1>7. [ModifySub(GetPlan(st, p), c, sub) EXCEPT !.balance = @ + n] = r
  BY DEF r, m, got
<1> QED BY <1>2, <1>3, <1>5, <1>6, <1>7

LEMMA ExtendedIs ==
    ASSUME Clock, NEW st \in Chain, NEW c \in Consumers, NEW p \in PlanIndices, NEW d \in Durations,
           ExtendSucceeds(st, c, p, d)
    PROVE  LET r == Extended(st, c, p, d)
               old == SubData(st, c, SubBlock(st, c, NextEpoch))
           IN  /\ SameBut(st, r, {"plans", "subs", "balance"})
               /\ r.balance = st.balance + DiscountedPrice(p, d)
               /\ \E sub \in Subs : /\ sub.block = old.block /\ sub.future = old.future
                                    /\ sub.credit = old.credit + DiscountedPrice(p, d)
                                    /\ r.subs[c] = ModifyEntry(st.subs[c], sub.block, sub)
               /\ \A x \in Consumers \ {c} : r.subs[x] = st.subs[x]
<1> DEFINE price == DiscountedPrice(p, d)
           old == SubData(st, c, SubBlock(st, c, NextEpoch))
           sub == [old EXCEPT !.left = @ + d, !.credit = @ + price]
<1>1. price \in Nat /\ price \in Int /\ d \in Nat
  BY PriceNat
<1>2. old \in Subs
  BY SubFoundIs, ClockBounds DEF ExtendSucceeds
<1>3. Extended(st, c, p, d) = [ModifySub(GetPlan(st, p), c, sub) EXCEPT !.balance = @ + price]
  BY DEF Extended
<1> HIDE DEF price, old
<1>4. old.left + d \in Nat /\ old.credit + price \in Nat
  BY <1>1, <1>2, SubParts
<1>5. /\ sub \in Subs /\ sub.block = old.block /\ sub.future = old.future
      /\ sub.credit = old.credit + price
  BY <1>2, <1>4 DEF Subs
<1> HIDE DEF sub
<1> DEFINE r == [ModifySub(GetPlan(st, p), c, sub) EXCEPT !.balance = @ + price]
<1>6. /\ SameBut(st, r, {"plans", "subs", "balance"})
      /\ r.balance = st.balance + price
      /\ r.subs[c] = ModifyEntry(st.subs[c], sub.block, sub)
      /\ \A x \in Consumers \ {c} : r.subs[x] = st.subs[x]
  BY <1>1, <1>5, ModifyPaid
<1> HIDE DEF r
<1>7. Extended(st, c, p, d) = r
  BY <1>3 DEF r
<1> QED BY <1>5, <1>6, <1>7 DEF price, old

LEMMA AdvancedIs ==
    ASSUME Clock, NEW st \in Chain, NEW c \in Consumers, NEW p \in PlanIndices, NEW d \in Durations,
           AdvanceSucceeds(st, c, p, d)
    PROVE  LET r == Advanced(st, c, p, d)
               old == SubData(st, c, SubBlock(st, c, NextEpoch))
           IN  /\ SameBut(st, r, {"plans", "subs", "balance"})
               /\ r.balance = st.balance + DiscountedPrice(p, d) - old.future.credit
               /\ \E sub \in Subs : /\ sub.block = old.block /\ sub.credit = old.credit
                                    /\ sub.future.credit = DiscountedPrice(p, d)
                                    /\ r.subs[c] = ModifyEntry(st.subs[c], sub.block, sub)
               /\ \A x \in Consumers \ {c} : r.subs[x] = st.subs[x]
<1> DEFINE price == DiscountedPrice(p, d)
           old == SubData(st, c, SubBlock(st, c, NextEpoch))
           future == [plan |-> p, planBlock |-> FindPlan(st, p, ctx), bought |-> d, credit |-> price]
           sub == [old EXCEPT !.future = future]
           n == price - old.future.credit
           m == ModifySub(GetPlan(st, p), c, sub)
<1>1. price \in Nat /\ d \in Nat
  BY PriceNat
<1>2. old \in Subs /\ FindPlan(st, p, ctx) \in Targets
  BY SubFoundIs, PlanFoundIs, ClockBounds DEF AdvanceSucceeds
<1>3. Advanced(st, c, p, d) =
        [m EXCEPT !.balance = @ + future.credit - old.future.credit]
  BY DEF Advanced
<1> HIDE DEF price, old
<1>4. future \in Futures /\ future.credit = price
  BY <1>1, <1>2 DEF Futures
<1> HIDE DEF future
<1>5. /\ sub \in Subs /\ sub.block = old.block /\ sub.credit = old.credit /\ sub.future.credit = price
  BY <1>2, <1>4 DEF Subs
<1>6. n \in Int /\ old.future.credit \in Int
  BY <1>1, <1>2, SubParts, FutureParts
<1> HIDE DEF sub, n
<1> DEFINE r == [m EXCEPT !.balance = @ + n]
<1>7. /\ SameBut(st, r, {"plans", "subs", "balance"})
      /\ r.balance = st.balance + n
      /\ r.subs[c] = ModifyEntry(st.subs[c], sub.block, sub)
      /\ \A x \in Consumers \ {c} : r.subs[x] = st.subs[x]
  BY <1>5, <1>6, ModifyPaid
<1>8. m \in Chain
  <2>1. GetPlan(st, p) \in Chain
    BY GetPlanIs DEF SameBut
  <2> QED BY <1>5, <2>1, ModifySubIs DEF SameBut
<1>9. m.balance + future.credit - old.future.credit = m.balance + n
  <2>1. m.balance \in Int
    BY <1>8, ChainParts
  <2> HIDE DEF m
  <2> QED BY <1>1, <1>4, <1>6, <2>1 DEF n
<1>10. Advanced(st, c, p, d) = r
  <2> HIDE DEF m
  <2> QED BY <1>3, <1>9 DEF r
<1> HIDE DEF r
<1>11. st.balance + n = st.balance + price - old.future.credit
  BY <1>1, <1>6, ChainParts DEF n
<1> QED BY <1>5, <1>7, <1>10, <1>11 DEF price, old

LEMMA RenewalSetIs ==
    ASSUME Clock, NEW st \in Chain, NEW c \in Consumers, NEW p \in PlanIndices \cup {None},
           RenewalSucceeds(st, c, p)
    PROVE  LET r == RenewalSet(st, c, p)
               old == SubData(st, c, SubBlock(st, c, ctx))
           IN  /\ SameBut(st, r, {"subs"})
               /\ \E sub \in Subs : /\ sub.block = old.block /\ sub.credit = old.credit
                                    /\ sub.future = old.future
                                    /\ r.subs[c] = AppendEntry(st.subs[c], sub.block, sub)
               /\ \A x \in Consumers \ {c} : r.subs[x] = st.subs[x]
<1> DEFINE old == SubData(st, c, SubBlock(st, c, ctx))
           sub == [old EXCEPT !.renew = p]
           s == AppendEntry(st.subs[c], old.block, sub)
<1>1. old \in Subs
  BY SubFoundIs, ClockBounds DEF RenewalSucceeds
<1>2. RenewalSet(st, c, p) = [st EXCEPT !.subs[c] = s]
  BY DEF RenewalSet
<1> HIDE DEF old
<1>3. /\ sub \in Subs /\ sub.block = old.block /\ sub.credit = old.credit /\ sub.future = old.future
  BY <1>1 DEF Subs
<1> HIDE DEF sub
<1>4. s \in StoreOf(Subs)
  BY <1>1, <1>3, SubParts, ChainParts, ClockBounds, AppendTyped
<1>5. /\ SameBut(st, [st EXCEPT !.subs[c] = s], {"subs"}) /\ [st EXCEPT !.subs[c] = s].subs[c] = s
      /\ \A x \in Consumers \ {c} : [st EXCEPT !.subs[c] = s].subs[x] = st.subs[x]
  BY <1>4, SubsSet
<1> QED BY <1>2, <1>3, <1>5 DEF old

LEMMA UpgradedIs ==
    ASSUME Clock, NEW st \in Chain, NEW c \in Consumers, NEW p \in PlanIndices, NEW d \in Durations,
           UpgradeSucceeds(st, c, p)
    PROVE  LET r == Upgraded(st, c, p, d)
               old == SubData(st, c, SubBlock(st, c, NextEpoch))
               t == [at |-> ctx + StaleBlocks - 1, consumer |-> c,
                     block |-> old.block, credit |-> CreditReward(old)]
           IN  /\ SameBut(st, r, {"plans", "subs", "admin", "months", "cuTimers", "balance"})
               /\ old \in Subs /\ old.left > 0
               /\ r.balance = st.balance + DiscountedPrice(p, d)
               /\ t \in CuTimers
               /\ r.cuTimers = {u \in st.cuTimers : u.at # t.at \/ u.consumer # t.consumer} \cup {t}
               /\ \E sub, new \in Subs :
                    /\ sub.block = NextEpoch /\ new.block = NextEpoch
                    /\ new.credit = DiscountedPrice(p, d) /\ new.future = old.future
                    /\ r.subs[c] = ModifyEntry(AppendEntry(st.subs[c], NextEpoch, sub), NextEpoch, new)
               /\ \A x \in Consumers \ {c} : r.subs[x] = st.subs[x]
<1> DEFINE price == DiscountedPrice(p, d)
           old == SubData(st, c, SubBlock(st, c, NextEpoch))
           b == FindPlan(st, p, ctx)
           sub == [old EXCEPT !.left = 0, !.credit = 0, !.plan = p, !.planBlock = b]
           got == GetPlan(st, p)
           tracked1 == AddCuTrackerTimer(got, c, ctx, old)
           reset == ResetAndAppend(tracked1, c, sub, NextEpoch, TRUE)
           sub2 == [sub EXCEPT !.block = NextEpoch, !.expiry = NextMonth]
           new == [SubData(reset, c, NextEpoch) EXCEPT !.left = d, !.credit = price]
           m == ModifySub(reset, c, new)
           r == [m EXCEPT !.balance = @ + price]
           t == [at |-> ctx + StaleBlocks - 1, consumer |-> c,
                 block |-> old.block, credit |-> CreditReward(old)]
<1>1. price \in Nat /\ d \in Nat
  BY PriceNat
<1>2. old \in Subs /\ b \in Targets /\ old.left > 0 /\ AppendSucceeds(st.subs[c], NextEpoch)
  BY SubFoundIs, PlanFoundIs, ClockBounds DEF UpgradeSucceeds
<1>3. Upgraded(st, c, p, d) = r
  BY DEF Upgraded
<1> HIDE DEF price, old, b
<1>4. /\ sub \in Subs /\ sub.future = old.future
  BY <1>2 DEF Subs
<1>5. SameBut(st, got, {"plans"})
  BY GetPlanIs
<1> HIDE DEF sub, got
<1>6. got \in Chain /\ got.cuTimers = st.cuTimers /\ got.subs = st.subs /\ got.balance = st.balance
  BY <1>5 DEF SameBut
<1>7. /\ SameBut(got, tracked1, {"cuTimers"}) /\ t \in CuTimers
      /\ tracked1.cuTimers = {u \in st.cuTimers : u.at # t.at \/ u.consumer # t.consumer} \cup {t}
  BY <1>2, <1>6, ClockBounds, CuTimerIs
<1> HIDE DEF tracked1, t
<1>8. tracked1 \in Chain /\ tracked1.subs = st.subs
  BY <1>6, <1>7 DEF SameBut
<1>9. /\ SameBut(tracked1, reset, {"subs", "admin", "months"}) /\ sub2 \in Subs
      /\ reset.subs[c] = AppendEntry(st.subs[c], NextEpoch, sub2)
      /\ \A x \in Consumers \ {c} : reset.subs[x] = st.subs[x]
  <2>1. /\ SameBut(tracked1, reset, {"subs", "admin", "months"}) /\ sub2 \in Subs
        /\ reset.subs[c] = AppendEntry(tracked1.subs[c], NextEpoch, sub2)
        /\ \A x \in Consumers \ {c} : reset.subs[x] = tracked1.subs[x]
    <3>1. NextEpoch \in Targets
      BY ClockBounds
    <3> HIDE DEF m, r, new
    <3>2. TRUE \in BOOLEAN
      OBVIOUS
    <3> QED BY <1>4, <1>8, <3>1, <3>2, ResetIs
  <2> HIDE DEF reset, sub2
  <2> QED BY <1>8, <2>1
<1> HIDE DEF reset
<1>10. sub2.block = NextEpoch /\ sub2.future = old.future
  BY <1>4 DEF Subs
<1> HIDE DEF sub2
<1>11. SubData(reset, c, NextEpoch) = sub2
  BY <1>2, <1>9, ChainParts, ClockBounds, AppendLeaves DEF SubData
<1>12. new \in Subs /\ new.block = NextEpoch /\ new.future = old.future /\ new.credit = price
  BY <1>1, <1>9, <1>10, <1>11 DEF Subs
<1> HIDE DEF new
<1>13. reset \in Chain /\ reset.balance = st.balance /\ st.balance \in Int
  BY <1>5, <1>7, <1>9, ChainParts DEF SameBut
<1>14. /\ SameBut(reset, m, {"subs"}) /\ m.subs[c] = ModifyEntry(reset.subs[c], NextEpoch, new)
       /\ \A x \in Consumers \ {c} : m.subs[x] = reset.subs[x]
  BY <1>12, <1>13, ModifySubIs
<1> HIDE DEF m
<1>15. m \in Chain /\ m.balance = st.balance /\ m.balance + price \in Int
  BY <1>1, <1>13, <1>14 DEF SameBut
<1>16. SameBut(m, r, {"balance"}) /\ r.balance = st.balance + price
  BY <1>15, BalanceSet
<1> HIDE DEF r
<1>17. SameBut(st, r, {"plans", "subs", "admin", "months", "cuTimers", "balance"})
  BY <1>5, <1>7, <1>9, <1>14, <1>16 DEF SameBut
<1>18. r.cuTimers = tracked1.cuTimers /\ r.subs = m.subs
  BY <1>9, <1>14, <1>16 DEF SameBut
<1>19. /\ sub2 \in Subs /\ new \in Subs /\ sub2.block = NextEpoch /\ new.block = NextEpoch
       /\ new.credit = price /\ new.future = old.future
       /\ r.subs[c] = ModifyEntry(AppendEntry(st.subs[c], NextEpoch, sub2), NextEpoch, new)
  BY <1>9, <1>10, <1>12, <1>14, <1>18
<1>20. /\ r.cuTimers = {u \in st.cuTimers : u.at # t.at \/ u.consumer # t.consumer} \cup {t}
       /\ \A x \in Consumers \ {c} : r.subs[x] = st.subs[x]
  BY <1>7, <1>9, <1>14, <1>18
<1> QED BY <1>2, <1>3, <1>7, <1>16, <1>17, <1>19, <1>20 DEF price, old, t

-----------------------------------------------------------------------------
(* advanceMonth.                                                             *)

LEMMA ActivateIs ==
    ASSUME Clock, NEW st \in Chain, NEW c \in Consumers, NEW sub \in Subs, sub.future # NoFuture
    PROVE  LET r == ActivateFuture(st, c, sub)
           IN  /\ SameBut(st, r, {"plans", "subs", "admin", "months"})
               /\ \/ r.subs[c] = DelEntry(st.subs[c], NextEpoch)
                  \/ \E new \in Subs : /\ new.block = NextEpoch /\ new.credit = sub.future.credit
                                       /\ new.future = NoFuture
                                       /\ r.subs[c] = AppendEntry(st.subs[c], NextEpoch, new)
               /\ \A x \in Consumers \ {c} : r.subs[x] = st.subs[x]
<1> DEFINE f == sub.future
           new == [sub EXCEPT !.plan = f.plan, !.planBlock = f.planBlock, !.left = f.bought,
                              !.credit = f.credit, !.future = NoFuture]
           new2 == [new EXCEPT !.block = NextEpoch, !.expiry = NextMonth]
           d == RemoveExpired(st, c, sub.plan, sub.planBlock)
           a == ResetAndAppend(st, c, new, NextEpoch, FALSE)
<1>1. f.plan \in PlanIndices /\ f.planBlock \in Targets /\ f.bought \in Nat /\ f.credit \in Nat
  BY SubParts, FutureParts
<1>2. new \in Subs /\ new.credit = f.credit /\ new.future = NoFuture
  <2>1. NoFuture \in Futures
    BY DEF Futures
  <2> HIDE DEF f
  <2> QED BY <1>1, <2>1 DEF Subs
<1>3. ActivateFuture(st, c, sub) = IF FindPlan(st, f.plan, f.planBlock) = NoBlock THEN d ELSE a
  BY DEF ActivateFuture
<1> HIDE DEF new
<1>4. /\ SameBut(st, d, {"plans", "subs", "admin"}) /\ d.subs[c] = DelEntry(st.subs[c], NextEpoch)
      /\ \A x \in Consumers \ {c} : d.subs[x] = st.subs[x]
  BY SubParts, RemoveIs
<1>5. /\ SameBut(st, a, {"subs", "admin", "months"}) /\ new2 \in Subs
      /\ a.subs[c] = AppendEntry(st.subs[c], NextEpoch, new2)
      /\ \A x \in Consumers \ {c} : a.subs[x] = st.subs[x]
  <2>1. FALSE \in BOOLEAN /\ NextEpoch \in Targets
    BY ClockBounds
  <2> QED BY <1>2, <2>1, ResetIs
<1>6. new2.block = NextEpoch /\ new2.credit = f.credit /\ new2.future = NoFuture
  BY <1>2 DEF Subs
<1> HIDE DEF d, a, new2
<1>7. SameBut(st, d, {"plans", "subs", "admin", "months"}) /\ SameBut(st, a, {"plans", "subs", "admin", "months"})
  BY <1>4, <1>5 DEF SameBut
<1> QED BY <1>3, <1>4, <1>5, <1>6, <1>7

LEMMA RenewIs ==
    ASSUME Clock, NEW st \in Chain, NEW c \in Consumers, NEW sub \in Subs, sub.renew # None, NEW funded
    PROVE  LET r == RenewOrRemove(st, c, sub, funded)
           IN  /\ SameBut(st, r, {"plans", "subs", "admin", "months", "balance"})
               /\ \E zero \in Subs, n \in Nat :
                    /\ zero.block = sub.block /\ zero.credit = sub.credit /\ zero.future = sub.future
                    /\ r.balance = st.balance + n
                    /\ LET m == ModifyEntry(st.subs[c], sub.block, zero)
                       IN  \/ r.subs[c] = DelEntry(m, NextEpoch)
                           \/ /\ AppendSucceeds(m, ctx)
                              /\ \E new \in Subs : /\ new.block = ctx /\ new.credit = sub.credit + n
                                                   /\ new.future = sub.future
                                                   /\ r.subs[c] = AppendEntry(m, ctx, new)
               /\ \A x \in Consumers \ {c} : r.subs[x] = st.subs[x]
<1> DEFINE zs == [sub EXCEPT !.left = 0]
           zero == ModifySub(st, c, zs)
           n == Price[sub.renew]
           new == [RenewedPlan(st, sub) EXCEPT !.left = 1, !.credit = @ + n]
           new2 == [new EXCEPT !.block = ctx, !.expiry = NextMonth]
           paid == [zero EXCEPT !.balance = @ + n]
           renewed == ResetAndAppend(paid, c, new, ctx, FALSE)
           m == ModifyEntry(st.subs[c], sub.block, zs)
           d1 == RemoveExpired(zero, c, new.plan, new.planBlock)
           d2 == RemoveExpired(renewed, c, new.plan, new.planBlock)
           r == RenewOrRemove(st, c, sub, funded)
<1>1. sub.renew \in PlanIndices
  BY SubParts
<1>2. n \in Nat
  BY <1>1, PriceAssumption
<1>3. /\ zs \in Subs /\ zs.block = sub.block /\ zs.credit = sub.credit /\ zs.future = sub.future
  BY DEF Subs
<1>4. /\ RenewedPlan(st, sub) \in Subs /\ RenewedPlan(st, sub).credit = sub.credit
      /\ RenewedPlan(st, sub).future = sub.future
  <2> DEFINE b == FindPlan(st, sub.renew, ctx)
             y == [sub EXCEPT !.plan = sub.renew, !.planBlock = b]
  <2>1. b # NoBlock => b \in Targets
    BY <1>1, PlanFoundIs, ClockBounds
  <2>2. RenewedPlan(st, sub) = IF b = NoBlock THEN sub ELSE y
    BY DEF RenewedPlan
  <2> HIDE DEF b
  <2>3. b # NoBlock => y \in Subs /\ y.credit = sub.credit /\ y.future = sub.future
    BY <1>1, <2>1 DEF Subs
  <2> QED BY <2>2, <2>3
<1>5. /\ new \in Subs /\ new.credit = sub.credit + n /\ new.future = sub.future
  <2> DEFINE y == RenewedPlan(st, sub)
  <2> HIDE DEF y
  <2>1. y \in Subs /\ y.credit = sub.credit /\ y.future = sub.future
    BY <1>4 DEF y
  <2>2. y.credit + n \in Nat
    BY <1>2, <2>1, SubParts
  <2> HIDE DEF n
  <2>3. new = [y EXCEPT !.left = 1, !.credit = @ + n]
    BY DEF y
  <2>4. new = [y EXCEPT !.left = 1, !.credit = y.credit + n]
    BY <2>3
  <2> HIDE DEF new
  <2> QED BY <2>1, <2>2, <2>4 DEF Subs
<1>6. /\ r = (IF FindPlan(st, sub.renew, ctx) = NoBlock \/ ~funded THEN d1
              ELSE IF ~AppendSucceeds(paid.subs[c], ctx) THEN d2 ELSE renewed)
  BY DEF RenewOrRemove
<1> HIDE DEF zs, new, n, r
<1>7. /\ SameBut(st, zero, {"subs"}) /\ zero.subs[c] = m
      /\ \A x \in Consumers \ {c} : zero.subs[x] = st.subs[x]
  BY <1>3, ModifySubIs
<1> HIDE DEF zero
<1>8. zero \in Chain /\ zero.balance = st.balance /\ st.balance \in Int /\ zero.balance + n \in Int
  BY <1>2, <1>7, ChainParts DEF SameBut
<1>9. SameBut(zero, paid, {"balance"}) /\ paid.balance = st.balance + n
  BY <1>8, BalanceSet
<1> HIDE DEF paid
<1>10. paid \in Chain /\ paid.subs = zero.subs
  BY <1>9 DEF SameBut
<1>11. /\ SameBut(paid, renewed, {"subs", "admin", "months"}) /\ new2 \in Subs
       /\ renewed.subs[c] = AppendEntry(paid.subs[c], ctx, new2)
       /\ \A x \in Consumers \ {c} : renewed.subs[x] = paid.subs[x]
  <2>1. FALSE \in BOOLEAN /\ ctx \in Targets
    BY ClockBounds
  <2> QED BY <1>5, <1>10, <2>1, ResetIs
<1> HIDE DEF renewed
<1>12. new2.block = ctx /\ new2.credit = sub.credit + n /\ new2.future = sub.future
  BY <1>5 DEF Subs
<1> HIDE DEF new2
<1>13. new.plan \in PlanIndices /\ renewed \in Chain
  BY <1>5, <1>11, SubParts DEF SameBut
<1>14. /\ SameBut(zero, d1, {"plans", "subs", "admin"}) /\ d1.subs[c] = DelEntry(m, NextEpoch)
       /\ \A x \in Consumers \ {c} : d1.subs[x] = st.subs[x]
  <2>1. /\ SameBut(zero, d1, {"plans", "subs", "admin"}) /\ d1.subs[c] = DelEntry(zero.subs[c], NextEpoch)
        /\ \A x \in Consumers \ {c} : d1.subs[x] = zero.subs[x]
    BY <1>8, <1>13, RemoveIs
  <2> QED BY <1>7, <2>1
<1>15. /\ SameBut(renewed, d2, {"plans", "subs", "admin"})
       /\ d2.subs[c] = DelEntry(renewed.subs[c], NextEpoch)
       /\ \A x \in Consumers \ {c} : d2.subs[x] = renewed.subs[x]
  BY <1>13, RemoveIs
<1> HIDE DEF d1, d2, m
<1>16. CASE r = d1
  <2>1. SameBut(st, d1, {"plans", "subs", "admin", "months", "balance"}) /\ d1.balance = st.balance + 0
    BY <1>7, <1>8, <1>14 DEF SameBut
  <2>2. 0 \in Nat
    OBVIOUS
  <2> QED BY <1>3, <1>14, <1>16, <2>1, <2>2 DEF m, r
<1>17. CASE r = d2 /\ ~AppendSucceeds(paid.subs[c], ctx)
  <2>1. SameBut(st, d2, {"plans", "subs", "admin", "months", "balance"}) /\ d2.balance = st.balance + n
    BY <1>7, <1>9, <1>11, <1>15 DEF SameBut
  <2>2. renewed.subs[c] = m
    BY <1>7, <1>10, <1>11, <1>17 DEF AppendEntry
  <2>3. d2.subs[c] = DelEntry(m, NextEpoch) /\ \A x \in Consumers \ {c} : d2.subs[x] = st.subs[x]
    BY <1>7, <1>10, <1>11, <1>15, <2>2
  <2> QED BY <1>2, <1>3, <1>17, <2>1, <2>3 DEF m, r
<1>18. CASE r = renewed /\ AppendSucceeds(paid.subs[c], ctx)
  <2>1. /\ SameBut(st, renewed, {"plans", "subs", "admin", "months", "balance"})
        /\ renewed.balance = st.balance + n
    BY <1>7, <1>9, <1>11 DEF SameBut
  <2>2. AppendSucceeds(m, ctx) /\ renewed.subs[c] = AppendEntry(m, ctx, new2)
        /\ \A x \in Consumers \ {c} : renewed.subs[x] = st.subs[x]
    BY <1>7, <1>10, <1>11, <1>18
  <2> QED BY <1>2, <1>3, <1>11, <1>12, <1>18, <2>1, <2>2 DEF m, r
<1> QED BY <1>6, <1>16, <1>17, <1>18

\* The record r after the month of c, whose subscription is old, is over.
MonthOver(st, r, c, old) ==
    LET reward == CreditReward(old)
        t == [at |-> NextEpoch + StaleBlocks - 1, consumer |-> c,
              block |-> old.block, credit |-> reward]
    IN  /\ SameBut(st, r, {"plans", "subs", "admin", "months", "cuTimers", "balance"})
        /\ t \in CuTimers
        /\ r.cuTimers = {u \in st.cuTimers : u.at # t.at \/ u.consumer # t.consumer} \cup {t}
        /\ \A x \in Consumers \ {c} : r.subs[x] = st.subs[x]
        /\ \E kept \in Subs, n \in Nat :
             /\ kept.block = old.block /\ kept.credit = old.credit - reward
             /\ kept.future = old.future /\ r.balance = st.balance + n
             /\ LET m == ModifyEntry(st.subs[c], old.block, kept)
                IN  \/ r.subs[c] = DelEntry(st.subs[c], NextEpoch)
                    \/ r.subs[c] = DelEntry(m, NextEpoch)
                    \/ \E new \in Subs :
                         /\ new.block = NextEpoch
                         /\ new.credit + new.future.credit + reward <= old.credit + old.future.credit
                         /\ r.subs[c] = AppendEntry(st.subs[c], NextEpoch, new)
                    \/ /\ AppendSucceeds(m, ctx)
                       /\ \E new \in Subs :
                            /\ new.block = ctx /\ new.credit + reward = old.credit + n
                            /\ new.future = old.future
                            /\ r.subs[c] = AppendEntry(m, ctx, new)

LEMMA AdvanceMonthIs ==
    ASSUME Clock, NEW st \in Chain, NEW c \in Consumers, NEW funded
    PROVE  LET r == AdvanceMonth(st, c, funded)
               old == SubData(st, c, SubBlock(st, c, NextEpoch))
           IN  \/ SubBlock(st, c, NextEpoch) = NoBlock /\ r = st
               \/ r = Fail(st)
               \/ /\ SubBlock(st, c, NextEpoch) # NoBlock /\ old \in Subs /\ old.left > 0
                  /\ MonthOver(st, r, c, old)
<1> DEFINE block == SubBlock(st, c, NextEpoch)
           old == SubData(st, c, block)
           reward == CreditReward(old)
           t == [at |-> NextEpoch + StaleBlocks - 1, consumer |-> c,
                 block |-> old.block, credit |-> reward]
           tracked1 == AddCuTrackerTimer(st, c, NextEpoch, old)
           sub == [MinusReward(old) EXCEPT !.left = @ - 1]
           r == AdvanceMonth(st, c, funded)
           on == ResetAndAppend(tracked1, c, sub, NextEpoch, FALSE)
           on2 == [sub EXCEPT !.block = NextEpoch, !.expiry = NextMonth]
           fu == ActivateFuture(tracked1, c, sub)
           re == RenewOrRemove(tracked1, c, sub, funded)
           ex == RemoveExpired(tracked1, c, sub.plan, sub.planBlock)
           m == ModifyEntry(st.subs[c], old.block, sub)
<1>1. r = IF block = NoBlock THEN st
          ELSE IF old.left = 0 THEN Fail(st)
          ELSE IF sub.left > 0 THEN on
          ELSE IF sub.future # NoFuture THEN fu
          ELSE IF sub.renew # None THEN re
          ELSE ex
  BY DEF AdvanceMonth
<1> SUFFICES ASSUME block # NoBlock, old.left # 0
             PROVE  old \in Subs /\ old.left > 0 /\ MonthOver(st, r, c, old)
  BY <1>1
<1>2. old \in Subs
  BY SubFoundIs, ClockBounds
<1>3. r = IF sub.left > 0 THEN on ELSE IF sub.future # NoFuture THEN fu
          ELSE IF sub.renew # None THEN re ELSE ex
  BY <1>1
<1> HIDE DEF block, old, r
<1>4. old.left \in Nat /\ old.left > 0 /\ old.credit \in Nat /\ old.block \in Targets /\ old.future \in Futures
  BY <1>2, SubParts
<1>5. reward \in Nat /\ reward <= old.credit
  BY <1>4, RewardBound DEF CreditReward
<1>6. /\ sub \in Subs /\ sub.block = old.block /\ sub.credit = old.credit - reward
      /\ sub.future = old.future
  <2>1. old.credit - reward \in Nat /\ old.left - 1 \in Nat
    BY <1>4, <1>5
  <2> HIDE DEF reward
  <2>2. sub = [old EXCEPT !.credit = old.credit - reward, !.left = old.left - 1]
    BY <1>2 DEF Subs, MinusReward, reward
  <2> HIDE DEF sub
  <2> QED BY <1>2, <2>1, <2>2 DEF Subs
<1> HIDE DEF sub
<1>7. /\ SameBut(st, tracked1, {"cuTimers"}) /\ t \in CuTimers
      /\ tracked1.cuTimers = {u \in st.cuTimers : u.at # t.at \/ u.consumer # t.consumer} \cup {t}
  BY <1>2, <1>4, ClockBounds, CuTimerIs
<1> HIDE DEF tracked1, t
<1>8. tracked1 \in Chain /\ tracked1.subs = st.subs /\ tracked1.balance = st.balance /\ st.balance \in Int
  BY <1>7, ChainParts DEF SameBut
<1> HIDE DEF reward
<1> DEFINE All == {"plans", "subs", "admin", "months", "cuTimers", "balance"}
<1>9. ASSUME SameBut(tracked1, r, {"plans", "subs", "admin", "months", "balance"}),
             \A x \in Consumers \ {c} : r.subs[x] = tracked1.subs[x]
      PROVE  /\ SameBut(st, r, All) /\ t \in CuTimers
             /\ r.cuTimers = {u \in st.cuTimers : u.at # t.at \/ u.consumer # t.consumer} \cup {t}
             /\ \A x \in Consumers \ {c} : r.subs[x] = st.subs[x]
  BY <1>7, <1>8, <1>9 DEF SameBut
<1> DEFINE Left(n) ==
             \/ r.subs[c] = DelEntry(st.subs[c], NextEpoch)
             \/ r.subs[c] = DelEntry(m, NextEpoch)
             \/ \E new \in Subs :
                  /\ new.block = NextEpoch
                  /\ new.credit + new.future.credit + reward <= old.credit + old.future.credit
                  /\ r.subs[c] = AppendEntry(st.subs[c], NextEpoch, new)
             \/ /\ AppendSucceeds(m, ctx)
                /\ \E new \in Subs :
                     /\ new.block = ctx /\ new.credit + reward = old.credit + n
                     /\ new.future = old.future
                     /\ r.subs[c] = AppendEntry(m, ctx, new)
<1>11. CASE r = on
  <2>1. /\ SameBut(tracked1, on, {"subs", "admin", "months"}) /\ on2 \in Subs
        /\ on.subs[c] = AppendEntry(tracked1.subs[c], NextEpoch, on2)
        /\ \A x \in Consumers \ {c} : on.subs[x] = tracked1.subs[x]
    <3>1. FALSE \in BOOLEAN /\ NextEpoch \in Targets
      BY ClockBounds
    <3> QED BY <1>6, <1>8, <3>1, ResetIs
  <2>2. on2.block = NextEpoch /\ on2.credit = sub.credit /\ on2.future = sub.future
    BY <1>6 DEF Subs
  <2> HIDE DEF on, on2
  <2>3. SameBut(tracked1, r, {"plans", "subs", "admin", "months", "balance"}) /\ r.balance = st.balance + 0
    BY <1>8, <1>11, <2>1 DEF SameBut
  <2>4. on2.credit + on2.future.credit + reward <= old.credit + old.future.credit
    <3>1. old.future.credit \in Nat
      BY <1>4, FutureParts
    <3> QED BY <1>4, <1>5, <1>6, <2>2, <3>1
  <2>5. Left(0)
    BY <1>8, <1>11, <2>1, <2>2, <2>4
  <2> HIDE DEF Left
  <2>6. sub \in Subs /\ 0 \in Nat
    BY <1>6
  <2>7. \A x \in Consumers \ {c} : r.subs[x] = tracked1.subs[x]
    BY <1>11, <2>1
  <2>8. MonthOver(st, r, c, old)
    BY <1>6, <1>9, <2>3, <2>5, <2>6, <2>7 DEF MonthOver, Left, All, t, reward, m
  <2> QED BY <1>2, <1>4, <2>8
<1>12. CASE r = fu /\ ~(sub.left > 0) /\ sub.future # NoFuture
  <2>1. /\ SameBut(tracked1, fu, {"plans", "subs", "admin", "months"})
        /\ \/ fu.subs[c] = DelEntry(tracked1.subs[c], NextEpoch)
           \/ \E new \in Subs : /\ new.block = NextEpoch /\ new.credit = sub.future.credit
                                /\ new.future = NoFuture
                                /\ fu.subs[c] = AppendEntry(tracked1.subs[c], NextEpoch, new)
        /\ \A x \in Consumers \ {c} : fu.subs[x] = tracked1.subs[x]
    BY <1>6, <1>8, <1>12, ActivateIs
  <2> HIDE DEF fu
  <2>3. SameBut(tracked1, r, {"plans", "subs", "admin", "months", "balance"}) /\ r.balance = st.balance + 0
    BY <1>8, <1>12, <2>1 DEF SameBut
  <2>4. \A new \in Subs : new.credit = sub.future.credit /\ new.future = NoFuture =>
          new.credit + new.future.credit + reward <= old.credit + old.future.credit
    <3>1. old.future.credit \in Nat /\ NoFuture.credit = 0
      BY <1>4, FutureParts DEF NoFuture
    <3> QED BY <1>4, <1>5, <1>6, <3>1
  <2>5. Left(0)
    BY <1>8, <1>12, <2>1, <2>4
  <2> HIDE DEF Left
  <2>6. sub \in Subs /\ 0 \in Nat
    BY <1>6
  <2>7. \A x \in Consumers \ {c} : r.subs[x] = tracked1.subs[x]
    BY <1>12, <2>1
  <2>8. MonthOver(st, r, c, old)
    BY <1>6, <1>9, <2>3, <2>5, <2>6, <2>7 DEF MonthOver, Left, All, t, reward, m
  <2> QED BY <1>2, <1>4, <2>8
<1>13. CASE r = re /\ sub.renew # None
  <2>1. /\ SameBut(tracked1, re, {"plans", "subs", "admin", "months", "balance"})
        /\ \E zero \in Subs, n \in Nat :
             /\ zero.block = sub.block /\ zero.credit = sub.credit /\ zero.future = sub.future
             /\ re.balance = tracked1.balance + n
             /\ LET m1 == ModifyEntry(tracked1.subs[c], sub.block, zero)
                IN  \/ re.subs[c] = DelEntry(m1, NextEpoch)
                    \/ /\ AppendSucceeds(m1, ctx)
                       /\ \E new \in Subs : /\ new.block = ctx /\ new.credit = sub.credit + n
                                            /\ new.future = sub.future
                                            /\ re.subs[c] = AppendEntry(m1, ctx, new)
        /\ \A x \in Consumers \ {c} : re.subs[x] = tracked1.subs[x]
    BY <1>6, <1>8, <1>13, RenewIs
  <2> HIDE DEF re
  <2>2. PICK zero \in Subs, n \in Nat :
             /\ zero.block = sub.block /\ zero.credit = sub.credit /\ zero.future = sub.future
             /\ re.balance = tracked1.balance + n
             /\ LET m1 == ModifyEntry(tracked1.subs[c], sub.block, zero)
                IN  \/ re.subs[c] = DelEntry(m1, NextEpoch)
                    \/ /\ AppendSucceeds(m1, ctx)
                       /\ \E new \in Subs : /\ new.block = ctx /\ new.credit = sub.credit + n
                                            /\ new.future = sub.future
                                            /\ re.subs[c] = AppendEntry(m1, ctx, new)
    BY <2>1
  <2> DEFINE m1 == ModifyEntry(st.subs[c], old.block, zero)
  <2>3. SameBut(tracked1, r, {"plans", "subs", "admin", "months", "balance"}) /\ r.balance = st.balance + n
    BY <1>8, <1>13, <2>1, <2>2
  <2>4. \A new \in Subs : new.credit = sub.credit + n => new.credit + reward = old.credit + n
    BY <1>4, <1>5, <1>6
  <2>5. \/ r.subs[c] = DelEntry(m1, NextEpoch)
        \/ /\ AppendSucceeds(m1, ctx)
           /\ \E new \in Subs : /\ new.block = ctx /\ new.credit + reward = old.credit + n
                                /\ new.future = old.future
                                /\ r.subs[c] = AppendEntry(m1, ctx, new)
    BY <1>6, <1>8, <1>13, <2>2, <2>4
  <2> HIDE DEF m1
  <2>7. \A x \in Consumers \ {c} : r.subs[x] = tracked1.subs[x]
    BY <1>13, <2>1
  <2>8. zero.block = old.block /\ zero.credit = old.credit - reward /\ zero.future = old.future
    BY <1>6, <2>2
  <2>9. MonthOver(st, r, c, old)
    BY <1>9, <2>3, <2>5, <2>7, <2>8 DEF MonthOver, All, t, reward, m1
  <2> QED BY <1>2, <1>4, <2>9
<1>14. CASE r = ex
  <2>1. /\ SameBut(tracked1, ex, {"plans", "subs", "admin"})
        /\ ex.subs[c] = DelEntry(tracked1.subs[c], NextEpoch)
        /\ \A x \in Consumers \ {c} : ex.subs[x] = tracked1.subs[x]
    BY <1>6, <1>8, SubParts, RemoveIs
  <2> HIDE DEF ex
  <2>3. SameBut(tracked1, r, {"plans", "subs", "admin", "months", "balance"}) /\ r.balance = st.balance + 0
    BY <1>8, <1>14, <2>1 DEF SameBut
  <2>5. Left(0)
    BY <1>8, <1>14, <2>1
  <2> HIDE DEF Left
  <2>6. sub \in Subs /\ 0 \in Nat
    BY <1>6
  <2>7. \A x \in Consumers \ {c} : r.subs[x] = tracked1.subs[x]
    BY <1>14, <2>1
  <2>8. MonthOver(st, r, c, old)
    BY <1>6, <1>9, <2>3, <2>5, <2>6, <2>7 DEF MonthOver, Left, All, t, reward, m
  <2> QED BY <1>2, <1>4, <2>8
<1> QED BY <1>3, <1>11, <1>12, <1>13, <1>14

LEMMA PayoutIs ==
    ASSUME Clock, NEW st \in Chain, NEW t \in CuTimers, NEW rewarded \in 0..t.credit, NEW sent \in 0..rewarded
    PROVE  LET r == Payout(st, t, rewarded, sent)
               c == t.consumer
               b == SubBlock(st, c, ctx)
           IN  /\ SameBut(st, r, {"subs", "cuTimers", "balance"})
               /\ r.cuTimers = st.cuTimers \ {t}
               /\ \A x \in Consumers \ {c} : r.subs[x] = st.subs[x]
               /\ \/ r.subs[c] = st.subs[c] /\ r.balance >= st.balance - t.credit
                  \/ /\ b # NoBlock /\ r.balance >= st.balance - rewarded
                     /\ \E new \in Subs : LET old == SubData(st, c, b) IN
                          /\ new.block = old.block /\ new.future = old.future
                          /\ new.credit = old.credit + t.credit - rewarded
                          /\ r.subs[c] = ModifyEntry(st.subs[c], b, new)
<1> DEFINE c == t.consumer
           n == t.credit - rewarded
           T == st.cuTimers \ {t}
           k == st.balance - sent
           j == st.unsent + (rewarded - sent)
           u0 == [st EXCEPT !.cuTimers = T]
           u1 == [u0 EXCEPT !.balance = k]
           u == [u1 EXCEPT !.unsent = j]
           b == SubBlock(u, c, ctx)
           old == SubData(u, c, b)
           new == [old EXCEPT !.credit = @ + n]
           s == ModifyEntry(u.subs[c], b, new)
           r == Payout(st, t, rewarded, sent)
<1>1. /\ c \in Consumers /\ t.credit \in Nat /\ n \in Nat /\ st.balance \in Int /\ k \in Int /\ rewarded \in Int
      /\ j \in Int /\ sent \in Int /\ sent <= rewarded
  BY ChainParts DEF CuTimers
<1>2. T \in SUBSET CuTimers
  BY ChainParts
<1>3. r = ReturnCredit(u, c, n)
  <2>1. u = Send(st, t, rewarded, sent)
    BY DEF Chain, Send
  <2> QED BY <2>1 DEF Payout
<1>4. ReturnCredit(u, c, n) = IF b = NoBlock THEN [u EXCEPT !.balance = @ - n] ELSE [u EXCEPT !.subs[c] = s]
  BY DEF ReturnCredit
<1> HIDE DEF T, k, j, n, r, c
<1>5. SameBut(st, u0, {"cuTimers"}) /\ u0.cuTimers = T
  BY <1>2, CuTimersSet
<1> HIDE DEF u0
<1>11. SameBut(u0, u1, {"balance"}) /\ u1.balance = k
  BY <1>1, <1>5, BalanceSet DEF SameBut
<1> HIDE DEF u1
<1>6. SameBut(u0, u, {"balance"}) /\ u.balance = k
  <2>1. SameBut(u1, u, {})
    BY <1>1, <1>11, UnsentSet DEF SameBut
  <2> HIDE DEF u
  <2> QED BY <1>11, <2>1 DEF SameBut
<1> HIDE DEF u
<1>7. u \in Chain /\ u.subs = st.subs /\ u.cuTimers = T
  BY <1>5, <1>6 DEF SameBut
<1>8. b = SubBlock(st, c, ctx) /\ old = SubData(st, c, b)
  BY <1>7 DEF SubBlock, SubData
<1> HIDE DEF b, old
<1>9. CASE b = NoBlock
  <2>1. k - n \in Int /\ k - n >= st.balance - t.credit
    BY <1>1 DEF k, n
  <2>2. SameBut(u, r, {"balance"}) /\ r.balance = k - n
    BY <1>3, <1>4, <1>6, <1>7, <1>9, <2>1, BalanceSet
  <2>3. SameBut(st, r, {"subs", "cuTimers", "balance"}) /\ r.subs = st.subs /\ r.cuTimers = T
    BY <1>5, <1>6, <2>2 DEF SameBut
  <2> QED BY <2>1, <2>2, <2>3 DEF r, c, T
<1>10. CASE b # NoBlock
  <2>1. old \in Subs
    BY <1>1, <1>8, <1>10, SubFoundIs, ClockBounds
  <2>2. old.credit + n \in Nat /\ old.credit + n = old.credit + t.credit - rewarded
    BY <1>1, <2>1, SubParts DEF n
  <2>3. /\ new \in Subs /\ new.block = old.block /\ new.future = old.future
        /\ new.credit = old.credit + t.credit - rewarded
    BY <2>1, <2>2 DEF Subs
  <2> HIDE DEF new
  <2>4. s \in StoreOf(Subs)
    BY <1>1, <1>7, <2>3, ChainParts, ModifyTyped
  <2>5. /\ SameBut(u, r, {"subs"}) /\ r.subs[c] = s
        /\ \A x \in Consumers \ {c} : r.subs[x] = u.subs[x]
    BY <1>1, <1>3, <1>4, <1>7, <1>10, <2>4, SubsSet
  <2>6. SameBut(st, r, {"subs", "cuTimers", "balance"}) /\ r.cuTimers = T /\ r.balance = k
    BY <1>5, <1>6, <2>5 DEF SameBut
  <2>7. r.subs[c] = ModifyEntry(st.subs[c], b, new) /\ \A x \in Consumers \ {c} : r.subs[x] = st.subs[x]
    BY <1>7, <2>5
  <2>8. k >= st.balance - rewarded
    BY <1>1 DEF k
  <2> QED BY <1>8, <1>10, <2>3, <2>6, <2>7, <2>8 DEF r, c, T
<1> QED BY <1>9, <1>10

-----------------------------------------------------------------------------
(* The types hold throughout.                                                *)

Typed == Clock /\ chain \in Chain

LEMMA InitTyped == Init => Typed
<1> SUFFICES ASSUME Init PROVE Typed
  OBVIOUS
<1>1. Clock
  BY EpochAssumption, Bounds DEF Init, Clock
<1>2. EpochBlocks = ctx /\ ctx \in Targets /\ ctx \in Blocks
  BY <1>1, ClockBounds DEF Init
<1>3. AppendEntry(EmptyStore, EpochBlocks, "plan") \in StoreOf({"plan"})
  BY <1>2, EmptyTyped, AppendTyped
<1>4. EmptyStore \in StoreOf(Subs) /\ EmptyStore \in StoreOf({"project"})
  BY EmptyTyped
<1>5. InitChain \in Chain
  BY <1>3, <1>4 DEF InitChain, Chain
<1> QED BY <1>1, <1>5 DEF Init, Typed

LEMMA TransactionTyped ==
    ASSUME Typed, Transaction
    PROVE  chain' \in Chain /\ ctx' = ctx
<1>0. Clock /\ chain \in Chain
  BY DEF Typed
<1>1. ctx' = ctx
  BY DEF Transaction, AddPlan, DelPlan, Buy, Extend, Upgrade, BuyAdvance, AutoRenewal, DelProject, Deliver
<1>2. ASSUME NEW p \in PlanIndices, AddPlan(p) PROVE chain' \in Chain
  <2>1. AppendEntry(chain.plans[p], ctx, "plan") \in StoreOf({"plan"})
    BY <1>0, ChainParts, ClockBounds, AppendTyped
  <2> QED BY <1>0, <1>2, <2>1, PlansSet DEF AddPlan, Deliver, SameBut
<1>3. ASSUME NEW p \in PlanIndices, DelPlan(p) PROVE chain' \in Chain
  <2>1. DelEntry(chain.plans[p], NextEpoch) \in StoreOf({"plan"})
    BY <1>0, ChainParts, ClockBounds, DelTyped
  <2> QED BY <1>0, <1>3, <2>1, PlansSet DEF DelPlan, Deliver, SameBut
<1>4. ASSUME NEW c \in Consumers, NEW p \in PlanIndices, NEW d \in Durations, NEW a \in BOOLEAN,
             Buy(c, p, d, a) PROVE chain' \in Chain
  BY <1>0, <1>4, NewSubscriptionIs DEF Buy, Deliver, SameBut
<1>5. ASSUME NEW c \in Consumers, NEW p \in PlanIndices, NEW d \in Durations, Extend(c, p, d)
      PROVE  chain' \in Chain
  BY <1>0, <1>5, ExtendedIs DEF Extend, Deliver, SameBut
<1>6. ASSUME NEW c \in Consumers, NEW p \in PlanIndices, NEW d \in Durations, Upgrade(c, p, d)
      PROVE  chain' \in Chain
  BY <1>0, <1>6, UpgradedIs DEF Upgrade, Deliver, SameBut
<1>7. ASSUME NEW c \in Consumers, NEW p \in PlanIndices, NEW d \in Durations, BuyAdvance(c, p, d)
      PROVE  chain' \in Chain
  BY <1>0, <1>7, AdvancedIs DEF BuyAdvance, Deliver, SameBut
<1>8. ASSUME NEW c \in Consumers, NEW p \in PlanIndices \cup {None}, AutoRenewal(c, p)
      PROVE  chain' \in Chain
  BY <1>0, <1>8, RenewalSetIs DEF AutoRenewal, Deliver, SameBut
<1>9. ASSUME NEW c \in Consumers, DelProject(c) PROVE chain' \in Chain
  BY <1>0, <1>9, DelAllIs DEF DelProject, Deliver, SameBut
<1>10. ASSUME NEW a \in BOOLEAN PROVE (a /\ "auto_renewal" \in kinds) \in BOOLEAN
  OBVIOUS
<1> QED BY <1>1, <1>2, <1>3, <1>4, <1>5, <1>6, <1>7, <1>8, <1>9, <1>10 DEF Transaction

LEMMA BlockStepTyped ==
    ASSUME Typed, BlockStep
    PROVE  chain' \in Chain /\ Clock'
<1>0. Clock /\ chain \in Chain /\ ctx \in Blocks
  BY ClockBounds DEF Typed
<1>1. CASE TxsDone \/ StoresTicked \/ BlockBegun
  BY <1>0, <1>1 DEF TxsDone, StoresTicked, BlockBegun, Clock
<1>2. CASE EndBlock
  <2>1. ctx + 1 \in EpochBlocks..MaxBlock
    BY <1>0, <1>2, Bounds, EpochAssumption DEF EndBlock, Clock
  <2> QED BY <1>0, <1>2, <2>1 DEF EndBlock, Clock
<1>3. ASSUME NEW p \in PlanIndices, NEW t \in Due(chain.plans[p]), TickPlans(p, t)
      PROVE  chain' \in Chain /\ Clock'
  <2>1. Fire(chain.plans[p], t) \in StoreOf({"plan"})
    BY <1>0, ChainParts, FireTyped DEF Due
  <2> QED BY <1>0, <1>3, <2>1, PlansSet DEF TickPlans, SameBut, Clock
<1>4. ASSUME NEW c \in Consumers, NEW t \in Due(chain.admin[c]), TickAdmins(c, t)
      PROVE  chain' \in Chain /\ Clock'
  <2>1. Fire(chain.admin[c], t) \in StoreOf({"project"})
    BY <1>0, ChainParts, FireTyped DEF Due
  <2> QED BY <1>0, <1>4, <2>1, AdminSet DEF TickAdmins, SameBut, Clock
<1>5. ASSUME NEW c \in Consumers, NEW t \in Due(chain.subs[c]), TickSubs(c, t)
      PROVE  chain' \in Chain /\ Clock'
  <2>1. Fire(chain.subs[c], t) \in StoreOf(Subs)
    BY <1>0, ChainParts, FireTyped DEF Due
  <2> QED BY <1>0, <1>5, <2>1, SubsSet DEF TickSubs, SameBut, Clock
<1>6. ASSUME NEW m \in MonthsDue, NEW funded \in BOOLEAN, MonthExpires(m, funded)
      PROVE  chain' \in Chain /\ Clock'
  <2> DEFINE M == chain.months \ {m}
             st == [chain EXCEPT !.months = M]
  <2>1. M \in SUBSET MonthTimers /\ m.consumer \in Consumers
    BY <1>0, ChainParts DEF MonthsDue, MonthTimers
  <2>2. chain' = AdvanceMonth(st, m.consumer, funded) /\ ctx' = ctx
    BY <1>0, <1>6 DEF MonthExpires, Chain
  <2> HIDE DEF M
  <2>3. st \in Chain
    BY <1>0, <2>1, MonthsSet DEF SameBut
  <2> HIDE DEF st
  <2>4. AdvanceMonth(st, m.consumer, funded) \in Chain
    <3> DEFINE r == AdvanceMonth(st, m.consumer, funded)
               old == SubData(st, m.consumer, SubBlock(st, m.consumer, NextEpoch))
    <3>1. r = st \/ r = Fail(st) \/ MonthOver(st, r, m.consumer, old)
      BY <1>0, <2>1, <2>3, AdvanceMonthIs
    <3>2. Fail(st) \in Chain
      BY <2>3, FailSet DEF SameBut
    <3>3. MonthOver(st, r, m.consumer, old) => r \in Chain
      <4> HIDE DEF r, old
      <4> QED BY DEF MonthOver, SameBut
    <3> QED BY <2>3, <3>1, <3>2, <3>3
  <2> QED BY <1>0, <2>2, <2>4 DEF Clock
<1> QED BY <1>1, <1>2, <1>3, <1>4, <1>5, <1>6 DEF BlockStep

LEMMA StepTyped == Typed /\ [Next]_vars => Typed'
<1> SUFFICES ASSUME Typed, [Next]_vars PROVE Typed'
  OBVIOUS
<1>1. CASE Transaction
  BY <1>1, TransactionTyped DEF Typed, Clock
<1>2. CASE BlockStep
  BY <1>2, BlockStepTyped DEF Typed
<1>3. ASSUME NEW t \in CuTimersDue, NEW rewarded \in 0..t.credit, NEW sent \in 0..rewarded,
             PayCuTracker(t, rewarded, sent)
      PROVE  Typed'
  <2>1. t \in CuTimers /\ Clock /\ chain \in Chain
    BY ChainParts DEF CuTimersDue, Typed
  <2> QED BY <1>3, <2>1, PayoutIs DEF PayCuTracker, SameBut, Typed, Clock
<1>4. CASE UNCHANGED vars
  BY <1>4 DEF vars, Typed, Clock
<1> QED BY <1>1, <1>2, <1>3, <1>4 DEF Next

-----------------------------------------------------------------------------
(* The CU tracker implements the open payout.                                *)

Tracking == tracked \in [Consumers -> [Providers -> StoreOf(Nat)]]

LEMMA TokensBound ==
    ASSUME NEW credit \in Nat, NEW k \in Nat, k > 0
    PROVE  TotalTokens(credit, k) \in Nat /\ TotalTokens(credit, k) <= credit
<1> DEFINE q == credit \div k
<1>1. TokenLimit \in Nat
  BY CuAssumption
<1>2. q \in Nat /\ q * k <= credit
  BY QuotientTimes
<1>3. TotalTokens(credit, k) = IF q > TokenLimit THEN TokenLimit * k ELSE credit
  BY DEF TotalTokens
<1> HIDE DEF q
<1>4. TokenLimit * k \in Nat
  BY <1>1
<1>5. ASSUME q > TokenLimit PROVE TokenLimit * k <= q * k
  BY <1>1, <1>2, <1>5
<1>6. q * k \in Nat
  BY <1>2
<1> QED BY <1>2, <1>3, <1>4, <1>5, <1>6

\* The providers' shares never exceed the month's credit.
LEMMA RewardedBound ==
    ASSUME Tracking, NEW t \in CuTimers, NEW paid \in SUBSET TrackedProviders(t.consumer, t.block)
    PROVE  Rewarded(t, paid) \in 0..t.credit
<1> DEFINE c == t.consumer
           b == t.block
           P == TrackedProviders(c, b)
           f == [v \in P |-> TrackedCu(c, v, b)]
           k == TotalCu(c, b)
           g == [v \in paid |-> MonthlyReward(t, v)]
           n == TotalTokens(t.credit, k)
<1>1. c \in Consumers /\ b \in Targets /\ b \in Int /\ t.credit \in Nat
  BY Bounds DEF CuTimers
<1>2. IsFiniteSet(P) /\ P \in SUBSET Providers
  BY ProvidersAssumption, FS_Subset DEF TrackedProviders
<1>3. ASSUME NEW v \in P PROVE f[v] \in Nat
  <2>1. tracked[c][v] \in StoreOf(Nat)
    BY <1>1, <1>2 DEF Tracking
  <2>2. Find(tracked[c][v], b) = b /\ b # NoBlock
    BY <1>1, Bounds DEF TrackedProviders
  <2>3. tracked[c][v].entries[b] \in Entries(Nat)
    BY <1>1, <2>1, <2>2, FindVersion
  <2> QED BY <2>3, EntryParts DEF TrackedCu
<1>4. k = SumFunctionOnSet(f, P)
  BY DEF TotalCu
<1>5. Rewarded(t, paid) = IF k = 0 THEN 0 ELSE SumFunctionOnSet(g, paid)
  BY DEF Rewarded
<1> HIDE DEF f, k
<1>6. k \in Nat
  BY <1>2, <1>3, <1>4, SumNat
<1>7. CASE k = 0
  BY <1>1, <1>5, <1>7
<1>8. CASE k # 0
  <2>1. k > 0
    BY <1>6, <1>8
  <2>2. n \in Nat /\ n <= t.credit
    BY <1>1, <1>6, <2>1, TokensBound
  <2>3. ASSUME NEW v \in paid PROVE g[v] = (n * f[v]) \div k
    BY DEF MonthlyReward, f, k
  <2>4. paid \in SUBSET P
    OBVIOUS
  <2> HIDE DEF n, P, g
  <2>5. IsFiniteSet(paid) /\ \A v \in paid : f[v] \in Nat
    BY <1>2, <1>3, <2>4, FS_Subset
  <2>6. SumFunctionOnSet(f, paid) <= k
    BY <1>2, <1>3, <1>4, <2>4, SumSubset
  <2>7. SumFunctionOnSet(g, paid) \in 0..n
    BY <1>6, <2>1, <2>2, <2>3, <2>5, <2>6, SumShares
  <2> QED BY <1>1, <1>5, <1>8, <2>2, <2>7
<1> QED BY <1>7, <1>8

CuTyped == Typed /\ Tracking

LEMMA CuInitTyped == CuInit => Init /\ CuTyped
<1>1. EmptyStore \in StoreOf(Nat)
  BY EmptyTyped
<1> QED BY <1>1, InitTyped DEF CuInit, CuTyped, Tracking

\* Every step of the tracker is one of the subscription module, or leaves it alone.
LEMMA CuStepImplements == CuTyped /\ [CuNext]_allVars => [Next]_vars
<1> SUFFICES ASSUME CuTyped, [CuNext]_allVars PROVE [Next]_vars
  OBVIOUS
<1>1. CASE Transaction \/ BlockStep
  BY <1>1 DEF Next
<1>2. ASSUME NEW c \in Consumers, NEW v \in Providers, NEW e, NEW cu, Claim(c, v, e, cu)
      PROVE  UNCHANGED vars
  BY <1>2 DEF Claim
<1>3. ASSUME NEW t \in CuTimersDue, NEW sent \in 0..Rewarded(t, Paid(t)), PayProviders(t, sent)
      PROVE  Next
  <2> DEFINE paid == IF TotalCu(t.consumer, t.block) = 0 THEN {} ELSE Paid(t)
  <2>1. t \in CuTimers
    BY ChainParts DEF CuTimersDue, CuTyped, Typed
  <2>2. paid \in SUBSET TrackedProviders(t.consumer, t.block) /\ Rewarded(t, paid) = Rewarded(t, Paid(t))
    BY DEF Paid, Rewarded
  <2>3. PayCuTracker(t, Rewarded(t, paid), sent)
    BY <1>3 DEF PayProviders
  <2> HIDE DEF paid
  <2>4. Rewarded(t, paid) \in 0..t.credit
    BY <2>1, <2>2, RewardedBound DEF CuTyped
  <2> QED BY <2>2, <2>3, <2>4 DEF Next
<1>6. ASSUME NEW t \in CuTimersDue, NEW done \in SUBSET Paid(t), NEW last \in done,
             NEW sent \in 0..Rewarded(t, done \ {last}), GiveUpPayout(t, done, sent)
      PROVE  Next
  <2> DEFINE paid == done \ {last}
  <2>1. t \in CuTimers /\ t.credit \in Nat
    BY ChainParts DEF CuTimersDue, CuTyped, Typed, CuTimers
  <2>2. paid \in SUBSET TrackedProviders(t.consumer, t.block)
    BY DEF Paid
  <2> HIDE DEF paid
  <2>3. Rewarded(t, paid) \in 0..t.credit
    BY <2>1, <2>2, RewardedBound DEF CuTyped
  <2>4. sent \in 0..t.credit /\ t.credit \in 0..t.credit
    BY <1>6, <2>1, <2>3 DEF paid
  <2> QED BY <1>6, <2>4 DEF GiveUpPayout, Next
<1>4. ASSUME NEW c \in Consumers, NEW v \in Providers, NEW t \in Due(tracked[c][v]), TickTrackers(c, v, t)
      PROVE  UNCHANGED vars
  BY <1>4 DEF TickTrackers
<1>5. CASE UNCHANGED allVars
  BY <1>5 DEF allVars
<1> QED BY <1>1, <1>2, <1>3, <1>4, <1>5, <1>6 DEF CuNext

LEMMA TrackingKept == CuTyped /\ [CuNext]_allVars => Tracking'
<1> SUFFICES ASSUME CuTyped, [CuNext]_allVars PROVE Tracking'
  OBVIOUS
<1>0. Tracking /\ Clock /\ chain \in Chain /\ ctx \in Blocks
  BY ClockBounds DEF CuTyped, Typed
<1>1. CASE UNCHANGED tracked
  BY <1>0, <1>1 DEF Tracking
<1>2. ASSUME NEW c \in Consumers, NEW v \in Providers, NEW k \in Lateness, NEW cu \in CuAmounts,
             EpochStart > k, Claim(c, v, EpochStart - k, cu)
      PROVE  Tracking'
  <2> DEFINE s == tracked[c][v]
             b == SubBlock(chain, c, EpochStart - k)
             new == AddTrackedCu(s, b, cu)
  <2>1. s \in StoreOf(Nat) /\ cu \in Nat
    BY <1>0, CuAssumption DEF Tracking
  <2>2. EpochStart - k \in Int
    BY <1>0, LatenessAssumption, ClockBounds, Bounds
  <2>3. b # NoBlock /\ tracked' = [tracked EXCEPT ![c][v] = new]
    BY <1>2 DEF Claim
  <2>4. b \in Versions(chain.subs[c]) /\ b \in Targets
    BY <1>0, <2>2, <2>3, ChainParts, FindVersion DEF SubBlock
  <2> HIDE DEF s, b
  <2>5. b \in Versions(s) => s.entries[b].data \in Nat
    BY <2>1, EntryOfStore, EntryParts
  <2>6. Find(s, b) = b => b \in Versions(s)
    <3>1. b \in Int /\ b # NoBlock
      BY <2>4, Bounds
    <3> QED BY <2>1, <3>1, FindVersion
  <2>7. Find(s, b) = b => s.entries[b].data + cu \in Nat
    BY <2>1, <2>5, <2>6
  <2>8. new \in StoreOf(Nat)
    BY <1>0, <2>1, <2>4, <2>7, ModifyTyped, AppendTyped DEF AddTrackedCu
  <2> HIDE DEF new
  <2> QED BY <1>0, <2>3, <2>8 DEF Tracking
<1>3. ASSUME NEW t \in CuTimersDue, NEW paid, Settle(t, paid) PROVE Tracking'
  <2> DEFINE c == t.consumer
             row == [v \in Providers |-> IF v \in paid THEN ResetCuTracker(tracked[c][v], t.block) ELSE tracked[c][v]]
  <2>1. c \in Consumers
    BY <1>0, ChainParts DEF CuTimersDue, CuTimers
  <2>2. tracked' = [tracked EXCEPT ![c] = row]
    BY <1>3 DEF Settle
  <2>3. ASSUME NEW v \in Providers
        PROVE  tracked[c][v] \in StoreOf(Nat) /\ ResetCuTracker(tracked[c][v], t.block) \in StoreOf(Nat)
    <3>1. tracked[c][v] \in StoreOf(Nat) /\ ctx \in Nat
      BY <1>0, <2>1, ClockBounds DEF Tracking
    <3> QED BY <1>0, <3>1, DelTyped DEF ResetCuTracker
  <2>4. row \in [Providers -> StoreOf(Nat)]
    BY <2>3
  <2> HIDE DEF row, c
  <2> QED BY <1>0, <2>1, <2>2, <2>4 DEF Tracking
<1>4. ASSUME NEW c \in Consumers, NEW v \in Providers, NEW t \in Due(tracked[c][v]), TickTrackers(c, v, t)
      PROVE  Tracking'
  <2> DEFINE s == Fire(tracked[c][v], t)
  <2>1. s \in StoreOf(Nat)
    BY <1>0, FireTyped DEF Tracking, Due
  <2>2. tracked' = [tracked EXCEPT ![c][v] = s]
    BY <1>4 DEF TickTrackers
  <2> HIDE DEF s
  <2> QED BY <1>0, <2>1, <2>2 DEF Tracking
<1> QED BY <1>1, <1>2, <1>3, <1>4 DEF CuNext, PayProviders, GiveUpPayout, Elsewhere, cuVars, allVars

\* The CU tracker implements the open payout of Subscription: what
\* RewardAndResetCuTracker pays to the providers, each share rounded down, is
\* never more than the month's credit, whatever of it cannot be sent and wherever
\* the payout is given up, and every other step of the tracker is
\* a step of x/subscription or leaves it as it is.
THEOREM TrackerImplementsSubscription == CuSpec => ImplementsSubscription
<1>1. CuInit => Init /\ CuTyped
  BY CuInitTyped
<1>2. CuTyped /\ [CuNext]_allVars => [Next]_vars
  BY CuStepImplements
<1>3. CuTyped /\ [CuNext]_allVars => CuTyped'
  BY <1>2, StepTyped, TrackingKept DEF CuTyped
<1> QED BY <1>1, <1>2, <1>3, PTL DEF CuSpec, ImplementsSubscription, Spec

-----------------------------------------------------------------------------
(* What a subscription store owes: the credits of its newest version, unless *)
(* it is being deleted.                                                      *)

Top(s, b) == b \in Versions(s) /\ \A c \in Versions(s) : c <= b
Worth(sub) == sub.credit + sub.future.credit
Live(s) == {b \in Versions(s) : Top(s, b) /\ s.entries[b].deleteAt = Never}
Debt(s) == IF Live(s) = {} THEN 0 ELSE Worth(s.entries[CHOOSE b \in Live(s) : TRUE].data)

\* v is the newest version before b, not deleted and referenced.
Below(s, b, v) ==
    /\ v \in Versions(s) /\ v < b /\ \A x \in Versions(s) : x < b => x <= v
    /\ s.entries[v].deleteAt = Never /\ s.entries[v].refcount > 0

\* At block now, with the next epoch at block next: versions start and are deleted at
\* the next epoch at the latest, and hold their block; the newest is deleted
\* or referenced; one that waits is not deleted and follows one that is not; timers
\* start the newest version only, and delete versions that are marked and held.
Starts(s, now, next) ==
    \A b \in Versions(s) :
        /\ b <= next /\ (b > now => b = next) /\ s.entries[b].data.block = b
        /\ s.entries[b].deleteAt = Never \/ s.entries[b].deleteAt <= next
Referenced(s) == \A b \in Versions(s) : Top(s, b) => s.entries[b].deleteAt # Never \/ s.entries[b].refcount > 0
Waits(s, now, b) == b > now \/ \E t \in s.timers : t.kind = Future /\ t.block = b
Follows(s, now) ==
    \A b \in Versions(s) : Top(s, b) /\ Waits(s, now, b) =>
        s.entries[b].deleteAt = Never /\ \E v \in Versions(s) : Below(s, b, v)
TimersFit(s) ==
    \A t \in s.timers :
        /\ t.kind = Future => t.at = t.block /\ Top(s, t.block)
        /\ t.kind = Delete => /\ t.block \in Versions(s) /\ t.at # Never
                              /\ s.entries[t.block].deleteAt = t.at
                              /\ s.entries[t.block].refcount > 0
Sound(s, now, next) == Starts(s, now, next) /\ Referenced(s) /\ Follows(s, now) /\ TimersFit(s)
Quiet(s) == \A t \in s.timers : t.at > ctx

LEMMA TopOnce ==
    ASSUME NEW D, NEW s \in StoreOf(D), NEW b, NEW c, Top(s, b), Top(s, c)
    PROVE  b = c
<1>1. b \in Nat /\ c \in Nat /\ b <= c /\ c <= b
  BY StoreParts, Bounds DEF Top
<1> QED BY <1>1

LEMMA TopExists ==
    ASSUME NEW D, NEW s \in StoreOf(D), Versions(s) # {}
    PROVE  \E b \in Versions(s) : Top(s, b)
<1>1. Versions(s) \in SUBSET Targets
  BY StoreParts
<1> QED BY <1>1, NewestOf DEF Top

LEMMA DebtLive ==
    ASSUME NEW D, NEW s \in StoreOf(D), NEW b, Top(s, b), s.entries[b].deleteAt = Never
    PROVE  Debt(s) = Worth(s.entries[b].data)
<1>1. b \in Live(s)
  BY DEF Live, Top
<1>2. \A c \in Live(s) : c = b
  BY TopOnce DEF Live
<1>3. Live(s) = {b}
  BY <1>1, <1>2
<1> QED BY <1>3 DEF Debt

LEMMA DebtDeleted ==
    ASSUME NEW D, NEW s \in StoreOf(D), NEW b, Top(s, b), s.entries[b].deleteAt # Never
    PROVE  Debt(s) = 0
<1>1. \A c \in Live(s) : c = b
  BY TopOnce DEF Live
<1>2. Live(s) = {}
  BY <1>1 DEF Live
<1> QED BY <1>2 DEF Debt

LEMMA DebtNone == ASSUME NEW s, Versions(s) = {} PROVE Debt(s) = 0
  BY DEF Debt, Live

LEMMA WorthNat == ASSUME NEW sub \in Subs PROVE Worth(sub) \in Nat
  BY SubParts, FutureParts DEF Worth

LEMMA DebtNat == ASSUME NEW s \in StoreOf(Subs) PROVE Debt(s) \in Nat
<1>1. CASE Live(s) = {}
  BY <1>1 DEF Debt
<1>2. CASE Live(s) # {}
  <2>1. PICK b \in Live(s) : TRUE
    BY <1>2
  <2>2. Debt(s) = Worth(s.entries[b].data)
    BY <2>1, DebtLive DEF Live
  <2>3. s.entries[b].data \in Subs
    BY <2>1, EntryOfStore, EntryParts DEF Live
  <2> QED BY <2>2, <2>3, WorthNat
<1> QED BY <1>1, <1>2

\* r has the newest version of s, with the same data and the same delete.
LEMMA DebtSame ==
    ASSUME NEW D, NEW s \in StoreOf(D), NEW r \in StoreOf(D), NEW b, Top(s, b), Top(r, b),
           r.entries[b].data = s.entries[b].data, r.entries[b].deleteAt = s.entries[b].deleteAt
    PROVE  Debt(r) = Debt(s)
<1>1. CASE s.entries[b].deleteAt = Never
  BY <1>1, DebtLive
<1>2. CASE s.entries[b].deleteAt # Never
  BY <1>2, DebtDeleted
<1> QED BY <1>1, <1>2

LEMMA NearestTop ==
    ASSUME NEW D, NEW s \in StoreOf(D), NEW x \in Int, NEW b \in Versions(s), b <= x,
           \A c \in Versions(s) : c <= x => c <= b
    PROVE  Nearest(s, x) = IF IsStaleBy(s.entries[b], ctx) /\ ~IsDeletedBy(s.entries[b], x) THEN NoBlock ELSE b
<1> DEFINE S == {c \in Versions(s) : c <= x}
<1>1. \A c \in S : c \in Int /\ b >= c
  BY StoreParts, Bounds
<1>2. b \in S
  OBVIOUS
<1> HIDE DEF S
<1>3. Max(S) = b
  BY <1>1, <1>2 DEF Max
<1>4. S # {}
  BY <1>2
<1> QED BY <1>3, <1>4 DEF Nearest, S

\* The version found for the next epoch is the newest, and is not deleted.
LEMMA FoundTop ==
    ASSUME NEW s \in StoreOf(Subs), NEW now \in Nat, NEW next \in Nat, Sound(s, now, next),
           Find(s, next) # NoBlock
    PROVE  LET b == Find(s, next)
           IN  /\ Top(s, b) /\ s.entries[b].deleteAt = Never /\ s.entries[b].refcount > 0
               /\ s.entries[b].data.block = b /\ Nearest(s, next) = b /\ b \in Targets
               /\ Debt(s) = Worth(s.entries[b].data)
<1> DEFINE b == Find(s, next)
<1>1. b = Nearest(s, next) /\ b # NoBlock /\ ~IsDeletedBy(s.entries[b], next)
  BY DEF Find
<1>2. b \in Versions(s) /\ s.entries[b] \in Entries(Subs) /\ b \in Targets
  BY FindVersion
<1> HIDE DEF b
<1>3. PICK c \in Versions(s) : Top(s, c)
  BY <1>2, TopExists
<1>4. c <= next
  BY <1>3 DEF Sound, Starts
<1>5. Nearest(s, next) \in {NoBlock, c}
  <2>1. next \in Int /\ \A y \in Versions(s) : y <= next => y <= c
    BY <1>3 DEF Top
  <2> QED BY <1>3, <1>4, <2>1, NearestTop
<1>6. b = c
  BY <1>1, <1>5
<1>7. s.entries[b].deleteAt = Never /\ s.entries[b].data.block = b
  <2>1. s.entries[b].deleteAt \in Nat
    BY <1>2, EntryParts
  <2> QED BY <1>1, <1>2, <2>1 DEF Sound, Starts, IsDeletedBy
<1>8. s.entries[b].refcount > 0
  BY <1>2, <1>3, <1>6, <1>7 DEF Sound, Referenced
<1> QED BY <1>1, <1>2, <1>3, <1>6, <1>7, <1>8, DebtLive DEF b

LEMMA ModifyIs ==
    ASSUME NEW s \in StoreOf(Subs), NEW now, NEW next, Sound(s, now, next), NEW b,
           NEW d \in Subs, d.block = b
    PROVE  LET r == ModifyEntry(s, b, d)
           IN  ~r.panic =>
                 /\ r \in StoreOf(Subs) /\ Sound(r, now, next) /\ r.timers = s.timers
                 /\ b \in Versions(s) /\ Versions(r) = Versions(s) /\ r.entries[b].data = d
                 /\ r.entries[b].deleteAt = s.entries[b].deleteAt
                 /\ r.entries[b].refcount = s.entries[b].refcount
                 /\ \A c \in Versions(s) \ {b} : r.entries[c] = s.entries[c]
                 /\ Top(s, b) /\ s.entries[b].deleteAt = Never => Debt(r) = Worth(d)
                 /\ ~(Top(s, b) /\ s.entries[b].deleteAt = Never) => Debt(r) = Debt(s)
<1> DEFINE r == ModifyEntry(s, b, d)
           e == [s.entries[b] EXCEPT !.data = d]
<1> SUFFICES ASSUME ~r.panic PROVE
                 /\ r \in StoreOf(Subs) /\ Sound(r, now, next) /\ r.timers = s.timers
                 /\ b \in Versions(s) /\ Versions(r) = Versions(s) /\ r.entries[b].data = d
                 /\ r.entries[b].deleteAt = s.entries[b].deleteAt
                 /\ r.entries[b].refcount = s.entries[b].refcount
                 /\ \A c \in Versions(s) \ {b} : r.entries[c] = s.entries[c]
                 /\ Top(s, b) /\ s.entries[b].deleteAt = Never => Debt(r) = Worth(d)
                 /\ ~(Top(s, b) /\ s.entries[b].deleteAt = Never) => Debt(r) = Debt(s)
  OBVIOUS
<1>1. b \in Versions(s)
  BY DEF ModifyEntry, Panic, StoreOf
<1>2. s.entries[b] \in Entries(Subs) /\ b \in Targets
  BY <1>1, EntryOfStore
<1>3. /\ e \in Entries(Subs) /\ e.data = d /\ e.deleteAt = s.entries[b].deleteAt
      /\ e.refcount = s.entries[b].refcount
  BY <1>2 DEF Entries
<1>4. r = SetEntry(s, b, e)
  BY <1>1 DEF ModifyEntry
<1> HIDE DEF r, e
<1>5. /\ r \in StoreOf(Subs) /\ Versions(r) = Versions(s) /\ r.entries[b] = e
      /\ \A c \in Versions(s) \ {b} : r.entries[c] = s.entries[c]
      /\ r.timers = s.timers
  <2>1. Versions(s) \cup {b} = Versions(s)
    BY <1>1
  <2>2. LET q == SetEntry(s, b, e)
        IN  /\ q \in StoreOf(Subs) /\ Versions(q) = Versions(s) \cup {b} /\ q.entries[b] = e
            /\ \A c \in Versions(s) \ {b} : q.entries[c] = s.entries[c]
            /\ q.panic = s.panic /\ q.timers = s.timers /\ q.index = s.index
    BY <1>2, <1>3, SetEntryTyped
  <2> QED BY <1>4, <2>1, <2>2
<1>6. /\ \A c \in Versions(s) : /\ r.entries[c].deleteAt = s.entries[c].deleteAt
                                /\ r.entries[c].refcount = s.entries[c].refcount
                                /\ c # b => r.entries[c].data = s.entries[c].data
      /\ \A c : Top(r, c) <=> Top(s, c)
  BY <1>3, <1>5 DEF Top
<1>7. Sound(r, now, next)
  <2>1. Starts(r, now, next)
    BY <1>3, <1>5, <1>6 DEF Sound, Starts
  <2>2. Referenced(r) /\ Follows(r, now)
    BY <1>5, <1>6 DEF Sound, Referenced, Follows, Below, Waits
  <2>3. TimersFit(r)
    BY <1>5, <1>6 DEF Sound, TimersFit
  <2> QED BY <2>1, <2>2, <2>3 DEF Sound
<1>8. Top(s, b) /\ s.entries[b].deleteAt = Never => Debt(r) = Worth(d)
  BY <1>3, <1>5, <1>6, DebtLive
<1>9. ASSUME ~(Top(s, b) /\ s.entries[b].deleteAt = Never) PROVE Debt(r) = Debt(s)
  <2>1. PICK c \in Versions(s) : Top(s, c)
    BY <1>1, TopExists
  <2>2. CASE c # b
    BY <1>5, <1>6, <2>1, <2>2, DebtSame
  <2>3. CASE c = b
    BY <1>3, <1>5, <1>6, <1>9, <2>1, <2>3, DebtDeleted
  <2> QED BY <2>2, <2>3
<1> QED BY <1>1, <1>3, <1>5, <1>7, <1>8, <1>9

-----------------------------------------------------------------------------
(* What the operations on a subscription store do to it, short of a panic.   *)

TimerOf(at, kind, b) == [at |-> at, kind |-> kind, block |-> b]

LEMMA SetIs ==
    ASSUME NEW D, NEW s \in StoreOf(D), NEW b \in Versions(s), NEW e \in Entries(D)
    PROVE  LET r == SetEntry(s, b, e)
           IN  /\ r \in StoreOf(D) /\ Versions(r) = Versions(s) /\ r.entries[b] = e
               /\ \A c \in Versions(s) \ {b} : r.entries[c] = s.entries[c]
               /\ r.panic = s.panic /\ r.timers = s.timers
<1>1. b \in Targets /\ Versions(s) \cup {b} = Versions(s)
  BY EntryOfStore
<1>2. LET r == SetEntry(s, b, e)
      IN  /\ r \in StoreOf(D) /\ Versions(r) = Versions(s) \cup {b} /\ r.entries[b] = e
          /\ \A c \in Versions(s) \ {b} : r.entries[c] = s.entries[c]
          /\ r.panic = s.panic /\ r.timers = s.timers /\ r.index = s.index
  BY <1>1, SetEntryTyped
<1> QED BY <1>1, <1>2

LEMMA AddIs ==
    ASSUME NEW D, NEW s \in StoreOf(D), ctx \in Nat, NEW at \in Nat, NEW kind, NEW b,
           ~AddTimer(s, at, kind, b).panic
    PROVE  /\ ~s.panic /\ at > ctx
           /\ AddTimer(s, at, kind, b).timers = s.timers \cup {TimerOf(at, kind, b)}
  BY DEF AddTimer, Panic, StoreOf, TimerOf

LEMMA DropIs ==
    ASSUME NEW D, NEW s \in StoreOf(D), NEW at, NEW kind, NEW b
    PROVE  LET r == DelTimer(s, at, kind, b)
           IN  /\ r \in StoreOf(D) /\ r.entries = s.entries
               /\ ~r.panic => /\ ~s.panic
                              /\ r.timers = s.timers \ {TimerOf(at, kind, b)}
<1>1. DelTimer(s, at, kind, b) \in StoreOf(D) /\ DelTimer(s, at, kind, b).entries = s.entries
  BY DelTimerTyped
<1>2. LET r == DelTimer(s, at, kind, b)
      IN  ~r.panic => /\ ~s.panic
                      /\ r.timers = s.timers \ {TimerOf(at, kind, b)}
  BY DEF DelTimer, Panic, StoreOf, TimerOf
<1> QED BY <1>1, <1>2

\* Timers of r that s does not have are of entries that turn stale.
OnlyStale(s, r) == \A t \in r.timers \ s.timers : t.kind = Stale /\ t.at > ctx

LEMMA PutIs ==
    ASSUME NEW D, NEW s \in StoreOf(D), ctx \in Blocks, NEW b \in Versions(s), b <= ctx,
           NEW e \in Entries(D)
    PROVE  LET r == PutEntry(s, b, e)
           IN  ~r.panic =>
                 /\ r \in StoreOf(D) /\ ~s.panic /\ Versions(r) = Versions(s)
                 /\ \A c \in Versions(s) \ {b} : r.entries[c] = s.entries[c]
                 /\ r.entries[b].data = e.data /\ r.entries[b].deleteAt = e.deleteAt
                 /\ OnlyStale(s, r) /\ s.timers \subseteq r.timers
<1> DEFINE r == PutEntry(s, b, e)
           d == [e EXCEPT !.refcount = @ - 1]
           at == ctx + StaleBlocks
           d2 == [d EXCEPT !.staleAt = at]
           u == AddTimer(s, at, Stale, b)
           T == TimerOf(at, Stale, b)
<1> SUFFICES ASSUME ~r.panic PROVE
                 /\ r \in StoreOf(D) /\ ~s.panic /\ Versions(r) = Versions(s)
                 /\ \A c \in Versions(s) \ {b} : r.entries[c] = s.entries[c]
                 /\ r.entries[b].data = e.data /\ r.entries[b].deleteAt = e.deleteAt
                 /\ OnlyStale(s, r) /\ s.timers \subseteq r.timers
  OBVIOUS
<1>1. ctx \in Nat /\ StaleBlocks \in Nat /\ StaleBlocks > 0 /\ e.refcount \in Nat /\ b \in Targets /\ b \in Nat
  BY Bounds, EntryParts, EntryOfStore
<1>2. r = IF e.refcount = 0 THEN Panic(s)
        ELSE IF d.refcount > 0 THEN SetEntry(s, b, d)
        ELSE IF b > ctx THEN CancelFuture(s, {b})
        ELSE SetEntry(u, b, d2)
  BY DEF PutEntry
<1>3. e.refcount # 0
  <2>1. Panic(s).panic
    BY DEF Panic, StoreOf
  <2> HIDE DEF r, d, u, d2
  <2> QED BY <1>2, <2>1
<1>4. /\ d \in Entries(D) /\ d.data = e.data /\ d.deleteAt = e.deleteAt
  <2>1. e.refcount - 1 \in Nat
    BY <1>1, <1>3
  <2> QED BY <2>1 DEF Entries
<1>5. at \in Nat /\ at > ctx /\ at > b
  BY <1>1
<1> HIDE DEF r, d, at
<1>6. d2 \in Entries(D) /\ d2.data = e.data /\ d2.deleteAt = e.deleteAt
  BY <1>4, <1>5 DEF Entries
<1> HIDE DEF d2
<1>7. CASE r = SetEntry(s, b, d)
  <2>1. /\ r \in StoreOf(D) /\ Versions(r) = Versions(s) /\ r.entries[b] = d
        /\ \A c \in Versions(s) \ {b} : r.entries[c] = s.entries[c]
        /\ r.panic = s.panic /\ r.timers = s.timers
    BY <1>4, <1>7, SetIs
  <2> QED BY <1>4, <2>1 DEF OnlyStale
<1>8. CASE r = SetEntry(u, b, d2)
  <2>1. /\ u \in StoreOf(D) /\ u.entries = s.entries
        /\ ~u.panic => /\ ~s.panic /\ at > ctx
                       /\ u.timers = s.timers \cup {T}
    <3>1. Stale \in {Future, Delete, Stale}
      OBVIOUS
    <3>2. u \in StoreOf(D) /\ u.entries = s.entries
      BY <1>1, <1>5, <3>1, AddTimerTyped
    <3>3. u = [s EXCEPT !.timers = @ \cup {T}]
      BY <1>1, <1>5 DEF AddTimer, TimerOf
    <3> HIDE DEF u, T
    <3> QED BY <1>5, <3>2, <3>3 DEF StoreOf
  <2> HIDE DEF u
  <2>2. Versions(u) = Versions(s)
    BY <2>1 DEF Versions
  <2>3. /\ r \in StoreOf(D) /\ Versions(r) = Versions(u) /\ r.entries[b] = d2
        /\ \A c \in Versions(u) \ {b} : r.entries[c] = u.entries[c]
        /\ r.panic = u.panic /\ r.timers = u.timers
    BY <1>6, <1>8, <2>1, <2>2, SetIs
  <2>4. T.kind = Stale /\ T.at = at
    BY DEF TimerOf
  <2> HIDE DEF T
  <2>5. OnlyStale(s, r) /\ s.timers \subseteq r.timers
    BY <1>5, <2>1, <2>3, <2>4 DEF OnlyStale
  <2> QED BY <1>5, <1>6, <2>1, <2>2, <2>3, <2>5
<1>9. ~(b > ctx)
  BY <1>1
<1> QED BY <1>2, <1>3, <1>7, <1>8, <1>9

LEMMA CancelsIs ==
    ASSUME NEW D, NEW s \in StoreOf(D), NEW bs
    PROVE  LET r == CancelFuture(s, bs)
           IN  ~r.panic =>
                 /\ r \in StoreOf(D) /\ ~s.panic /\ Versions(r) = Versions(s) \ bs
                 /\ \A c \in Versions(r) : r.entries[c] = s.entries[c]
                 /\ r.timers = s.timers \ {TimerOf(b, Future, b) : b \in bs}
<1> DEFINE r == CancelFuture(s, bs)
           own == {TimerOf(b, Future, b) : b \in bs}
           V == Versions(s) \ bs
           rest == Restrict(s.entries, V)
           x == IF DOMAIN rest = {} THEN "absent" ELSE s.index
           T == s.timers \ own
           u == [s EXCEPT !.timers = @ \ own, !.entries = rest,
                          !.index = IF DOMAIN rest = {} THEN "absent" ELSE @]
<1> SUFFICES ASSUME ~r.panic PROVE
                 /\ r \in StoreOf(D) /\ ~s.panic /\ Versions(r) = V
                 /\ \A c \in Versions(r) : r.entries[c] = s.entries[c]
                 /\ r.timers = T
  OBVIOUS
<1>1. DOMAIN rest = V /\ \A c \in V : rest[c] = s.entries[c]
  BY DEF Restrict, Versions
<1>2. r \in StoreOf(D)
  BY CancelTyped
<1>3. r = IF bs = {} THEN s ELSE IF ~(own \subseteq s.timers) THEN Panic(s) ELSE u
  BY DEF CancelFuture, TimerOf
<1>4. u = [s EXCEPT !.timers = T, !.entries = rest, !.index = x]
  BY DEF StoreOf
<1>5. bs = {} => T = s.timers /\ V = Versions(s)
  OBVIOUS
<1>6. Panic(s).panic
  BY DEF Panic, StoreOf
<1> HIDE DEF own, rest, x, T, u, r, V
<1>7. u.timers = T /\ u.entries = rest /\ u.panic = s.panic
  BY <1>4 DEF StoreOf
<1>8. CASE bs = {}
  BY <1>2, <1>3, <1>5, <1>8
<1>9. CASE bs # {}
  <2>1. r = u
    BY <1>3, <1>6, <1>9
  <2> QED BY <1>1, <1>2, <1>7, <2>1 DEF Versions
<1> QED BY <1>8, <1>9

\* AppendEntry of a new version at the current block: it inherits the delete of the version
\* p before it, unless that one is deleted already.
LEMMA StartNow ==
    ASSUME NEW s \in StoreOf(Subs), ctx \in Blocks, NEW d \in Subs,
           NEW p \in {NoBlock} \cup Versions(s), NEW first \in BOOLEAN, NEW x,
           p # NoBlock => p <= ctx, ~first => p # NoBlock /\ p # ctx,
           x = IF first THEN Never ELSE s.entries[p].deleteAt,
           ~Supersede(s, ctx, d, p, first).panic
    PROVE  LET r == Supersede(s, ctx, d, p, first)
           IN  /\ r \in StoreOf(Subs) /\ Versions(r) = Versions(s) \cup {ctx}
               /\ r.entries[ctx].data = d /\ r.entries[ctx].deleteAt = x /\ r.entries[ctx].refcount = 1
               /\ \A c \in Versions(s) \ {ctx, p} : r.entries[c] = s.entries[c]
               /\ p # NoBlock /\ p # ctx =>
                    /\ r.entries[p].data = s.entries[p].data
                    /\ r.entries[p].deleteAt = IF first THEN s.entries[p].deleteAt ELSE Never
               /\ \A t \in r.timers :
                    \/ t \in s.timers /\ (x # Never => t # TimerOf(x, Delete, p))
                    \/ t.kind = Stale /\ t.at > ctx
                    \/ x # Never /\ x > ctx /\ t = TimerOf(x, Delete, ctx)
<1> DEFINE indexed  == IF first THEN SetIndex(s, "live") ELSE s
           free     == [s.entries[p] EXCEPT !.deleteAt = Never]
           unmarked == IF first THEN indexed ELSE SetEntry(indexed, p, free)
           unlatest == [unmarked.entries[p] EXCEPT !.latest = FALSE]
           put      == PutEntry(unmarked, p, unlatest)
           started  == IF ctx > ctx THEN AddTimer(unmarked, ctx, Future, ctx)
                       ELSE IF p # NoBlock /\ unmarked.entries[p].latest THEN put ELSE unmarked
           dropped  == DelTimer(started, x, Delete, p)
           moved    == IF x = Never THEN started ELSE AddTimer(dropped, x, Delete, ctx)
           e == [staleAt |-> Never, deleteAt |-> x, latest |-> ctx <= ctx,
                 refcount |-> 1, data |-> d]
           r == Supersede(s, ctx, d, p, first)
<1>1. r = SetEntry(moved, ctx, e)
  BY DEF Supersede
<1>2. Never \in Nat /\ ctx \in Nat /\ ctx \in Targets
  BY Bounds
<1>3. p # NoBlock => p \in Versions(s) /\ p \in Targets /\ s.entries[p] \in Entries(Subs)
  BY EntryOfStore
<1>4. x \in Nat
  BY <1>2, <1>3, EntryParts
<1>5. /\ indexed \in StoreOf(Subs) /\ Versions(indexed) = Versions(s) /\ indexed.entries = s.entries
      /\ indexed.timers = s.timers
  <2>1. SetIndex(s, "live") \in StoreOf(Subs) /\ SetIndex(s, "live").entries = s.entries
    BY IndexTyped
  <2>2. SetIndex(s, "live").timers = s.timers
    BY DEF SetIndex, StoreOf
  <2> QED BY <2>1, <2>2 DEF Versions
<1>6. ~first => free \in Entries(Subs) /\ free.data = s.entries[p].data /\ free.deleteAt = Never
  BY <1>2, <1>3 DEF Entries
<1>11. e \in Entries(Subs) /\ e.data = d /\ e.deleteAt = x /\ e.refcount = 1
  <2>1. (ctx <= ctx) \in BOOLEAN
    BY <1>2
  <2> QED BY <1>2, <1>4, <2>1 DEF Entries
<1> HIDE DEF indexed, free
<1>7. /\ unmarked \in StoreOf(Subs) /\ Versions(unmarked) = Versions(s) /\ unmarked.timers = s.timers
      /\ \A c \in Versions(s) \ {p} : unmarked.entries[c] = s.entries[c]
      /\ p # NoBlock => /\ unmarked.entries[p].data = s.entries[p].data
                        /\ unmarked.entries[p].deleteAt = IF first THEN s.entries[p].deleteAt ELSE Never
  <2>1. CASE first
    BY <1>5, <2>1
  <2>2. CASE ~first
    <3>1. p \in Versions(indexed)
      BY <1>3, <1>5, <2>2
    <3>2. LET q == SetEntry(indexed, p, free)
          IN  /\ q \in StoreOf(Subs) /\ Versions(q) = Versions(indexed) /\ q.entries[p] = free
              /\ \A c \in Versions(indexed) \ {p} : q.entries[c] = indexed.entries[c]
              /\ q.panic = indexed.panic /\ q.timers = indexed.timers
      BY <1>5, <1>6, <2>2, <3>1, SetIs
    <3> QED BY <1>5, <1>6, <2>2, <3>2
  <2> QED BY <2>1, <2>2
<1> HIDE DEF unmarked
<1>8. p # NoBlock => /\ unlatest \in Entries(Subs) /\ unlatest.data = unmarked.entries[p].data
                     /\ unlatest.deleteAt = unmarked.entries[p].deleteAt
  <2>1. p # NoBlock => unmarked.entries[p] \in Entries(Subs)
    BY <1>3, <1>7, EntryOfStore
  <2> QED BY <2>1 DEF Entries
<1> HIDE DEF unlatest
<1>9. started \in StoreOf(Subs) /\
      (~started.panic =>
         /\ Versions(started) = Versions(s)
         /\ \A c \in Versions(s) \ {p} : started.entries[c] = s.entries[c]
         /\ p # NoBlock => /\ started.entries[p].data = s.entries[p].data
                           /\ started.entries[p].deleteAt = IF first THEN s.entries[p].deleteAt ELSE Never
         /\ OnlyStale(s, started))
  <2>1. CASE p # NoBlock /\ unmarked.entries[p].latest
    <3>1. started = put
      BY <1>2, <2>1
    <3>2. p \in Versions(unmarked) /\ p <= ctx
      BY <1>3, <1>7, <2>1
    <3>3. unlatest \in Entries(Subs)
      BY <1>8, <2>1
    <3>6. p \in Targets
      BY <1>3, <2>1
    <3> HIDE DEF started
    <3>4. put \in StoreOf(Subs)
      BY <1>7, <3>3, <3>6, PutEntryTyped
    <3>5. ~put.panic =>
                 /\ put \in StoreOf(Subs) /\ ~unmarked.panic /\ Versions(put) = Versions(unmarked)
                 /\ \A c \in Versions(unmarked) \ {p} : put.entries[c] = unmarked.entries[c]
                 /\ put.entries[p].data = unlatest.data /\ put.entries[p].deleteAt = unlatest.deleteAt
                 /\ OnlyStale(unmarked, put) /\ unmarked.timers \subseteq put.timers
      BY <1>7, <3>2, <3>3, PutIs
    <3> HIDE DEF put
    <3> QED BY <1>7, <1>8, <2>1, <3>1, <3>4, <3>5 DEF OnlyStale
  <2>2. CASE ~(p # NoBlock /\ unmarked.entries[p].latest)
    <3>1. started = unmarked
      BY <1>2, <2>2
    <3> HIDE DEF started
    <3> QED BY <1>7, <3>1 DEF OnlyStale
  <2> QED BY <2>1, <2>2
<1> HIDE DEF started
<1>10. moved \in StoreOf(Subs) /\ moved.entries = started.entries
  <2>1. dropped \in StoreOf(Subs) /\ dropped.entries = started.entries
    BY <1>9, DelTimerTyped
  <2> HIDE DEF dropped
  <2>2. Delete \in {Future, Delete, Stale}
    OBVIOUS
  <2>3. AddTimer(dropped, x, Delete, ctx) \in StoreOf(Subs) /\ AddTimer(dropped, x, Delete, ctx).entries = dropped.entries
    <3>1. \A y \in Targets : /\ AddTimer(dropped, x, Delete, y) \in StoreOf(Subs)
                             /\ AddTimer(dropped, x, Delete, y).entries = dropped.entries
      BY <1>4, <2>1, <2>2, AddTimerTyped
    <3> QED BY <1>2, <3>1
  <2> QED BY <1>9, <2>1, <2>3
<1>12. ~moved.panic => /\ ~started.panic
                       /\ x = Never => moved.timers = started.timers
                       /\ x # Never => /\ x > ctx
                                       /\ moved.timers = (started.timers \ {TimerOf(x, Delete, p)}) \cup {TimerOf(x, Delete, ctx)}
  <2>1. CASE x = Never
    BY <2>1
  <2>2. ASSUME x # Never, ~moved.panic
        PROVE  /\ ~started.panic /\ x > ctx
               /\ moved.timers = (started.timers \ {TimerOf(x, Delete, p)}) \cup {TimerOf(x, Delete, ctx)}
    <3>1. dropped \in StoreOf(Subs) /\ (~dropped.panic => /\ ~started.panic
                              /\ dropped.timers = started.timers \ {TimerOf(x, Delete, p)})
      BY <1>9, DropIs
    <3>2. moved = AddTimer(dropped, x, Delete, ctx)
      BY <2>2
    <3> HIDE DEF moved, dropped
    <3>3. ~AddTimer(dropped, x, Delete, ctx).panic
      BY <2>2, <3>2
    <3>4. /\ ~dropped.panic /\ x > ctx
          /\ AddTimer(dropped, x, Delete, ctx).timers = dropped.timers \cup {TimerOf(x, Delete, ctx)}
      BY <1>2, <1>4, <3>1, <3>3, AddIs
    <3> QED BY <3>1, <3>2, <3>4
  <2> QED BY <2>1, <2>2
<1> HIDE DEF moved, e, r
<1>13. /\ r \in StoreOf(Subs) /\ Versions(r) = Versions(moved) \cup {ctx} /\ r.entries[ctx] = e
       /\ \A c \in Versions(moved) \ {ctx} : r.entries[c] = moved.entries[c]
       /\ r.panic = moved.panic /\ r.timers = moved.timers /\ r.index = moved.index
  BY <1>1, <1>2, <1>10, <1>11, SetEntryTyped
<1>14. ~moved.panic /\ ~started.panic /\ Versions(moved) = Versions(s)
  <2>1. ~moved.panic
    BY <1>13 DEF r
  <2> QED BY <1>9, <1>10, <1>12, <2>1 DEF Versions
<1>15. \A t \in r.timers :
                    \/ t \in s.timers /\ (x # Never => t # TimerOf(x, Delete, p))
                    \/ t.kind = Stale /\ t.at > ctx
                    \/ x # Never /\ x > ctx /\ t = TimerOf(x, Delete, ctx)
  BY <1>9, <1>12, <1>13, <1>14 DEF OnlyStale
<1>16. \A c \in Versions(s) \ {ctx} : r.entries[c] = started.entries[c]
  BY <1>10, <1>13, <1>14
<1>17. p # NoBlock /\ p # ctx =>
                    /\ r.entries[p].data = s.entries[p].data
                    /\ r.entries[p].deleteAt = IF first THEN s.entries[p].deleteAt ELSE Never
  BY <1>3, <1>9, <1>14, <1>16
<1>18. \A c \in Versions(s) \ {ctx, p} : r.entries[c] = s.entries[c]
  BY <1>9, <1>14, <1>16
<1> QED BY <1>11, <1>13, <1>14, <1>15, <1>17, <1>18 DEF r

\* The newest version up to x is found unless it is stale and not deleted.
LEMMA NearestHeld ==
    ASSUME NEW D, NEW s \in StoreOf(D), NEW x \in Int, NEW b \in Versions(s), b <= x,
           \A c \in Versions(s) : c <= x => c <= b, s.entries[b].refcount > 0
    PROVE  Nearest(s, x) = b
<1>1. ~IsStaleBy(s.entries[b], ctx)
  <2>1. s.entries[b].refcount \in Nat
    BY EntryOfStore, EntryParts
  <2> QED BY <2>1 DEF IsStaleBy
<1> QED BY <1>1, NearestTop

\* A version that waits is the newest.
LEMMA WaitingIsTop ==
    ASSUME NEW s \in StoreOf(Subs), ctx \in Nat, NEW next \in Nat, Sound(s, ctx, next),
           NEW c \in Versions(s), c > ctx
    PROVE  /\ Top(s, c) /\ c = next /\ s.entries[c].deleteAt = Never
           /\ \E v \in Versions(s) : Below(s, c, v) /\ v <= ctx
<1>1. \A b \in Versions(s) : b \in Nat /\ b <= next /\ (b > ctx => b = next)
  BY StoreParts, Bounds DEF Sound, Starts
<1>2. Top(s, c) /\ c = next
  BY <1>1 DEF Top
<1>3. s.entries[c].deleteAt = Never /\ \E v \in Versions(s) : Below(s, c, v)
  BY <1>2 DEF Sound, Follows, Waits
<1>4. PICK v \in Versions(s) : Below(s, c, v)
  BY <1>3
<1>5. v <= ctx
  <2>1. v \in Nat /\ v < c
    BY <1>1, <1>4 DEF Below
  <2>2. ~(v > ctx)
    BY <1>1, <1>2, <2>1
  <2> QED BY <2>1, <2>2
<1> QED BY <1>2, <1>3, <1>4, <1>5

LEMMA TimerParts ==
    ASSUME NEW t \in Timer
    PROVE  t = TimerOf(t.at, t.kind, t.block) /\ t.at \in Nat /\ t.kind \in {Future, Delete, Stale}
  BY DEF Timer, TimerOf

LEMMA TimerOfParts ==
    ASSUME NEW at, NEW kind, NEW b
    PROVE  /\ TimerOf(at, kind, b).at = at /\ TimerOf(at, kind, b).kind = kind
           /\ TimerOf(at, kind, b).block = b
  BY DEF TimerOf

LEMMA Kinds == Future # Delete /\ Future # Stale /\ Delete # Stale
  BY DEF Future, Delete, Stale

\* AppendEntry at the current block.
LEMMA AppendNowIs ==
    ASSUME NEW s \in StoreOf(Subs), ctx \in Blocks, NEW next \in Nat, next > ctx,
           Sound(s, ctx, next), Quiet(s), NEW d \in Subs, d.block = ctx,
           AppendSucceeds(s, ctx), ~AppendEntry(s, ctx, d).panic
    PROVE  LET r == AppendEntry(s, ctx, d)
           IN  /\ r \in StoreOf(Subs) /\ Sound(r, ctx, next) /\ Quiet(r)
               /\ Debt(r) <= Debt(s) \/ Debt(r) <= Worth(d)
<1> DEFINE r == AppendEntry(s, ctx, d)
           p == Nearest(s, ctx)
           first == IsFirst(s, ctx)
           x == IF first THEN Never ELSE s.entries[p].deleteAt
<1>1. ctx \in Nat /\ ctx \in Int /\ ctx \in Targets /\ Never \in Nat
  BY Bounds
<1>2. p \in {NoBlock} \cup Versions(s) /\ (p # NoBlock => p <= ctx)
  BY <1>1, NearestVersion
<1>3. first \in BOOLEAN /\ (~first => p # NoBlock /\ ~IsDeletedBy(s.entries[p], ctx))
      /\ (first /\ p # NoBlock => IsDeletedBy(s.entries[p], ctx))
  BY DEF IsFirst
<1>4. r = IF ~first /\ ctx = p THEN ModifyEntry(s, ctx, d) ELSE Supersede(s, ctx, d, p, first)
  BY DEF AppendEntry
<1>5. Debt(s) \in Nat /\ Worth(d) \in Nat /\ ~r.panic
  BY DebtNat, WorthNat
<1> HIDE DEF r, p, first
<1>6. CASE ~first /\ ctx = p
  <2>1. r = ModifyEntry(s, ctx, d)
    BY <1>4, <1>6
  <2>2. LET q == ModifyEntry(s, ctx, d)
        IN  ~q.panic =>
                 /\ q \in StoreOf(Subs) /\ Sound(q, ctx, next) /\ q.timers = s.timers
                 /\ Top(s, ctx) /\ s.entries[ctx].deleteAt = Never => Debt(q) = Worth(d)
                 /\ ~(Top(s, ctx) /\ s.entries[ctx].deleteAt = Never) => Debt(q) = Debt(s)
    BY ModifyIs
  <2>3. /\ r \in StoreOf(Subs) /\ Sound(r, ctx, next) /\ r.timers = s.timers
        /\ Debt(r) = Worth(d) \/ Debt(r) = Debt(s)
    BY <1>5, <2>1, <2>2
  <2>4. Quiet(r)
    BY <2>3 DEF Quiet
  <2>5. Debt(r) <= Debt(s) \/ Debt(r) <= Worth(d)
    BY <1>5, <2>3
  <2> QED BY <2>3, <2>4, <2>5 DEF r
<1>7. CASE ~(~first /\ ctx = p)
  <2>1. r = Supersede(s, ctx, d, p, first)
    BY <1>4, <1>7
  <2>2. ~first => p # NoBlock /\ p # ctx
    BY <1>3, <1>7
  <2>3. /\ r \in StoreOf(Subs) /\ Versions(r) = Versions(s) \cup {ctx}
        /\ r.entries[ctx].data = d /\ r.entries[ctx].deleteAt = x /\ r.entries[ctx].refcount = 1
        /\ \A c \in Versions(s) \ {ctx, p} : r.entries[c] = s.entries[c]
        /\ p # NoBlock /\ p # ctx =>
             /\ r.entries[p].data = s.entries[p].data
             /\ r.entries[p].deleteAt = IF first THEN s.entries[p].deleteAt ELSE Never
        /\ \A t \in r.timers :
             \/ t \in s.timers /\ (x # Never => t # TimerOf(x, Delete, p))
             \/ t.kind = Stale /\ t.at > ctx
             \/ x # Never /\ x > ctx /\ t = TimerOf(x, Delete, ctx)
    <3>1. ~Supersede(s, ctx, d, p, first).panic
      BY <1>5, <2>1
    <3>2. x = IF first THEN Never ELSE s.entries[p].deleteAt
      OBVIOUS
    <3> HIDE DEF x
    <3> QED BY <1>2, <1>3, <2>1, <2>2, <3>1, <3>2, StartNow
  <2>4. \A c \in Versions(s) : c \in Nat /\ s.entries[c] \in Entries(Subs) /\ s.entries[c].deleteAt \in Nat
                               /\ s.entries[c].refcount \in Nat
    BY EntryOfStore, EntryParts, Bounds
  <2>5. \A c \in Versions(s) : c > ctx => /\ Top(s, c) /\ c = next /\ r.entries[c] = s.entries[c]
                                          /\ x = Never
    <3> SUFFICES ASSUME NEW c \in Versions(s), c > ctx
                 PROVE  Top(s, c) /\ c = next /\ r.entries[c] = s.entries[c] /\ x = Never
      OBVIOUS
    <3>1. /\ Top(s, c) /\ c = next /\ s.entries[c].deleteAt = Never
          /\ \E v \in Versions(s) : Below(s, c, v) /\ v <= ctx
      BY <1>1, WaitingIsTop
    <3>2. PICK v \in Versions(s) : Below(s, c, v) /\ v <= ctx
      BY <3>1
    <3>3. \A y \in Versions(s) : y <= ctx => y <= v
      BY <1>1, <2>4, <3>2 DEF Below
    <3>4. p = v
      BY <1>1, <3>2, <3>3, NearestHeld DEF Below, p
    <3>5. x = Never
      BY <3>2, <3>4 DEF Below
    <3>6. c # ctx /\ c # p
      BY <1>1, <2>4, <3>2, <3>4
    <3> QED BY <2>3, <3>1, <3>5, <3>6
  <2>6. x \in Nat /\ (x = Never \/ x <= next)
    BY <1>1, <1>2, <1>3, <2>4 DEF Sound, Starts
  <2>7. \A c \in Versions(s) \ {ctx} : /\ r.entries[c].data = s.entries[c].data
                                       /\ r.entries[c].deleteAt \in {s.entries[c].deleteAt, Never}
    <3> SUFFICES ASSUME NEW c \in Versions(s) \ {ctx}
                 PROVE  /\ r.entries[c].data = s.entries[c].data
                        /\ r.entries[c].deleteAt \in {s.entries[c].deleteAt, Never}
      OBVIOUS
    <3>1. CASE c = p
      <4>1. p # NoBlock /\ p # ctx
        BY <3>1, EntryOfStore, Bounds
      <4> HIDE DEF x
      <4> QED BY <2>3, <3>1, <4>1
    <3>2. CASE c # p
      BY <2>3, <3>2
    <3> QED BY <3>1, <3>2
  <2>8. Starts(r, ctx, next)
    <3> SUFFICES ASSUME NEW b \in Versions(r)
                 PROVE  /\ b <= next /\ (b > ctx => b = next) /\ r.entries[b].data.block = b
                        /\ r.entries[b].deleteAt = Never \/ r.entries[b].deleteAt <= next
      BY DEF Starts
    <3>1. CASE b = ctx
      BY <1>1, <2>3, <2>6, <3>1
    <3>2. CASE b # ctx
      <4>1. b \in Versions(s) \ {ctx}
        BY <2>3, <3>2
      <4> QED BY <2>7, <4>1 DEF Sound, Starts
    <3> QED BY <3>1, <3>2
  <2>9. \A b \in Versions(r) : Top(r, b) => b = ctx \/ (b \in Versions(s) /\ b > ctx)
    BY <1>1, <2>3, <2>4 DEF Top
  <2>10. \A b \in Versions(s) : b > ctx => Top(r, b)
    BY <1>1, <2>3, <2>4, <2>5 DEF Top
  <2>11. Referenced(r)
    <3> SUFFICES ASSUME NEW b \in Versions(r), Top(r, b)
                 PROVE  r.entries[b].deleteAt # Never \/ r.entries[b].refcount > 0
      BY DEF Referenced
    <3>1. CASE b = ctx
      BY <2>3, <3>1
    <3>2. CASE b # ctx
      BY <2>5, <2>9, <3>2 DEF Sound, Referenced
    <3> QED BY <3>1, <3>2
  <2>12. \A t \in r.timers : t.at > ctx
    <3> SUFFICES ASSUME NEW t \in r.timers PROVE t.at > ctx
      OBVIOUS
    <3>1. CASE t \in s.timers
      BY <3>1 DEF Quiet
    <3>2. CASE x > ctx /\ t = TimerOf(x, Delete, ctx)
      BY <3>2, TimerOfParts
    <3> QED BY <2>3, <3>1, <3>2
  <2>13. \A t \in r.timers : t.kind = Future => t \in s.timers
    BY <2>3, Kinds, TimerOfParts
  <2>14. Follows(r, ctx)
    <3> SUFFICES ASSUME NEW b \in Versions(r), Top(r, b), Waits(r, ctx, b)
                 PROVE  r.entries[b].deleteAt = Never /\ \E v \in Versions(r) : Below(r, b, v)
      BY DEF Follows
    <3>1. b > ctx
      <4>1. CASE \E t \in r.timers : t.kind = Future /\ t.block = b
        <5>1. PICK t \in r.timers : t.kind = Future /\ t.block = b
          BY <4>1
        <5>2. t.at = b /\ t.at > ctx
          BY <2>12, <2>13, <5>1 DEF Sound, TimersFit
        <5> QED BY <5>2
      <4> QED BY <4>1 DEF Waits
    <3>2. b \in Versions(s) /\ b = next /\ r.entries[b] = s.entries[b] /\ x = Never
      BY <1>1, <2>5, <2>9, <3>1
    <3>3. s.entries[b].deleteAt = Never
      BY <1>1, <3>1, <3>2, WaitingIsTop
    <3>4. \A y \in Versions(r) : y < b => y <= ctx
      BY <1>1, <2>3, <2>4, <2>5, <3>2
    <3>5. Below(r, b, ctx)
      BY <2>3, <3>1, <3>2, <3>4 DEF Below
    <3>6. ctx \in Versions(r)
      BY <2>3
    <3> QED BY <3>2, <3>3, <3>5, <3>6
  <2>15. TimersFit(r)
    <3> SUFFICES ASSUME NEW t \in r.timers
                 PROVE  /\ t.kind = Future => t.at = t.block /\ Top(r, t.block)
                        /\ t.kind = Delete => /\ t.block \in Versions(r) /\ t.at # Never
                                              /\ r.entries[t.block].deleteAt = t.at
                                              /\ r.entries[t.block].refcount > 0
      BY DEF TimersFit
    <3>1. CASE t \in s.timers /\ (x # Never => t # TimerOf(x, Delete, p))
      <4>1. t \in Timer /\ t.at > ctx
        BY <2>12, <3>1, StoreParts
      <4>2. ASSUME t.kind = Future PROVE t.at = t.block /\ Top(r, t.block)
        <5>1. t.at = t.block /\ t.block \in Versions(s) /\ t.block > ctx
          BY <3>1, <4>1, <4>2 DEF Sound, TimersFit, Top
        <5> QED BY <2>10, <5>1
      <4>3. ASSUME t.kind = Delete
            PROVE  /\ t.block \in Versions(r) /\ t.at # Never
                   /\ r.entries[t.block].deleteAt = t.at
                   /\ r.entries[t.block].refcount > 0
        <5> DEFINE c == t.block
        <5>1. /\ c \in Versions(s) /\ t.at # Never /\ s.entries[c].deleteAt = t.at
              /\ s.entries[c].refcount > 0
          BY <3>1, <4>3 DEF Sound, TimersFit
        <5>2. t = TimerOf(t.at, Delete, c)
          BY <4>1, <4>3, TimerParts
        <5> HIDE DEF c
        <5>3. ~IsDeletedBy(s.entries[c], ctx)
          BY <1>1, <2>4, <4>1, <5>1 DEF IsDeletedBy
        <5>4. c # p
          <6>1. CASE first
            <7>1. c # NoBlock
              BY <5>1, EntryOfStore, Bounds
            <7> QED BY <1>3, <5>3, <6>1, <7>1
          <6>2. CASE ~first
            <7>1. c = p => x = t.at
              BY <5>1, <6>2
            <7> QED BY <3>1, <5>1, <5>2, <7>1
          <6> QED BY <6>1, <6>2
        <5>5. c # ctx
          <6>1. ASSUME c = ctx PROVE FALSE
            <7>1. \A y \in Versions(s) : y <= ctx => y <= c
              BY <6>1
            <7>2. Nearest(s, ctx) = c
              BY <1>1, <5>1, <6>1, <7>1, NearestHeld
            <7> QED BY <5>4, <7>2 DEF p
          <6> QED BY <6>1
        <5>6. r.entries[c] = s.entries[c]
          BY <2>3, <5>1, <5>4, <5>5
        <5> QED BY <2>3, <5>1, <5>6 DEF c
      <4> QED BY <4>2, <4>3
    <3>2. CASE t.kind = Stale
      BY <3>2, Kinds
    <3>3. CASE x # Never /\ t = TimerOf(x, Delete, ctx)
      <4>1. t.at = x /\ t.kind = Delete /\ t.block = ctx
        BY <3>3, TimerOfParts
      <4>2. ctx \in Versions(r)
        BY <2>3
      <4> HIDE DEF x
      <4> QED BY <2>3, <3>3, <4>1, <4>2, Kinds
    <3> QED BY <2>3, <3>1, <3>2, <3>3
  <2>16. Debt(r) <= Debt(s) \/ Debt(r) <= Worth(d)
    <3>1. CASE \E c \in Versions(s) : c > ctx
      <4>1. PICK c \in Versions(s) : c > ctx
        BY <3>1
      <4>2. Top(s, c) /\ Top(r, c) /\ r.entries[c] = s.entries[c]
        BY <2>5, <2>10, <4>1
      <4>3. Debt(r) = Debt(s)
        BY <2>3, <4>2, DebtSame
      <4> QED BY <1>5, <4>3
    <3>2. CASE ~\E c \in Versions(s) : c > ctx
      <4>1. Top(r, ctx)
        BY <1>1, <2>3, <2>4, <3>2 DEF Top
      <4>2. CASE x = Never
        <5>1. Debt(r) = Worth(d)
          BY <2>3, <4>1, <4>2, DebtLive
        <5> QED BY <1>5, <5>1
      <4>3. CASE x # Never
        <5>1. Debt(r) = 0
          BY <2>3, <4>1, <4>3, DebtDeleted
        <5> QED BY <1>5, <5>1
      <4> QED BY <4>2, <4>3
    <3> QED BY <3>1, <3>2
  <2>17. Quiet(r)
    BY <2>12 DEF Quiet
  <2> QED BY <2>3, <2>8, <2>11, <2>14, <2>15, <2>16, <2>17 DEF Sound, r
<1> QED BY <1>6, <1>7

\* AppendEntry at the next epoch, where the newest version is not deleted.
LEMMA AppendNextIs ==
    ASSUME NEW s \in StoreOf(Subs), ctx \in Blocks, NEW next \in Targets, next > ctx,
           Sound(s, ctx, next), Quiet(s), NEW d \in Subs, d.block = next,
           Find(s, next) # NoBlock
    PROVE  LET r == AppendEntry(s, next, d)
           IN  /\ AppendSucceeds(s, next)
               /\ ~r.panic =>
                    /\ r \in StoreOf(Subs) /\ Sound(r, ctx, next) /\ Quiet(r)
                    /\ Top(r, next) /\ r.entries[next].deleteAt = Never /\ r.entries[next].data = d
                    /\ Debt(r) = Worth(d)
<1> DEFINE r == AppendEntry(s, next, d)
           b == Find(s, next)
<1>1. ctx \in Nat /\ next \in Nat /\ Never \in Nat /\ Never > ctx
  BY Bounds DEF Never, Blocks
<1>2. /\ Top(s, b) /\ s.entries[b].deleteAt = Never /\ s.entries[b].refcount > 0
      /\ s.entries[b].data.block = b /\ Nearest(s, next) = b /\ b \in Targets
  BY <1>1, FoundTop
<1>3. b # NoBlock /\ ~IsDeletedBy(s.entries[b], next)
  BY DEF Find
<1> HIDE DEF b
<1>4. ~IsFirst(s, next) /\ AppendSucceeds(s, next)
  <2>1. ~IsDeletedBy(s.entries[b], ctx)
    BY <1>1, <1>2 DEF IsDeletedBy
  <2> QED BY <1>1, <1>2, <1>3, <2>1 DEF IsFirst, AppendSucceeds
<1>5. r = IF next = b THEN ModifyEntry(s, next, d) ELSE Supersede(s, next, d, b, FALSE)
  <2>1. IsFirst(s, next) = FALSE
    BY <1>4 DEF IsFirst
  <2> QED BY <1>2, <1>4, <2>1 DEF AppendEntry
<1>6. b \in Versions(s) /\ s.entries[b] \in Entries(Subs) /\ b \in Nat
  BY <1>2, EntryOfStore, Bounds DEF Top
<1> HIDE DEF r
<1>7. CASE next = b
  <2>1. LET q == ModifyEntry(s, next, d)
        IN  ~q.panic =>
                 /\ q \in StoreOf(Subs) /\ Sound(q, ctx, next) /\ q.timers = s.timers
                 /\ next \in Versions(s) /\ Versions(q) = Versions(s) /\ q.entries[next].data = d
                 /\ q.entries[next].deleteAt = s.entries[next].deleteAt
                 /\ Top(s, next) /\ s.entries[next].deleteAt = Never => Debt(q) = Worth(d)
    BY ModifyIs
  <2>2. ~r.panic => /\ r \in StoreOf(Subs) /\ Sound(r, ctx, next) /\ r.timers = s.timers
                    /\ Versions(r) = Versions(s) /\ r.entries[next].data = d
                    /\ r.entries[next].deleteAt = Never /\ Debt(r) = Worth(d)
    BY <1>2, <1>5, <1>7, <2>1
  <2>3. ~r.panic => Top(r, next) /\ Quiet(r)
    BY <1>2, <1>7, <2>2 DEF Top, Quiet
  <2> QED BY <1>4, <2>2, <2>3 DEF r
<1>8. CASE next # b
  <2> DEFINE free == [s.entries[b] EXCEPT !.deleteAt = Never]
             unmarked == SetEntry(s, b, free)
             started == AddTimer(unmarked, next, Future, next)
             e == [staleAt |-> Never, deleteAt |-> Never, latest |-> next <= ctx,
                   refcount |-> 1, data |-> d]
             T == TimerOf(next, Future, next)
  <2>1. r = SetEntry(started, next, e)
    <3>1. s.entries[b].deleteAt = Never
      BY <1>2
    <3> QED BY <1>5, <1>8, <3>1 DEF Supersede
  <2>2. free = s.entries[b]
    BY <1>2, <1>6 DEF Entries
  <2>3. e \in Entries(Subs) /\ e.data = d /\ e.deleteAt = Never /\ e.refcount = 1
    <3>1. (next <= ctx) \in BOOLEAN
      BY <1>1
    <3> QED BY <1>1, <3>1 DEF Entries
  <2> HIDE DEF free, e
  <2>4. /\ unmarked \in StoreOf(Subs) /\ Versions(unmarked) = Versions(s)
        /\ \A c \in Versions(s) : unmarked.entries[c] = s.entries[c]
        /\ unmarked.timers = s.timers
    <3>1. LET q == SetEntry(s, b, free)
          IN  /\ q \in StoreOf(Subs) /\ Versions(q) = Versions(s) /\ q.entries[b] = free
              /\ \A c \in Versions(s) \ {b} : q.entries[c] = s.entries[c]
              /\ q.panic = s.panic /\ q.timers = s.timers
      BY <1>6, <2>2, SetIs
    <3> QED BY <2>2, <3>1
  <2> HIDE DEF unmarked
  <2>5. started \in StoreOf(Subs) /\ started.entries = unmarked.entries
    <3>1. Future \in {Future, Delete, Stale}
      OBVIOUS
    <3> QED BY <1>1, <2>4, <3>1, AddTimerTyped
  <2>6. started.timers = s.timers \cup {T}
    <3>1. started = [unmarked EXCEPT !.timers = @ \cup {T}]
      BY <1>1 DEF AddTimer, TimerOf
    <3> HIDE DEF started, T
    <3> QED BY <2>4, <3>1 DEF StoreOf
  <2> HIDE DEF started
  <2>7. LET q == SetEntry(started, next, e)
        IN  /\ q \in StoreOf(Subs) /\ Versions(q) = Versions(started) \cup {next} /\ q.entries[next] = e
            /\ \A c \in Versions(started) \ {next} : q.entries[c] = started.entries[c]
            /\ q.panic = started.panic /\ q.timers = started.timers /\ q.index = started.index
    BY <2>3, <2>5, SetEntryTyped
  <2>8. Versions(started) = Versions(s)
    BY <2>4, <2>5 DEF Versions
  <2>9. /\ r \in StoreOf(Subs) /\ Versions(r) = Versions(s) \cup {next}
        /\ r.entries[next] = e
        /\ \A c \in Versions(s) \ {next} : r.entries[c] = s.entries[c]
        /\ r.timers = s.timers \cup {T}
    BY <2>1, <2>4, <2>5, <2>6, <2>7, <2>8
  <2>10. T.at = next /\ T.kind = Future /\ T.block = next
    BY TimerOfParts
  <2> HIDE DEF T
  <2>11. \A c \in Versions(s) : c \in Nat /\ c <= b /\ c <= ctx /\ c # next
    <3>1. \A c \in Versions(s) : c \in Nat /\ c <= b /\ (c > ctx => c = next) /\ c <= next
      BY <1>2, StoreParts, Bounds DEF Sound, Starts, Top
    <3>2. b <= ctx
      BY <1>1, <1>6, <1>8, <3>1
    <3> QED BY <1>1, <1>6, <3>1, <3>2
  <2>12. \A c \in Versions(r) : Top(r, c) => c = next
    BY <1>1, <2>9, <2>11 DEF Top
  <2>13. Top(r, next)
    BY <1>1, <2>9, <2>11 DEF Top
  <2>14. Starts(r, ctx, next)
    <3> SUFFICES ASSUME NEW c \in Versions(r)
                 PROVE  /\ c <= next /\ (c > ctx => c = next) /\ r.entries[c].data.block = c
                        /\ r.entries[c].deleteAt = Never \/ r.entries[c].deleteAt <= next
      BY DEF Starts
    <3>1. CASE c = next
      BY <1>1, <2>3, <2>9, <3>1
    <3>2. CASE c # next
      BY <2>9, <3>2 DEF Sound, Starts
    <3> QED BY <3>1, <3>2
  <2>15. Referenced(r)
    BY <2>3, <2>9, <2>12 DEF Referenced
  <2>16. Below(r, next, b)
    <3>1. r.entries[b] = s.entries[b] /\ b \in Versions(r) /\ b < next
      BY <1>1, <1>6, <2>9, <2>11
    <3>2. \A y \in Versions(r) : y < next => y <= b
      BY <1>1, <2>9, <2>11
    <3> QED BY <1>2, <3>1, <3>2 DEF Below
  <2>17. Follows(r, ctx)
    BY <2>3, <2>9, <2>12, <2>16 DEF Follows, Below
  <2>18. TimersFit(r)
    <3> SUFFICES ASSUME NEW t \in r.timers
                 PROVE  /\ t.kind = Future => t.at = t.block /\ Top(r, t.block)
                        /\ t.kind = Delete => /\ t.block \in Versions(r) /\ t.at # Never
                                              /\ r.entries[t.block].deleteAt = t.at
                                              /\ r.entries[t.block].refcount > 0
      BY DEF TimersFit
    <3>1. CASE t = T
      BY <2>10, <2>13, <3>1, Kinds
    <3>2. CASE t \in s.timers
      <4>1. t.kind # Future
        <5>1. ASSUME t.kind = Future PROVE FALSE
          <6>1. t.at = t.block /\ t.block \in Versions(s) /\ t.at > ctx
            BY <3>2, <5>1 DEF Sound, TimersFit, Quiet, Top
          <6> QED BY <1>1, <2>11, <6>1
        <5> QED BY <5>1
      <4>2. t.kind = Delete => /\ t.block \in Versions(s) /\ t.at # Never
                               /\ s.entries[t.block].deleteAt = t.at
                               /\ s.entries[t.block].refcount > 0
        BY <3>2 DEF Sound, TimersFit
      <4> QED BY <2>9, <2>11, <4>1, <4>2
    <3> QED BY <2>9, <3>1, <3>2
  <2>19. Quiet(r)
    BY <2>9, <2>10 DEF Quiet
  <2>20. Debt(r) = Worth(d)
    BY <2>3, <2>9, <2>13, DebtLive
  <2> QED BY <1>4, <2>3, <2>9, <2>13, <2>14, <2>15, <2>17, <2>18, <2>19, <2>20 DEF Sound, r
<1> QED BY <1>7, <1>8

\* DelEntry at the next epoch, of the version found for it.
LEMMA DelNextIs ==
    ASSUME NEW s \in StoreOf(Subs), ctx \in Blocks, NEW next \in Targets, next > ctx,
           Sound(s, ctx, next), Quiet(s), Find(s, next) # NoBlock
    PROVE  LET r == DelEntry(s, next)
           IN  /\ DelSucceeds(s, next)
               /\ ~r.panic => r \in StoreOf(Subs) /\ Sound(r, ctx, next) /\ Quiet(r) /\ Debt(r) = 0
<1> DEFINE r == DelEntry(s, next)
           b == Find(s, next)
           q == DelTarget(s, next)
           e == [s.entries[q] EXCEPT !.deleteAt = next]
           marked == SetEntry(s, q, e)
           timed == AddTimer(marked, next, Delete, q)
           bs == {c \in Versions(timed) : c >= next}
           T == TimerOf(next, Delete, q)
<1>1. ctx \in Nat /\ next \in Nat /\ Never \in Nat /\ Never > ctx /\ Never > next
  BY Bounds DEF Never, Blocks, Targets
<1>2. /\ Top(s, b) /\ s.entries[b].deleteAt = Never /\ s.entries[b].refcount > 0
      /\ b \in Targets
  BY <1>1, FoundTop
<1>3. \A c \in Versions(s) : /\ c \in Nat /\ c <= b /\ c <= next /\ (c > ctx => c = next)
                             /\ c \in Targets /\ s.entries[c] \in Entries(Subs)
  BY <1>2, EntryOfStore, Bounds DEF Sound, Starts, Top
<1>4. q = Nearest(s, next - 1)
  BY <1>1 DEF DelTarget
<1> HIDE DEF b, q
<1>5. /\ q \in Versions(s) /\ q < next /\ s.entries[q].deleteAt = Never
      /\ s.entries[q].refcount > 0 /\ \A c \in Versions(s) : c < next => c <= q
  <2>1. CASE b = next
    <3>1. PICK v \in Versions(s) : Below(s, b, v)
      BY <1>1, <1>2, <2>1, WaitingIsTop DEF Top
    <3>2. \A c \in Versions(s) : c <= next - 1 => c <= v
      BY <1>1, <1>3, <2>1, <3>1 DEF Below
    <3>3. next - 1 \in Int /\ v <= next - 1 /\ s.entries[v].refcount > 0
      BY <1>1, <1>3, <2>1, <3>1 DEF Below
    <3>4. q = v
      BY <1>4, <3>2, <3>3, NearestHeld
    <3> QED BY <2>1, <3>1, <3>4 DEF Below
  <2>2. CASE b # next
    <3>1. b \in Versions(s) /\ b <= next - 1 /\ next - 1 \in Int
      BY <1>1, <1>2, <1>3, <2>2 DEF Top
    <3>2. \A c \in Versions(s) : c <= next - 1 => c <= b
      BY <1>3
    <3>3. q = b
      BY <1>2, <1>4, <3>1, <3>2, NearestHeld
    <3> QED BY <1>1, <1>2, <1>3, <3>1, <3>3
  <2> QED BY <2>1, <2>2
<1>6. q # NoBlock /\ q \in Targets /\ q <= ctx
  BY <1>1, <1>3, <1>5, Bounds
<1>7. DelSucceeds(s, next)
  BY <1>1, <1>5, <1>6 DEF DelSucceeds, HasDeleteAt, q
<1>8. r = CancelFuture(timed, bs)
  BY <1>1, <1>6, <1>7 DEF DelEntry, TrimFuture, q
<1>9. e \in Entries(Subs) /\ e.data = s.entries[q].data /\ e.deleteAt = next /\ e.refcount = s.entries[q].refcount
  BY <1>1, <1>3, <1>5 DEF Entries
<1> HIDE DEF e, r
<1>10. /\ marked \in StoreOf(Subs) /\ Versions(marked) = Versions(s) /\ marked.entries[q] = e
       /\ \A c \in Versions(s) \ {q} : marked.entries[c] = s.entries[c]
       /\ marked.timers = s.timers
  <2>1. LET m == SetEntry(s, q, e)
        IN  /\ m \in StoreOf(Subs) /\ Versions(m) = Versions(s) /\ m.entries[q] = e
            /\ \A c \in Versions(s) \ {q} : m.entries[c] = s.entries[c]
            /\ m.panic = s.panic /\ m.timers = s.timers
    BY <1>5, <1>9, SetIs
  <2> QED BY <2>1
<1> HIDE DEF marked
<1>11. timed \in StoreOf(Subs) /\ timed.entries = marked.entries
  <2>1. Delete \in {Future, Delete, Stale}
    OBVIOUS
  <2> QED BY <1>1, <1>6, <1>10, <2>1, AddTimerTyped
<1>12. timed.timers = s.timers \cup {T}
  <2>1. timed = [marked EXCEPT !.timers = @ \cup {T}]
    BY <1>1 DEF AddTimer, TimerOf
  <2> HIDE DEF timed, T
  <2> QED BY <1>10, <2>1 DEF StoreOf
<1> HIDE DEF timed
<1>13. Versions(timed) = Versions(s) /\ bs = {c \in Versions(s) : c = next}
  <2>1. Versions(timed) = Versions(s)
    BY <1>10, <1>11 DEF Versions
  <2> QED BY <1>1, <1>3, <2>1
<1> HIDE DEF bs
<1>14. T.at = next /\ T.kind = Delete /\ T.block = q
  BY TimerOfParts
<1> HIDE DEF T
<1> SUFFICES ASSUME ~r.panic PROVE r \in StoreOf(Subs) /\ Sound(r, ctx, next) /\ Quiet(r) /\ Debt(r) = 0
  BY <1>7 DEF r
<1>15. /\ r \in StoreOf(Subs) /\ Versions(r) = Versions(timed) \ bs
       /\ \A c \in Versions(r) : r.entries[c] = timed.entries[c]
       /\ r.timers = timed.timers \ {TimerOf(c, Future, c) : c \in bs}
  BY <1>8, <1>11, CancelsIs
<1>16. /\ Versions(r) = Versions(s) \ {next}
       /\ \A c \in Versions(r) : c # q => r.entries[c] = s.entries[c]
       /\ q \in Versions(r) /\ r.entries[q] = e
  BY <1>1, <1>5, <1>10, <1>11, <1>13, <1>15
<1>17. Top(r, q) /\ \A c \in Versions(r) : c <= ctx /\ (Top(r, c) => c = q)
  <2>1. \A c \in Versions(r) : c \in Nat /\ c < next /\ c <= q
    BY <1>1, <1>3, <1>5, <1>16
  <2>2. Top(r, q)
    BY <1>16, <2>1 DEF Top
  <2>3. \A c \in Versions(r) : Top(r, c) => c = q
    BY <1>15, <2>2, TopOnce
  <2> QED BY <1>1, <1>3, <1>16, <2>1, <2>2, <2>3
<1>18. Starts(r, ctx, next)
  <2> SUFFICES ASSUME NEW c \in Versions(r)
               PROVE  /\ c <= next /\ (c > ctx => c = next) /\ r.entries[c].data.block = c
                      /\ r.entries[c].deleteAt = Never \/ r.entries[c].deleteAt <= next
    BY DEF Starts
  <2>1. CASE c = q
    <3>1. s.entries[q].data.block = q /\ q <= next
      BY <1>5, <1>1, <1>3 DEF Sound, Starts
    <3> QED BY <1>1, <1>3, <1>5, <1>9, <1>16, <2>1, <3>1
  <2>2. CASE c # q
    BY <1>16, <2>2 DEF Sound, Starts
  <2> QED BY <2>1, <2>2
<1>19. Referenced(r)
  BY <1>1, <1>9, <1>16, <1>17 DEF Referenced
<1>20. \A t \in r.timers : t.kind # Future
  <2> SUFFICES ASSUME NEW t \in r.timers, t.kind = Future PROVE FALSE
    OBVIOUS
  <2>1. t \in s.timers
    BY <1>12, <1>14, <1>15, Kinds
  <2>2. t.at = t.block /\ t.block \in Versions(s) /\ t.at > ctx /\ t \in Timer
    BY <2>1, StoreParts DEF Sound, TimersFit, Quiet, Top
  <2>3. t.block = next /\ next \in bs
    BY <1>3, <1>13, <2>2
  <2>4. t = TimerOf(next, Future, next)
    BY <2>2, <2>3, TimerParts
  <2> QED BY <1>15, <2>3, <2>4
<1>21. Follows(r, ctx)
  <2> SUFFICES ASSUME NEW c \in Versions(r), Waits(r, ctx, c) PROVE FALSE
    BY DEF Follows
  <2>1. c <= ctx /\ c \in Nat
    BY <1>3, <1>16, <1>17
  <2> QED BY <1>1, <1>20, <2>1 DEF Waits
<1>22. TimersFit(r)
  <2> SUFFICES ASSUME NEW t \in r.timers, t.kind = Delete
               PROVE  /\ t.block \in Versions(r) /\ t.at # Never
                      /\ r.entries[t.block].deleteAt = t.at
                      /\ r.entries[t.block].refcount > 0
    BY <1>20 DEF TimersFit
  <2>1. CASE t = T
    BY <1>1, <1>5, <1>9, <1>14, <1>16, <2>1
  <2>2. CASE t \in s.timers
    <3>1. /\ t.block \in Versions(s) /\ t.at # Never
          /\ s.entries[t.block].deleteAt = t.at
          /\ s.entries[t.block].refcount > 0
      BY <2>2 DEF Sound, TimersFit
    <3>2. t.block # q
      BY <1>5, <3>1
    <3>3. t.block # next
      <4>1. next \in Versions(s) => s.entries[next].deleteAt = Never
        BY <1>1, WaitingIsTop
      <4> QED BY <3>1, <4>1
    <3> QED BY <1>16, <3>1, <3>2, <3>3
  <2> QED BY <1>12, <1>15, <2>1, <2>2
<1>23. Quiet(r)
  BY <1>12, <1>14, <1>15 DEF Quiet
<1>24. Debt(r) = 0
  BY <1>1, <1>9, <1>15, <1>16, <1>17, DebtDeleted
<1> QED BY <1>15, <1>18, <1>19, <1>21, <1>22, <1>23, <1>24 DEF Sound

\* AppendEntry of the version in effect changes its data.
LEMMA AppendFoundIs ==
    ASSUME NEW s \in StoreOf(Subs), ctx \in Blocks, NEW next \in Nat, Sound(s, ctx, next), Quiet(s),
           NEW b, b = Find(s, ctx), b # NoBlock, NEW d \in Subs, d.block = b,
           Worth(d) = Worth(s.entries[b].data), ~AppendEntry(s, b, d).panic
    PROVE  LET r == AppendEntry(s, b, d)
           IN  r \in StoreOf(Subs) /\ Sound(r, ctx, next) /\ Quiet(r) /\ Debt(r) = Debt(s)
<1>1. ctx \in Nat /\ ctx \in Int
  BY Bounds
<1>2. b = Nearest(s, ctx) /\ ~IsDeletedBy(s.entries[b], ctx)
  BY DEF Find
<1>3. b \in Versions(s) /\ b <= ctx /\ b \in Nat /\ b \in Int
  BY <1>1, <1>2, NearestVersion, StoreParts, Bounds
<1>4. ~IsStaleBy(s.entries[b], ctx)
  <2>1. PICK m \in {c \in Versions(s) : c <= ctx} : \A c \in {y \in Versions(s) : y <= ctx} : c <= m
    <3>1. {c \in Versions(s) : c <= ctx} \in SUBSET Targets /\ {c \in Versions(s) : c <= ctx} # {}
      BY <1>3, StoreParts
    <3> QED BY <3>1, NewestOf
  <2>2. Nearest(s, ctx) = IF IsStaleBy(s.entries[m], ctx) /\ ~IsDeletedBy(s.entries[m], ctx) THEN NoBlock ELSE m
    BY <1>1, <2>1, NearestTop
  <2> QED BY <1>2, <2>2
<1>5. Nearest(s, b) = b
  <2>1. Nearest(s, b) = IF IsStaleBy(s.entries[b], ctx) /\ ~IsDeletedBy(s.entries[b], b) THEN NoBlock ELSE b
    BY <1>3, NearestTop
  <2> QED BY <1>4, <2>1
<1>6. ~IsFirst(s, b)
  BY <1>2, <1>5 DEF IsFirst
<1>7. AppendEntry(s, b, d) = IF AppendSucceeds(s, b) THEN ModifyEntry(s, b, d) ELSE s
  BY <1>5, <1>6 DEF AppendEntry
<1>8. CASE ~AppendSucceeds(s, b)
  BY <1>7, <1>8
<1>9. CASE AppendSucceeds(s, b)
  <2> DEFINE r == ModifyEntry(s, b, d)
  <2>1. r = AppendEntry(s, b, d)
    BY <1>7, <1>9
  <2>2. ~r.panic =>
            /\ r \in StoreOf(Subs) /\ Sound(r, ctx, next) /\ r.timers = s.timers
            /\ Top(s, b) /\ s.entries[b].deleteAt = Never => Debt(r) = Worth(d)
            /\ ~(Top(s, b) /\ s.entries[b].deleteAt = Never) => Debt(r) = Debt(s)
    BY ModifyIs
  <2> HIDE DEF r
  <2>3. Top(s, b) /\ s.entries[b].deleteAt = Never => Debt(s) = Worth(d)
    BY DebtLive
  <2>4. r \in StoreOf(Subs) /\ Sound(r, ctx, next) /\ Quiet(r) /\ Debt(r) = Debt(s)
    BY <2>1, <2>2, <2>3 DEF Quiet
  <2> QED BY <2>1, <2>4
<1> QED BY <1>8, <1>9

\* The credit returned to the version in effect is owed, unless that version is
\* not the newest any more.
LEMMA ModifyFoundIs ==
    ASSUME NEW s \in StoreOf(Subs), ctx \in Blocks, NEW next \in Nat, Sound(s, ctx, next), Quiet(s),
           NEW b, b = Find(s, ctx), b # NoBlock, NEW d \in Subs, d.block = b, NEW n \in Nat,
           Worth(d) = Worth(s.entries[b].data) + n, ~ModifyEntry(s, b, d).panic
    PROVE  LET r == ModifyEntry(s, b, d)
           IN  r \in StoreOf(Subs) /\ Sound(r, ctx, next) /\ Quiet(r) /\ Debt(r) <= Debt(s) + n
<1> DEFINE r == ModifyEntry(s, b, d)
<1>1. ~r.panic =>
            /\ r \in StoreOf(Subs) /\ Sound(r, ctx, next) /\ r.timers = s.timers
            /\ Top(s, b) /\ s.entries[b].deleteAt = Never => Debt(r) = Worth(d)
            /\ ~(Top(s, b) /\ s.entries[b].deleteAt = Never) => Debt(r) = Debt(s)
  BY ModifyIs
<1> HIDE DEF r
<1>2. Top(s, b) /\ s.entries[b].deleteAt = Never => Debt(s) = Worth(s.entries[b].data)
  BY DebtLive
<1>3. Debt(s) \in Nat
  BY DebtNat
<1>4. ~r.panic
  BY DEF r
<1>5. r \in StoreOf(Subs) /\ Sound(r, ctx, next) /\ Quiet(r)
  BY <1>1, <1>4 DEF Quiet
<1>6. Debt(r) <= Debt(s) + n
  BY <1>1, <1>2, <1>3, <1>4
<1> QED BY <1>5, <1>6 DEF r

-----------------------------------------------------------------------------
(* A timer of a subscription store fires. *)

\* What a step of the tick leaves: the versions, their data and their deletes; only v,
\* which no timer deletes and no waiting version follows, may lose a reference.
Ticked(s, r, v) ==
    /\ Versions(r) = Versions(s)
    /\ \A c \in Versions(s) : /\ r.entries[c].data = s.entries[c].data
                              /\ r.entries[c].deleteAt = s.entries[c].deleteAt
                              /\ c # v => r.entries[c].refcount = s.entries[c].refcount
    /\ \A t \in r.timers : t \in s.timers \/ t.kind = Stale

LEMMA TickedSound ==
    ASSUME NEW s \in StoreOf(Subs), NEW r \in StoreOf(Subs), NEW next, Sound(s, ctx, next), NEW v,
           Ticked(s, r, v),
           \A t \in r.timers : t.kind = Delete => t.block # v,
           \A b \in Versions(s) : Top(s, b) =>
              /\ b = v => s.entries[b].deleteAt # Never
              /\ Waits(r, ctx, b) => ~Below(s, b, v)
    PROVE  Sound(r, ctx, next) /\ Debt(r) = Debt(s)
<1>1. \A b : Top(r, b) <=> Top(s, b)
  BY DEF Ticked, Top
<1>2. \A t \in r.timers : t.kind # Stale => t \in s.timers
  BY DEF Ticked
<1>3. Starts(r, ctx, next)
  BY DEF Sound, Starts, Ticked
<1>4. Referenced(r)
  BY <1>1 DEF Sound, Referenced, Ticked
<1>5. Follows(r, ctx)
  <2> SUFFICES ASSUME NEW b \in Versions(r), Top(r, b), Waits(r, ctx, b)
               PROVE  r.entries[b].deleteAt = Never /\ \E w \in Versions(r) : Below(r, b, w)
    BY DEF Follows
  <2>1. Top(s, b) /\ Waits(s, ctx, b) /\ b \in Versions(s)
    BY <1>1, <1>2, Kinds DEF Waits, Ticked
  <2>2. PICK w \in Versions(s) : Below(s, b, w)
    BY <2>1 DEF Sound, Follows
  <2>3. w # v
    BY <2>1, <2>2
  <2>4. Below(r, b, w) /\ w \in Versions(r)
    BY <2>2, <2>3 DEF Below, Ticked
  <2>5. s.entries[b].deleteAt = Never
    BY <2>1 DEF Sound, Follows
  <2> QED BY <2>1, <2>4, <2>5 DEF Ticked
<1>6. TimersFit(r)
  <2> SUFFICES ASSUME NEW t \in r.timers
               PROVE  /\ t.kind = Future => t.at = t.block /\ Top(r, t.block)
                      /\ t.kind = Delete => /\ t.block \in Versions(r) /\ t.at # Never
                                            /\ r.entries[t.block].deleteAt = t.at
                                            /\ r.entries[t.block].refcount > 0
    BY DEF TimersFit
  <2>1. CASE t.kind = Stale
    BY <2>1, Kinds
  <2>2. CASE t.kind # Stale
    BY <1>1, <1>2, <2>2 DEF Sound, TimersFit, Ticked
  <2> QED BY <2>1, <2>2
<1>7. Debt(r) = Debt(s)
  <2>1. CASE Versions(s) = {}
    BY <2>1, DebtNone DEF Ticked
  <2>2. CASE Versions(s) # {}
    <3>1. PICK b \in Versions(s) : Top(s, b)
      BY <2>2, TopExists
    <3> QED BY <1>1, <3>1, DebtSame DEF Ticked
  <2> QED BY <2>1, <2>2
<1> QED BY <1>3, <1>4, <1>5, <1>6, <1>7 DEF Sound

Without(s, t) == [s EXCEPT !.timers = @ \ {t}]

LEMMA WithoutIs ==
    ASSUME NEW D, NEW s \in StoreOf(D), NEW t
    PROVE  /\ Without(s, t) \in StoreOf(D) /\ Without(s, t).entries = s.entries
           /\ Without(s, t).timers = s.timers \ {t} /\ Without(s, t).panic = s.panic
           /\ Versions(Without(s, t)) = Versions(s)
<1>1. s.timers \ {t} \in SUBSET Timer
  BY StoreParts
<1>2. Without(s, t) \in StoreOf(D)
  BY <1>1 DEF Without, StoreOf
<1> QED BY <1>2 DEF Without, StoreOf, Versions

LEMMA MatureIs ==
    ASSUME NEW s \in StoreOf(Subs), ctx \in Blocks, NEW next \in Nat, Sound(s, ctx, next),
           NEW t \in s.timers, t.at <= ctx, t.kind = Future, ~MatureEntry(Without(s, t), t.block).panic
    PROVE  LET r == MatureEntry(Without(s, t), t.block)
           IN  r \in StoreOf(Subs) /\ Sound(r, ctx, next) /\ Debt(r) = Debt(s)
<1> DEFINE u == Without(s, t)
           b == t.block
           prev == Nearest(u, b - 1)
           e == [u.entries[prev] EXCEPT !.latest = FALSE]
           put == PutEntry(u, prev, e)
           replaces == prev # NoBlock /\ u.entries[prev].latest
           dropped == IF ~replaces THEN u ELSE put
           f == [dropped.entries[b] EXCEPT !.latest = TRUE]
           r == MatureEntry(u, b)
<1>1. ctx \in Nat /\ t \in Timer
  BY Bounds, StoreParts
<1>2. t.at = b /\ Top(s, b) /\ b \in Versions(s) /\ Waits(s, ctx, b)
  BY DEF Sound, TimersFit, Top, Waits
<1>3. /\ u \in StoreOf(Subs) /\ u.entries = s.entries /\ u.timers = s.timers \ {t}
      /\ Versions(u) = Versions(s)
  BY WithoutIs
<1>4. s.entries[b].deleteAt = Never /\ \E v \in Versions(s) : Below(s, b, v)
  BY <1>2 DEF Sound, Follows
<1>5. PICK v \in Versions(s) : Below(s, b, v)
  BY <1>4
<1>6. /\ v < b /\ v \in Nat /\ b \in Nat /\ b <= ctx /\ s.entries[v].refcount > 0
      /\ s.entries[v].deleteAt = Never /\ \A c \in Versions(s) : c < b => c <= v
  BY <1>1, <1>2, <1>5, StoreParts, Bounds DEF Below
<1> HIDE DEF u, b
<1>7. prev = v
  <2>1. b - 1 \in Int /\ v <= b - 1 /\ v \in Versions(u) /\ u.entries[v].refcount > 0
    BY <1>3, <1>5, <1>6
  <2>2. \A c \in Versions(u) : c <= b - 1 => c <= v
    <3>1. \A c \in Versions(u) : c \in Nat
      BY <1>3, StoreParts, Bounds
    <3>2. ASSUME NEW c \in Versions(u), c <= b - 1 PROVE c <= v
      <4>1. c \in Nat /\ b \in Nat /\ c <= b - 1
        BY <1>6, <3>1, <3>2
      <4>2. c < b
        BY ONLY <4>1
      <4> QED BY <1>3, <1>6, <4>2
    <3> QED BY <3>2
  <2> QED BY <1>3, <2>1, <2>2, NearestHeld
<1>8. r = IF \/ replaces /\ IsDeletedBy(u.entries[prev], b)
             \/ b \notin Versions(dropped)
          THEN Panic(u) ELSE SetEntry(dropped, b, f)
  BY DEF MatureEntry
<1>9. r = SetEntry(dropped, b, f) /\ b \in Versions(dropped)
  <2>1. Panic(u).panic
    BY <1>3 DEF Panic, StoreOf
  <2>2. ~r.panic
    BY DEF u, b
  <2> HIDE DEF r, f, dropped, replaces
  <2> QED BY <1>8, <2>1, <2>2
<1>10. e \in Entries(Subs) /\ e.data = s.entries[v].data /\ e.deleteAt = s.entries[v].deleteAt
  <2>1. u.entries[prev] = s.entries[v] /\ s.entries[v] \in Entries(Subs)
    BY <1>3, <1>5, <1>7, EntryOfStore
  <2> HIDE DEF prev
  <2> QED BY <2>1 DEF Entries
<1>11. dropped \in StoreOf(Subs) /\
       (~dropped.panic =>
          /\ Versions(dropped) = Versions(s)
          /\ \A c \in Versions(s) \ {v} : dropped.entries[c] = s.entries[c]
          /\ dropped.entries[v].data = s.entries[v].data /\ dropped.entries[v].deleteAt = s.entries[v].deleteAt
          /\ OnlyStale(u, dropped))
  <2>1. CASE ~replaces
    <3>1. dropped = u
      BY <2>1
    <3> HIDE DEF dropped
    <3> QED BY <1>3, <3>1 DEF OnlyStale
  <2>2. CASE replaces
    <3>1. dropped = put
      BY <2>2
    <3> HIDE DEF dropped, replaces, e, prev
    <3>2. v \in Targets /\ v \in Versions(u) /\ v <= ctx
      BY <1>1, <1>3, <1>5, <1>6, EntryOfStore
    <3>3. put = PutEntry(u, v, e)
      BY <1>7
    <3>4. put \in StoreOf(Subs)
      BY <1>3, <1>10, <3>2, <3>3, PutEntryTyped
    <3>5. LET q == PutEntry(u, v, e)
          IN  ~q.panic =>
                 /\ q \in StoreOf(Subs) /\ ~u.panic /\ Versions(q) = Versions(u)
                 /\ \A c \in Versions(u) \ {v} : q.entries[c] = u.entries[c]
                 /\ q.entries[v].data = e.data /\ q.entries[v].deleteAt = e.deleteAt
                 /\ OnlyStale(u, q) /\ u.timers \subseteq q.timers
      BY <1>3, <1>10, <3>2, PutIs
    <3> HIDE DEF put
    <3> QED BY <1>3, <1>10, <3>1, <3>3, <3>4, <3>5
  <2> QED BY <2>1, <2>2
<1> HIDE DEF dropped, r, e, prev
<1>12. f \in Entries(Subs) /\ f.data = dropped.entries[b].data /\ f.deleteAt = dropped.entries[b].deleteAt
       /\ f.refcount = dropped.entries[b].refcount
  <2>1. dropped.entries[b] \in Entries(Subs)
    BY <1>9, <1>11, EntryOfStore
  <2> QED BY <2>1 DEF Entries
<1> HIDE DEF f
<1>13. /\ r \in StoreOf(Subs) /\ Versions(r) = Versions(dropped) /\ r.entries[b] = f
       /\ \A c \in Versions(dropped) \ {b} : r.entries[c] = dropped.entries[c]
       /\ r.panic = dropped.panic /\ r.timers = dropped.timers
  BY <1>9, <1>11, <1>12, SetIs
<1>14. ~dropped.panic
  BY <1>13 DEF r, u, b
<1>15. Ticked(s, r, v)
  <2>1. \A c \in Versions(s) : /\ r.entries[c].data = s.entries[c].data
                               /\ r.entries[c].deleteAt = s.entries[c].deleteAt
                               /\ c # v => r.entries[c].refcount = s.entries[c].refcount
    <3> SUFFICES ASSUME NEW c \in Versions(s)
                 PROVE  /\ r.entries[c].data = s.entries[c].data
                        /\ r.entries[c].deleteAt = s.entries[c].deleteAt
                        /\ c # v => r.entries[c].refcount = s.entries[c].refcount
      OBVIOUS
    <3>1. b # v /\ dropped.entries[b] = s.entries[b]
      BY <1>2, <1>6, <1>11, <1>14
    <3>2. CASE c = b
      BY <1>12, <1>13, <3>1, <3>2
    <3>3. CASE c # b
      BY <1>11, <1>13, <1>14, <3>3
    <3> QED BY <3>2, <3>3
  <2>2. \A y \in r.timers : y \in s.timers \/ y.kind = Stale
    BY <1>3, <1>11, <1>13, <1>14 DEF OnlyStale
  <2> QED BY <1>11, <1>13, <1>14, <2>1, <2>2 DEF Ticked
<1>16. \A y \in r.timers : y.kind # Stale => y \in s.timers /\ y # t
  BY <1>3, <1>11, <1>13, <1>14 DEF OnlyStale
<1>17. \A y \in r.timers : y.kind = Delete => y.block # v
  BY <1>6, <1>16, Kinds DEF Sound, TimersFit
<1>18. ~Waits(r, ctx, b)
  <2>1. ASSUME NEW y \in r.timers, y.kind = Future, y.block = b PROVE FALSE
    <3>1. y \in s.timers /\ y # t /\ y \in Timer
      BY <1>16, <2>1, Kinds, StoreParts
    <3>2. y.at = b
      BY <2>1, <3>1 DEF Sound, TimersFit
    <3>3. y = TimerOf(b, Future, b) /\ t = TimerOf(b, Future, b)
      BY <1>1, <1>2, <2>1, <3>1, <3>2, TimerParts DEF b
    <3> QED BY <3>1, <3>3
  <2> QED BY <1>1, <1>6, <2>1 DEF Waits
<1>19. \A c \in Versions(s) : Top(s, c) => c = b
  BY <1>2, TopOnce
<1>20. Sound(r, ctx, next) /\ Debt(r) = Debt(s)
  BY <1>6, <1>13, <1>15, <1>17, <1>18, <1>19, TickedSound
<1> QED BY <1>13, <1>20 DEF r, u, b

LEMMA DeletedIs ==
    ASSUME NEW s \in StoreOf(Subs), ctx \in Blocks, NEW next \in Nat, Sound(s, ctx, next),
           NEW t \in s.timers, t.kind = Delete, ~DeleteMarked(Without(s, t), t.block).panic
    PROVE  LET r == DeleteMarked(Without(s, t), t.block)
           IN  r \in StoreOf(Subs) /\ Sound(r, ctx, next) /\ Debt(r) = Debt(s)
<1> DEFINE u == Without(s, t)
           b == t.block
           w == SetIndex(u, "dead")
           e == [u.entries[b] EXCEPT !.latest = FALSE]
           r == DeleteMarked(u, b)
<1>1. ctx \in Nat /\ t \in Timer
  BY Bounds, StoreParts
<1>2. b \in Versions(s) /\ t.at # Never /\ s.entries[b].deleteAt = t.at
  BY DEF Sound, TimersFit
<1>3. /\ u \in StoreOf(Subs) /\ u.entries = s.entries /\ u.timers = s.timers \ {t}
      /\ Versions(u) = Versions(s)
  BY WithoutIs
<1>4. b <= ctx
  <2>1. b \in Nat
    BY <1>2, StoreParts, Bounds
  <2>2. ~(b > ctx)
    BY <1>1, <1>2, WaitingIsTop
  <2> QED BY <1>1, <2>1, <2>2
<1> HIDE DEF u, b
<1>5. r = PutEntry(w, b, e)
  BY <1>2, <1>3 DEF DeleteMarked
<1>6. w \in StoreOf(Subs) /\ w.entries = s.entries /\ w.timers = s.timers \ {t} /\ Versions(w) = Versions(s)
  <2>1. w \in StoreOf(Subs) /\ w.entries = u.entries
    BY <1>3, IndexTyped
  <2>2. w.timers = u.timers
    BY <1>3 DEF SetIndex, StoreOf
  <2> QED BY <1>3, <2>1, <2>2 DEF Versions
<1>7. e \in Entries(Subs) /\ e.data = s.entries[b].data /\ e.deleteAt = s.entries[b].deleteAt
  <2>1. u.entries[b] = s.entries[b] /\ s.entries[b] \in Entries(Subs)
    BY <1>2, <1>3, EntryOfStore
  <2> QED BY <2>1 DEF Entries
<1>8. ~r.panic
  BY DEF u, b
<1> HIDE DEF w, e, r
<1>9. LET q == PutEntry(w, b, e)
      IN  ~q.panic =>
                 /\ q \in StoreOf(Subs) /\ ~w.panic /\ Versions(q) = Versions(w)
                 /\ \A c \in Versions(w) \ {b} : q.entries[c] = w.entries[c]
                 /\ q.entries[b].data = e.data /\ q.entries[b].deleteAt = e.deleteAt
                 /\ OnlyStale(w, q) /\ w.timers \subseteq q.timers
  BY <1>2, <1>4, <1>6, <1>7, PutIs
<1>10. /\ r \in StoreOf(Subs) /\ Versions(r) = Versions(s)
       /\ \A c \in Versions(s) \ {b} : r.entries[c] = s.entries[c]
       /\ r.entries[b].data = s.entries[b].data /\ r.entries[b].deleteAt = s.entries[b].deleteAt
       /\ OnlyStale(w, r)
  BY <1>5, <1>6, <1>7, <1>8, <1>9
<1>11. Ticked(s, r, b)
  <2>1. \A y \in r.timers : y \in s.timers \/ y.kind = Stale
    BY <1>6, <1>10 DEF OnlyStale
  <2> QED BY <1>10, <2>1 DEF Ticked
<1>12. \A y \in r.timers : y.kind = Delete => y.block # b
  <2> SUFFICES ASSUME NEW y \in r.timers, y.kind = Delete, y.block = b PROVE FALSE
    OBVIOUS
  <2>1. y \in s.timers /\ y # t /\ y \in Timer
    BY <1>6, <1>10, Kinds, StoreParts DEF OnlyStale
  <2>2. y.at = t.at
    BY <1>2, <2>1 DEF Sound, TimersFit
  <2>3. y = TimerOf(t.at, Delete, b) /\ t = TimerOf(t.at, Delete, b)
    BY <1>1, <2>1, <2>2, TimerParts DEF b
  <2> QED BY <2>1, <2>3
<1>13. \A c \in Versions(s) : Top(s, c) =>
              /\ c = b => s.entries[c].deleteAt # Never
              /\ Waits(r, ctx, c) => ~Below(s, c, b)
  BY <1>2 DEF Below
<1>14. Sound(r, ctx, next) /\ Debt(r) = Debt(s)
  BY <1>10, <1>11, <1>12, <1>13, TickedSound
<1> QED BY <1>10, <1>14 DEF r, u, b

LEMMA StaleIs ==
    ASSUME NEW s \in StoreOf(Subs), ctx \in Blocks, NEW next \in Nat, next < Never, Sound(s, ctx, next),
           NEW t \in s.timers, t.kind = Stale
    PROVE  LET r == DeleteStale(Without(s, t))
           IN  r \in StoreOf(Subs) /\ Sound(r, ctx, next) /\ Debt(r) = Debt(s)
<1> DEFINE u == Without(s, t)
           V == {c \in Versions(u) : ~Removable(u, c)}
           rest == Restrict(u.entries, V)
           r == DeleteStale(u)
<1>1. /\ u \in StoreOf(Subs) /\ u.entries = s.entries /\ u.timers = s.timers \ {t}
      /\ Versions(u) = Versions(s)
  BY WithoutIs
<1>2. \A c \in Versions(s) : /\ c \in Nat /\ s.entries[c] \in Entries(Subs) /\ s.entries[c].deleteAt \in Nat
                             /\ s.entries[c].refcount \in Nat /\ u.entries[c] = s.entries[c]
  BY <1>1, EntryOfStore, EntryParts, Bounds
<1> HIDE DEF u
<1>3. r \in StoreOf(Subs)
  BY <1>1, DeleteStaleTyped
<1>4. /\ Versions(r) = V /\ r.timers = s.timers \ {t}
      /\ \A c \in V : r.entries[c] = s.entries[c]
  <2>1. r.entries = rest /\ r.timers = u.timers
    BY <1>1 DEF DeleteStale, StoreOf
  <2>2. DOMAIN rest = V /\ \A c \in V : rest[c] = u.entries[c]
    BY DEF Restrict, Versions
  <2> HIDE DEF rest, r
  <2> QED BY <1>1, <2>1, <2>2 DEF Versions
<1>5. \A c \in Versions(s) : c \notin V => c \in StaleVersions(u) /\ ~KeptMarker(u, c) /\ s.entries[c].refcount = 0
  BY <1>1, <1>2 DEF Removable, StaleVersions, IsStaleBy
<1>6. Versions(r) \subseteq Versions(s)
  BY <1>1, <1>4
<1> HIDE DEF r
<1>7. CASE \E b \in V : Top(s, b)
  <2>1. PICK b \in V : Top(s, b)
    BY <1>7
  <2>2. Top(r, b) /\ b \in Versions(s) /\ b \in Versions(r)
    BY <1>1, <1>4, <1>6, <2>1 DEF Top
  <2>3. \A c \in Versions(r) : Top(r, c) => c = b
    BY <1>3, <2>2, TopOnce
  <2>4. Starts(r, ctx, next)
    BY <1>4, <1>6 DEF Sound, Starts
  <2>5. Referenced(r)
    BY <1>4, <2>1, <2>2, <2>3 DEF Sound, Referenced
  <2>6. Follows(r, ctx)
    <3> SUFFICES ASSUME Waits(r, ctx, b)
                 PROVE  r.entries[b].deleteAt = Never /\ \E w \in Versions(r) : Below(r, b, w)
      BY <2>3 DEF Follows
    <3>1. Waits(s, ctx, b)
      BY <1>4 DEF Waits
    <3>2. s.entries[b].deleteAt = Never /\ \E w \in Versions(s) : Below(s, b, w)
      BY <2>1, <2>2, <3>1 DEF Sound, Follows
    <3>3. PICK w \in Versions(s) : Below(s, b, w)
      BY <3>2
    <3>4. w \in V
      BY <1>2, <1>5, <3>3 DEF Below
    <3>5. Below(r, b, w)
      BY <1>4, <1>6, <3>3, <3>4 DEF Below
    <3> QED BY <1>4, <2>1, <3>2, <3>4, <3>5
  <2>7. TimersFit(r)
    <3> SUFFICES ASSUME NEW y \in r.timers
                 PROVE  /\ y.kind = Future => y.at = y.block /\ Top(r, y.block)
                        /\ y.kind = Delete => /\ y.block \in Versions(r) /\ y.at # Never
                                              /\ r.entries[y.block].deleteAt = y.at
                                              /\ r.entries[y.block].refcount > 0
      BY DEF TimersFit
    <3>1. /\ y.kind = Future => y.at = y.block /\ Top(s, y.block)
          /\ y.kind = Delete => /\ y.block \in Versions(s) /\ y.at # Never
                                /\ s.entries[y.block].deleteAt = y.at
                                /\ s.entries[y.block].refcount > 0
      BY <1>4 DEF Sound, TimersFit
    <3>2. y.kind = Future => y.block = b
      BY <2>1, <3>1, TopOnce
    <3>3. y.kind = Delete => y.block \in V
      BY <1>2, <1>5, <3>1
    <3> QED BY <1>4, <2>2, <3>1, <3>2, <3>3
  <2>8. Debt(r) = Debt(s)
    BY <1>3, <1>4, <2>1, <2>2, DebtSame
  <2> QED BY <1>3, <2>4, <2>5, <2>6, <2>7, <2>8 DEF Sound, r, u
<1>8. CASE ~\E b \in V : Top(s, b)
  <2>1. V = {}
    <3>1. CASE Versions(s) = {}
      BY <1>1, <3>1
    <3>2. CASE Versions(s) # {}
      <4>1. PICK b \in Versions(s) : Top(s, b)
        BY <3>2, TopExists
      <4>2. b \in StaleVersions(u) /\ ~KeptMarker(u, b) /\ s.entries[b].refcount = 0
        BY <1>5, <1>8, <4>1
      <4>3. s.entries[b].deleteAt # Never
        BY <4>1, <4>2 DEF Sound, Referenced
      <4>4. HasDeleteAt(u.entries[b])
        BY <1>2, <4>1, <4>3, Bounds DEF HasDeleteAt, Sound, Starts
      <4>5. \A c \in Versions(u) : c \in StaleVersions(u)
        <5> SUFFICES ASSUME NEW c \in Versions(u), c \notin StaleVersions(u) PROVE FALSE
          OBVIOUS
        <5>1. c < b
          BY <1>1, <1>2, <4>1, <4>2 DEF Top
        <5> QED BY <4>2, <4>4, <5>1 DEF KeptMarker
      <4>6. \A c : ~KeptMarker(u, c)
        BY <4>5 DEF KeptMarker
      <4>7. \A c \in Versions(u) : Removable(u, c)
        <5> SUFFICES ASSUME NEW c \in Versions(u) PROVE Removable(u, c)
          OBVIOUS
        <5> DEFINE older == {y \in Versions(u) : y < c}
        <5>1. older # {} => Max(older) \in older
          <6>1. older \in SUBSET Targets /\ \A y \in older : y \in Int
            BY <1>1, <1>2, StoreParts
          <6> HIDE DEF older
          <6>2. ASSUME older # {} PROVE Max(older) \in older
            <7>1. PICK m \in older : \A y \in older : y <= m
              BY <6>1, <6>2, NewestOf
            <7>2. m \in older /\ \A y \in older : m >= y
              BY <6>1, <7>1
            <7> QED BY <7>2 DEF Max
          <6> QED BY <6>2
        <5>2. older # {} => Max(older) \in StaleVersions(u)
          BY <4>5, <5>1
        <5> QED BY <4>5, <4>6, <5>2 DEF Removable
      <4> QED BY <4>7
    <3> QED BY <3>1, <3>2
  <2>2. Versions(r) = {}
    BY <1>4, <2>1
  <2>3. \A c \in Versions(s) : s.entries[c].refcount = 0
    BY <1>5, <2>1
  <2>4. \A c \in Versions(s) : Top(s, c) => s.entries[c].deleteAt # Never
    BY <2>3 DEF Sound, Referenced
  <2>5. \A y \in r.timers : y.kind # Delete /\ y.kind # Future
    <3> SUFFICES ASSUME NEW y \in r.timers PROVE y.kind # Delete /\ y.kind # Future
      OBVIOUS
    <3>1. y \in s.timers
      BY <1>4
    <3>2. y.kind # Delete
      BY <2>3, <3>1 DEF Sound, TimersFit
    <3>3. ASSUME y.kind = Future PROVE FALSE
      <4>1. Top(s, y.block) /\ y.block \in Versions(s) /\ Waits(s, ctx, y.block)
        BY <3>1, <3>3 DEF Sound, TimersFit, Top, Waits
      <4>2. s.entries[y.block].deleteAt = Never
        BY <4>1 DEF Sound, Follows
      <4> QED BY <2>4, <4>1, <4>2
    <3> QED BY <3>2, <3>3
  <2>6. Sound(r, ctx, next)
    BY <2>2, <2>5 DEF Sound, Starts, Referenced, Follows, TimersFit
  <2>7. Debt(r) = 0
    BY <2>2, DebtNone
  <2>8. Debt(s) = 0
    <3>1. CASE Versions(s) = {}
      BY <3>1, DebtNone
    <3>2. CASE Versions(s) # {}
      <4>1. PICK b \in Versions(s) : Top(s, b)
        BY <3>2, TopExists
      <4> QED BY <2>4, <4>1, DebtDeleted
    <3> QED BY <3>1, <3>2
  <2> QED BY <1>3, <2>6, <2>7, <2>8 DEF r, u
<1> QED BY <1>7, <1>8

\* A timer that fires leaves the store sound, with the same debt.
LEMMA FireIs ==
    ASSUME NEW s \in StoreOf(Subs), ctx \in Blocks, NEW next \in Nat, next < Never, Sound(s, ctx, next),
           NEW t \in s.timers, t.at <= ctx, ~Fire(s, t).panic
    PROVE  Fire(s, t) \in StoreOf(Subs) /\ Sound(Fire(s, t), ctx, next) /\ Debt(Fire(s, t)) = Debt(s)
<1>1. t \in Timer
  BY StoreParts
<1>2. t.kind \in {Future, Delete, Stale}
  BY <1>1, TimerParts
<1>3. CASE t.kind = Future
  <2>1. Fire(s, t) = MatureEntry(Without(s, t), t.block)
    BY <1>3, Kinds DEF Fire, Without
  <2> QED BY <1>3, <2>1, MatureIs
<1>4. CASE t.kind = Delete
  <2>1. Fire(s, t) = DeleteMarked(Without(s, t), t.block)
    BY <1>4, Kinds DEF Fire, Without
  <2> QED BY <1>4, <2>1, DeletedIs
<1>5. CASE t.kind = Stale
  <2>1. Fire(s, t) = DeleteStale(Without(s, t))
    BY <1>5, Kinds DEF Fire, Without
  <2> QED BY <1>5, <2>1, StaleIs
<1> QED BY <1>2, <1>3, <1>4, <1>5

\* The next block begins.
LEMMA LaterSound ==
    ASSUME NEW s \in StoreOf(Subs), NEW now \in Nat, NEW next \in Nat, NEW then \in Nat,
           Sound(s, now, next), then >= next, now + 1 < next => then = next
    PROVE  Sound(s, now + 1, then)
<1>1. \A b \in Versions(s) : b \in Nat /\ s.entries[b].deleteAt \in Nat
  BY EntryOfStore, EntryParts, Bounds
<1>2. Starts(s, now + 1, then)
  BY <1>1 DEF Sound, Starts
<1>3. \A b \in Versions(s) : Waits(s, now + 1, b) => Waits(s, now, b)
  BY <1>1 DEF Waits
<1>4. Follows(s, now + 1)
  BY <1>3 DEF Sound, Follows
<1> QED BY <1>2, <1>4 DEF Sound

-----------------------------------------------------------------------------
(* What the module's account owes.                                           *)

Debts(subs) == SumFunctionOnSet([c \in Consumers |-> Debt(subs[c])], Consumers)
Payouts(T) == SumFunctionOnSet([t \in T |-> t.credit], T)

\* A consumer without a subscription for the next epoch is owed nothing.
LEMMA FoundNone ==
    ASSUME NEW s \in StoreOf(Subs), NEW now \in Nat, NEW next \in Nat, next < Never, Sound(s, now, next),
           Find(s, next) = NoBlock
    PROVE  Debt(s) = 0
<1>1. CASE Versions(s) = {}
  BY <1>1, DebtNone
<1>2. CASE Versions(s) # {}
  <2>1. PICK b \in Versions(s) : Top(s, b)
    BY <1>2, TopExists
  <2>2. b \in Nat /\ b # NoBlock /\ b <= next /\ s.entries[b].refcount \in Nat /\ Never \in Nat
    BY <2>1, EntryOfStore, EntryParts, Bounds DEF Sound, Starts
  <2>3. CASE s.entries[b].deleteAt # Never
    BY <2>1, <2>3, DebtDeleted
  <2>4. CASE s.entries[b].deleteAt = Never
    <3>1. s.entries[b].refcount > 0
      BY <2>1, <2>4 DEF Sound, Referenced
    <3>2. ~IsDeletedBy(s.entries[b], next) /\ ~IsStaleBy(s.entries[b], ctx)
      BY <2>2, <2>4, <3>1 DEF IsDeletedBy, IsStaleBy
    <3>3. Nearest(s, next) = b
      <4>1. next \in Int /\ \A y \in Versions(s) : y <= next => y <= b
        BY <2>1 DEF Top
      <4> QED BY <2>1, <2>2, <3>2, <4>1, NearestTop
    <3> QED BY <2>2, <3>2, <3>3 DEF Find
  <2> QED BY <2>3, <2>4
<1> QED BY <1>1, <1>2

LEMMA DebtsNat ==
    ASSUME NEW subs \in [Consumers -> StoreOf(Subs)]
    PROVE  Debts(subs) \in Nat
<1> DEFINE f == [c \in Consumers |-> Debt(subs[c])]
<1>1. \A c \in Consumers : f[c] \in Nat
  BY DebtNat
<1> HIDE DEF f
<1>2. SumFunctionOnSet(f, Consumers) \in Nat
  BY <1>1, ConsumersAssumption, SumNat
<1> QED BY <1>2 DEF Debts, f

\* The store of one consumer changes.
LEMMA DebtsChange ==
    ASSUME NEW s \in [Consumers -> StoreOf(Subs)], NEW r \in [Consumers -> StoreOf(Subs)],
           NEW c \in Consumers, \A x \in Consumers \ {c} : r[x] = s[x]
    PROVE  Debts(r) = Debts(s) + Debt(r[c]) - Debt(s[c])
<1> DEFINE f == [x \in Consumers |-> Debt(s[x])]
           e == [x \in Consumers |-> Debt(r[x])]
<1>1. \A x \in Consumers : f[x] \in Int /\ e[x] \in Int
  BY DebtNat
<1>2. f[c] = Debt(s[c]) /\ e[c] = Debt(r[c]) /\ \A x \in Consumers \ {c} : e[x] = f[x]
  OBVIOUS
<1>3. Debts(s) = SumFunctionOnSet(f, Consumers) /\ Debts(r) = SumFunctionOnSet(e, Consumers)
  BY DEF Debts
<1> HIDE DEF f, e
<1>4. Summable(f, Consumers) /\ Summable(e, Consumers)
  BY <1>1, ConsumersAssumption DEF Summable
<1>5. SumFunctionOnSet(e, Consumers) = SumFunctionOnSet(f, Consumers) + e[c] - f[c]
  BY <1>2, <1>4, SumChange
<1> QED BY <1>2, <1>3, <1>5

LEMMA PayoutsNat ==
    ASSUME NEW T \in SUBSET CuTimers, IsFiniteSet(T)
    PROVE  Payouts(T) \in Nat
<1> DEFINE f == [t \in T |-> t.credit]
<1>1. \A t \in T : f[t] \in Nat
  BY DEF CuTimers
<1> HIDE DEF f
<1>2. SumFunctionOnSet(f, T) \in Nat
  BY <1>1, SumNat
<1> QED BY <1>2 DEF Payouts, f

LEMMA PayoutsRemove ==
    ASSUME NEW T \in SUBSET CuTimers, IsFiniteSet(T), NEW t \in T
    PROVE  /\ IsFiniteSet(T \ {t}) /\ t.credit \in Nat
           /\ Payouts(T) = t.credit + Payouts(T \ {t})
<1> DEFINE f == [u \in T |-> u.credit]
           R == T \ {t}
           e == [u \in R |-> u.credit]
<1>1. f[t] = t.credit /\ t.credit \in Nat /\ (\A u \in T : f[u] \in Int) /\ \A u \in R : e[u] = f[u]
  BY DEF CuTimers
<1>2. Payouts(T) = SumFunctionOnSet(f, T) /\ Payouts(R) = SumFunctionOnSet(e, R)
  BY DEF Payouts
<1>3. IsFiniteSet(R)
  BY FS_Subset
<1> HIDE DEF f, e
<1>4. Summable(f, T) /\ Summable(f, R)
  BY <1>1, <1>3 DEF Summable
<1>5. SumFunctionOnSet(f, T) = f[t] + SumFunctionOnSet(f, R)
  BY <1>4, SumRemove
<1>6. SumFunctionOnSet(e, R) = SumFunctionOnSet(f, R)
  BY <1>1, <1>4, SumAgree
<1> QED BY <1>1, <1>2, <1>3, <1>5, <1>6

\* A payout is scheduled, in place of those with its key.
LEMMA PayoutsAdd ==
    ASSUME NEW T \in SUBSET CuTimers, IsFiniteSet(T), NEW t \in CuTimers,
           NEW R, R = {u \in T : u.at # t.at \/ u.consumer # t.consumer} \cup {t}
    PROVE  IsFiniteSet(R) /\ Payouts(R) <= Payouts(T) + t.credit
<1> DEFINE K == {u \in T : u.at # t.at \/ u.consumer # t.consumer}
           f == [u \in T |-> u.credit]
           e == [u \in R |-> u.credit]
<1>1. K \in SUBSET T /\ t \notin K /\ R = K \cup {t}
  OBVIOUS
<1> HIDE DEF K
<1>2. IsFiniteSet(K) /\ IsFiniteSet(R)
  BY <1>1, FS_Subset, FS_AddElement
<1>3. (\A u \in T : f[u] \in Nat) /\ t.credit \in Nat /\ e[t] = t.credit
  BY <1>1 DEF CuTimers
<1>4. \A u \in K : e[u] = f[u]
  BY <1>1
<1>5. Payouts(T) = SumFunctionOnSet(f, T) /\ Payouts(R) = SumFunctionOnSet(e, R)
  BY DEF Payouts
<1> HIDE DEF f, e
<1>6. Summable(f, K)
  BY <1>1, <1>2, <1>3 DEF Summable
<1>7. SumFunctionOnSet(e, K \cup {t}) = SumFunctionOnSet(f, K) + e[t]
  BY <1>1, <1>3, <1>4, <1>6, SumExtend
<1>8. SumFunctionOnSet(f, K) <= SumFunctionOnSet(f, T)
  BY <1>1, <1>3, SumSubset
<1>9. SumFunctionOnSet(f, K) \in Nat /\ SumFunctionOnSet(f, T) \in Nat
  BY <1>1, <1>2, <1>3, SumNat
<1>10. SumFunctionOnSet(e, R) = SumFunctionOnSet(f, K) + t.credit
  <2>1. R = K \cup {t}
    BY <1>1
  <2>2. SumFunctionOnSet(e, R) = SumFunctionOnSet(e, K \cup {t})
    BY ONLY <2>1
  <2> QED BY <1>3, <1>7, <2>2
<1>11. SumFunctionOnSet(e, R) <= SumFunctionOnSet(f, T) + t.credit
  BY <1>3, <1>8, <1>9, <1>10
<1> QED BY <1>2, <1>5, <1>11

-----------------------------------------------------------------------------
(* The handlers keep the account solvent.                                    *)

Sounds(st) == \A c \in Consumers : Sound(st.subs[c], ctx, NextEpoch)
Quiets(st) == \A c \in Consumers : Quiet(st.subs[c])
Covered(st) == IsFiniteSet(st.cuTimers) /\ st.balance >= Debts(st.subs) + Payouts(st.cuTimers)
Healthy(st) == Sounds(st) /\ Quiets(st) /\ Covered(st)

LEMMA EpochNext ==
    ASSUME Clock
    PROVE  /\ ctx \in Nat /\ ctx \in Blocks /\ NextEpoch \in Nat /\ NextEpoch \in Targets
           /\ NextEpoch > ctx /\ NextEpoch < Never
  BY ClockBounds, Bounds DEF Targets, Never

LEMMA StoreCalm ==
    ASSUME NEW st \in Chain, NEW c \in Consumers, Healthy(st)
    PROVE  /\ st.subs[c] \in StoreOf(Subs) /\ Sound(st.subs[c], ctx, NextEpoch) /\ Quiet(st.subs[c])
           /\ Debt(st.subs[c]) \in Nat
  BY ChainParts, DebtNat DEF Healthy, Sounds, Quiets

LEMMA NotPanicked ==
    ASSUME NEW st \in Chain, NEW c \in Consumers, ~Panicked(st)
    PROVE  st.subs[c].panic = FALSE
  BY ChainParts, StoreParts DEF Panicked

\* A handler changes the store of one consumer, and the account gains what is owed more.
LEMMA StaysHealthy ==
    ASSUME Clock, NEW st \in Chain, NEW r \in Chain, NEW c \in Consumers, Healthy(st),
           \A x \in Consumers \ {c} : r.subs[x] = st.subs[x],
           Sound(r.subs[c], ctx, NextEpoch), Quiet(r.subs[c]), IsFiniteSet(r.cuTimers),
           r.balance - st.balance >= (Debt(r.subs[c]) - Debt(st.subs[c]))
                                       + (Payouts(r.cuTimers) - Payouts(st.cuTimers))
    PROVE  Healthy(r)
<1>1. Sounds(r) /\ Quiets(r)
  BY DEF Healthy, Sounds, Quiets
<1>2. Debts(r.subs) = Debts(st.subs) + Debt(r.subs[c]) - Debt(st.subs[c])
  BY ChainParts, DebtsChange
<1>3. /\ Debts(r.subs) \in Nat /\ Debts(st.subs) \in Nat
      /\ Debt(r.subs[c]) \in Nat /\ Debt(st.subs[c]) \in Nat
  BY ChainParts, DebtsNat, DebtNat
<1>4. /\ Payouts(r.cuTimers) \in Nat /\ Payouts(st.cuTimers) \in Nat
      /\ r.balance \in Int /\ st.balance \in Int
  BY ChainParts, PayoutsNat DEF Healthy, Covered
<1>5. st.balance >= Debts(st.subs) + Payouts(st.cuTimers)
  BY DEF Healthy, Covered
<1>6. r.balance >= Debts(r.subs) + Payouts(r.cuTimers)
  BY <1>2, <1>3, <1>4, <1>5
<1> QED BY <1>1, <1>6 DEF Healthy, Covered

\* The payouts are left alone.
LEMMA StaysPaid ==
    ASSUME Clock, NEW st \in Chain, NEW r \in Chain, NEW c \in Consumers, Healthy(st),
           \A x \in Consumers \ {c} : r.subs[x] = st.subs[x], r.cuTimers = st.cuTimers,
           Sound(r.subs[c], ctx, NextEpoch), Quiet(r.subs[c]),
           NEW n \in Int, r.balance = st.balance + n, Debt(r.subs[c]) <= Debt(st.subs[c]) + n
    PROVE  Healthy(r)
<1>1. IsFiniteSet(r.cuTimers) /\ Payouts(st.cuTimers) \in Nat /\ st.balance \in Int
  BY ChainParts, PayoutsNat DEF Healthy, Covered
<1>2. Debt(r.subs[c]) \in Nat /\ Debt(st.subs[c]) \in Nat
  BY ChainParts, DebtNat
<1>3. r.balance - st.balance >= (Debt(r.subs[c]) - Debt(st.subs[c]))
                                  + (Payouts(r.cuTimers) - Payouts(st.cuTimers))
  BY <1>1, <1>2
<1> QED BY <1>1, <1>3, StaysHealthy

\* The subscriptions, the payouts and the account are left alone.
LEMMA StaysSame ==
    ASSUME NEW st \in Chain, NEW r, Healthy(st), SameBut(st, r, {"plans", "admin", "months"})
    PROVE  Healthy(r)
<1>1. r.subs = st.subs /\ r.cuTimers = st.cuTimers /\ r.balance = st.balance
  BY DEF SameBut
<1> QED BY <1>1 DEF Healthy, Sounds, Quiets, Covered

LEMMA BuyHealthy ==
    ASSUME Clock, NEW st \in Chain, NEW c \in Consumers, NEW p \in PlanIndices, NEW d \in Durations,
           NEW a \in BOOLEAN, CreateSucceeds(st, c, p), Healthy(st),
           ~Panicked(NewSubscription(st, c, p, d, a))
    PROVE  Healthy(NewSubscription(st, c, p, d, a))
<1> DEFINE r == NewSubscription(st, c, p, d, a)
           n == DiscountedPrice(p, d)
           s == st.subs[c]
<1>1. /\ SameBut(st, r, {"plans", "subs", "admin", "months", "balance"})
      /\ r.balance = st.balance + n
      /\ \A x \in Consumers \ {c} : r.subs[x] = st.subs[x]
  BY NewSubscriptionIs
<1>2. PICK sub \in Subs : /\ sub.block = ctx /\ sub.credit = n /\ sub.future = NoFuture
                          /\ r.subs[c] = AppendEntry(s, ctx, sub)
  BY NewSubscriptionIs
<1>3. ~Panicked(r)
  OBVIOUS
<1> HIDE DEF r
<1>4. n \in Nat /\ n \in Int
  BY PriceNat
<1> HIDE DEF n
<1>5. r \in Chain /\ r.cuTimers = st.cuTimers
  BY <1>1 DEF SameBut
<1>6. AppendSucceeds(s, ctx) /\ Find(s, NextEpoch) = NoBlock
  BY DEF CreateSucceeds, SubBlock
<1>7. ~AppendEntry(s, ctx, sub).panic
  BY <1>2, <1>3, <1>5, NotPanicked
<1>8. s \in StoreOf(Subs) /\ Sound(s, ctx, NextEpoch) /\ Quiet(s)
  BY StoreCalm
<1> HIDE DEF s
<1>9. Debt(s) = 0
  BY <1>6, <1>8, EpochNext, FoundNone
<1>10. Worth(sub) = n
  BY <1>2, <1>4 DEF Worth, NoFuture
<1> DEFINE q == AppendEntry(s, ctx, sub)
<1>11. q \in StoreOf(Subs) /\ Sound(q, ctx, NextEpoch) /\ Quiet(q) /\ (Debt(q) <= Debt(s) \/ Debt(q) <= Worth(sub))
  BY <1>2, <1>6, <1>7, <1>8, EpochNext, AppendNowIs
<1>12. Debt(q) \in Nat /\ r.subs[c] = q
  BY <1>2, <1>11, DebtNat
<1> HIDE DEF q
<1>13. Debt(q) <= Debt(s) + n
  BY <1>4, <1>9, <1>10, <1>11, <1>12
<1>14. Healthy(r)
  BY <1>1, <1>4, <1>5, <1>11, <1>12, <1>13, StaysPaid DEF s
<1> QED BY <1>14 DEF r

LEMMA ModifyPanic ==
    ASSUME NEW s \in StoreOf(Subs), NEW b, NEW d
    PROVE  /\ b \in Versions(s) => ModifyEntry(s, b, d).panic = s.panic
           /\ ModifyEntry(s, b, d).panic = FALSE => s.panic = FALSE
<1>1. Panic(s).panic = TRUE
  BY DEF Panic, StoreOf
<1>2. b \in Versions(s) => ModifyEntry(s, b, d).panic = s.panic
  BY DEF ModifyEntry, SetEntry, StoreOf
<1>3. b \notin Versions(s) => ModifyEntry(s, b, d) = Panic(s)
  BY DEF ModifyEntry
<1> QED BY <1>1, <1>2, <1>3

\* The subscription for the next epoch is rewritten.
LEMMA ModifyOwnedIs ==
    ASSUME Clock, NEW s \in StoreOf(Subs), Sound(s, ctx, NextEpoch), Quiet(s), Find(s, NextEpoch) # NoBlock,
           NEW d \in Subs, d.block = s.entries[Find(s, NextEpoch)].data.block, s.panic = FALSE
    PROVE  LET m == ModifyEntry(s, d.block, d)
           IN  /\ m \in StoreOf(Subs) /\ Sound(m, ctx, NextEpoch) /\ Quiet(m) /\ m.panic = FALSE
               /\ Find(m, NextEpoch) # NoBlock /\ Debt(m) = Worth(d)
<1> DEFINE b == Find(s, NextEpoch)
           m == ModifyEntry(s, d.block, d)
<1>1. /\ Top(s, b) /\ s.entries[b].deleteAt = Never /\ s.entries[b].refcount > 0
      /\ s.entries[b].data.block = b /\ b \in Targets
  BY EpochNext, FoundTop
<1>2. d.block = b
  BY <1>1
<1> HIDE DEF b
<1>3. m = ModifyEntry(s, b, d)
  BY <1>2
<1> HIDE DEF m
<1>4. m.panic = FALSE
  BY <1>1, <1>3, ModifyPanic DEF Top
<1>5. /\ m \in StoreOf(Subs) /\ Sound(m, ctx, NextEpoch) /\ m.timers = s.timers
      /\ Versions(m) = Versions(s) /\ m.entries[b].deleteAt = Never /\ m.entries[b].refcount > 0
      /\ Debt(m) = Worth(d)
  <2> DEFINE q == ModifyEntry(s, b, d)
  <2>1. ~q.panic =>
                 /\ q \in StoreOf(Subs) /\ Sound(q, ctx, NextEpoch) /\ q.timers = s.timers
                 /\ b \in Versions(s) /\ Versions(q) = Versions(s) /\ q.entries[b].data = d
                 /\ q.entries[b].deleteAt = s.entries[b].deleteAt
                 /\ q.entries[b].refcount = s.entries[b].refcount
                 /\ \A c \in Versions(s) \ {b} : q.entries[c] = s.entries[c]
                 /\ Top(s, b) /\ s.entries[b].deleteAt = Never => Debt(q) = Worth(d)
                 /\ ~(Top(s, b) /\ s.entries[b].deleteAt = Never) => Debt(q) = Debt(s)
    BY <1>2, ModifyIs
  <2> HIDE DEF q
  <2>2. m = q
    BY <1>3 DEF q
  <2> QED BY <1>1, <1>4, <2>1, <2>2
<1>6. Quiet(m)
  BY <1>5 DEF Quiet
<1>7. Find(m, NextEpoch) # NoBlock
  <2>1. b <= NextEpoch /\ b \in Versions(m) /\ \A y \in Versions(m) : y <= b
    BY <1>1, <1>5 DEF Top, Sound, Starts
  <2>2. m.entries[b] \in Entries(Subs)
    BY <1>5, <2>1, EntryOfStore
  <2>3. ~IsDeletedBy(m.entries[b], NextEpoch) /\ ~IsStaleBy(m.entries[b], ctx)
    BY <1>5, <2>2, EpochNext, EntryParts, Bounds DEF IsDeletedBy, IsStaleBy
  <2>4. Nearest(m, NextEpoch) = b
    <3>1. NextEpoch \in Int
      BY EpochNext
    <3> QED BY <1>5, <2>1, <2>3, <3>1, NearestTop
  <2> QED BY <1>1, <2>3, <2>4, Bounds DEF Find
<1> QED BY <1>4, <1>5, <1>6, <1>7 DEF m

\* A transaction that rewrites the subscription for the next epoch, and pays for it.
LEMMA RewriteHealthy ==
    ASSUME Clock, NEW st \in Chain, NEW r \in Chain, NEW c \in Consumers, Healthy(st), ~Panicked(r),
           SubBlock(st, c, NextEpoch) # NoBlock, \A x \in Consumers \ {c} : r.subs[x] = st.subs[x],
           r.cuTimers = st.cuTimers, NEW n \in Int, r.balance = st.balance + n, NEW sub \in Subs,
           sub.block = SubData(st, c, SubBlock(st, c, NextEpoch)).block,
           Worth(sub) = Worth(SubData(st, c, SubBlock(st, c, NextEpoch))) + n,
           r.subs[c] = ModifyEntry(st.subs[c], sub.block, sub)
    PROVE  Healthy(r)
<1> DEFINE s == st.subs[c]
           m == r.subs[c]
<1>1. /\ s \in StoreOf(Subs) /\ Sound(s, ctx, NextEpoch) /\ Quiet(s)
      /\ m = ModifyEntry(s, sub.block, sub) /\ Find(s, NextEpoch) # NoBlock
      /\ sub.block = s.entries[Find(s, NextEpoch)].data.block
      /\ Worth(sub) = Worth(s.entries[Find(s, NextEpoch)].data) + n
  BY StoreCalm DEF SubBlock, SubData
<1>2. m.panic = FALSE
  BY NotPanicked
<1> HIDE DEF s, m
<1>3. s.panic = FALSE
  BY <1>1, <1>2, ModifyPanic
<1>4. Sound(m, ctx, NextEpoch) /\ Quiet(m) /\ Debt(m) = Worth(sub)
  BY <1>1, <1>3, ModifyOwnedIs
<1>5. Debt(s) = Worth(s.entries[Find(s, NextEpoch)].data) /\ Debt(s) \in Nat
  BY <1>1, EpochNext, FoundTop, DebtNat
<1>6. Debt(m) <= Debt(s) + n
  BY <1>1, <1>4, <1>5
<1> QED BY <1>4, <1>6, StaysPaid DEF s, m

LEMMA ExtendHealthy ==
    ASSUME Clock, NEW st \in Chain, NEW c \in Consumers, NEW p \in PlanIndices, NEW d \in Durations,
           ExtendSucceeds(st, c, p, d), Healthy(st), ~Panicked(Extended(st, c, p, d))
    PROVE  Healthy(Extended(st, c, p, d))
<1> DEFINE r == Extended(st, c, p, d)
           n == DiscountedPrice(p, d)
           old == SubData(st, c, SubBlock(st, c, NextEpoch))
<1>1. /\ SameBut(st, r, {"plans", "subs", "balance"}) /\ r.balance = st.balance + n
      /\ \A x \in Consumers \ {c} : r.subs[x] = st.subs[x]
  BY ExtendedIs
<1>2. PICK sub \in Subs : /\ sub.block = old.block /\ sub.future = old.future
                          /\ sub.credit = old.credit + n
                          /\ r.subs[c] = ModifyEntry(st.subs[c], sub.block, sub)
  BY ExtendedIs
<1>3. ~Panicked(r) /\ SubBlock(st, c, NextEpoch) # NoBlock /\ n \in Nat
  BY PriceNat DEF ExtendSucceeds
<1>4. old \in Subs
  BY <1>3, SubFoundIs, EpochNext
<1> HIDE DEF r, n, old
<1>5. Worth(sub) = Worth(old) + n
  <2>1. old.credit \in Nat /\ old.future.credit \in Nat
    BY <1>4, SubParts, FutureParts
  <2> QED BY <1>2, <1>3, <2>1 DEF Worth
<1>6. r \in Chain /\ r.cuTimers = st.cuTimers /\ n \in Int
  BY <1>1, <1>3 DEF SameBut
<1>7. Healthy(r)
  BY <1>1, <1>2, <1>3, <1>5, <1>6, RewriteHealthy DEF old
<1> QED BY <1>7 DEF r

LEMMA AdvanceHealthy ==
    ASSUME Clock, NEW st \in Chain, NEW c \in Consumers, NEW p \in PlanIndices, NEW d \in Durations,
           AdvanceSucceeds(st, c, p, d), Healthy(st), ~Panicked(Advanced(st, c, p, d))
    PROVE  Healthy(Advanced(st, c, p, d))
<1> DEFINE r == Advanced(st, c, p, d)
           k == DiscountedPrice(p, d)
           old == SubData(st, c, SubBlock(st, c, NextEpoch))
           n == k - old.future.credit
<1>1. /\ SameBut(st, r, {"plans", "subs", "balance"}) /\ r.balance = st.balance + k - old.future.credit
      /\ \A x \in Consumers \ {c} : r.subs[x] = st.subs[x]
  BY AdvancedIs
<1>2. PICK sub \in Subs : /\ sub.block = old.block /\ sub.credit = old.credit
                          /\ sub.future.credit = k
                          /\ r.subs[c] = ModifyEntry(st.subs[c], sub.block, sub)
  BY AdvancedIs
<1>3. ~Panicked(r) /\ SubBlock(st, c, NextEpoch) # NoBlock /\ k \in Nat
  BY PriceNat DEF AdvanceSucceeds
<1>4. old \in Subs
  BY <1>3, SubFoundIs, EpochNext
<1> HIDE DEF r, k, old
<1>5. old.credit \in Nat /\ old.future.credit \in Nat /\ st.balance \in Int
  BY <1>4, SubParts, FutureParts, ChainParts
<1>6. Worth(sub) = Worth(old) + n /\ r.balance = st.balance + n /\ n \in Int
  BY <1>1, <1>2, <1>3, <1>5 DEF Worth
<1> HIDE DEF n
<1>7. r \in Chain /\ r.cuTimers = st.cuTimers
  BY <1>1 DEF SameBut
<1>8. Healthy(r)
  BY <1>1, <1>2, <1>3, <1>6, <1>7, RewriteHealthy DEF old
<1> QED BY <1>8 DEF r

LEMMA RenewalHealthy ==
    ASSUME Clock, NEW st \in Chain, NEW c \in Consumers, NEW p \in PlanIndices \cup {None},
           RenewalSucceeds(st, c, p), Healthy(st), ~Panicked(RenewalSet(st, c, p))
    PROVE  Healthy(RenewalSet(st, c, p))
<1> DEFINE r == RenewalSet(st, c, p)
           s == st.subs[c]
           b == Find(s, ctx)
           old == s.entries[b].data
<1>1. SameBut(st, r, {"subs"}) /\ \A x \in Consumers \ {c} : r.subs[x] = st.subs[x]
  BY RenewalSetIs
<1>2. PICK sub \in Subs : /\ sub.block = old.block /\ sub.credit = old.credit
                          /\ sub.future = old.future
                          /\ r.subs[c] = AppendEntry(s, sub.block, sub)
  BY RenewalSetIs DEF SubData, SubBlock
<1>3. ~Panicked(r) /\ b # NoBlock
  BY DEF RenewalSucceeds, SubBlock
<1>4. s \in StoreOf(Subs) /\ Sound(s, ctx, NextEpoch) /\ Quiet(s)
  BY StoreCalm
<1>5. b \in Versions(s)
  BY <1>3, <1>4, EpochNext, FindVersion
<1> HIDE DEF r
<1>6. r \in Chain /\ r.cuTimers = st.cuTimers /\ r.balance = st.balance + 0 /\ 0 \in Int
  BY <1>1, ChainParts DEF SameBut
<1>7. r.subs[c].panic = FALSE
  BY <1>3, <1>6, NotPanicked
<1>8. old.block = b
  BY <1>4, <1>5 DEF Sound, Starts
<1>9. Worth(sub) = Worth(old)
  BY <1>2 DEF Worth
<1>10. Debt(s) \in Nat
  BY <1>4, DebtNat
<1>11. b = Find(s, ctx)
  OBVIOUS
<1> HIDE DEF s, b
<1> DEFINE q == AppendEntry(s, b, sub)
<1>12. r.subs[c] = q /\ sub.block = b
  BY <1>2, <1>8
<1>13. q \in StoreOf(Subs) /\ Sound(q, ctx, NextEpoch) /\ Quiet(q) /\ Debt(q) = Debt(s)
  <2>1. ~AppendEntry(s, b, sub).panic
    BY <1>7, <1>12
  <2> QED BY <1>3, <1>4, <1>9, <1>11, <1>12, <2>1, EpochNext, AppendFoundIs
<1> HIDE DEF q
<1>14. Debt(q) <= Debt(s) + 0
  BY <1>10, <1>13
<1>15. Healthy(r)
  BY <1>1, <1>6, <1>12, <1>13, <1>14, StaysPaid DEF s
<1> QED BY <1>15 DEF r

\* A payout of t is scheduled as well.
LEMMA StaysScheduled ==
    ASSUME Clock, NEW st \in Chain, NEW r \in Chain, NEW c \in Consumers, Healthy(st),
           \A x \in Consumers \ {c} : r.subs[x] = st.subs[x], NEW t \in CuTimers,
           r.cuTimers = {u \in st.cuTimers : u.at # t.at \/ u.consumer # t.consumer} \cup {t},
           Sound(r.subs[c], ctx, NextEpoch), Quiet(r.subs[c]),
           NEW n \in Int, r.balance = st.balance + n, Debt(r.subs[c]) + t.credit <= Debt(st.subs[c]) + n
    PROVE  Healthy(r)
<1>1. IsFiniteSet(st.cuTimers) /\ Payouts(st.cuTimers) \in Nat /\ st.balance \in Int
  BY ChainParts, PayoutsNat DEF Healthy, Covered
<1>2. Debt(r.subs[c]) \in Nat /\ Debt(st.subs[c]) \in Nat /\ t.credit \in Nat
  BY ChainParts, DebtNat DEF CuTimers
<1>3. IsFiniteSet(r.cuTimers) /\ Payouts(r.cuTimers) <= Payouts(st.cuTimers) + t.credit
  BY <1>1, ChainParts, PayoutsAdd
<1>4. Payouts(r.cuTimers) \in Nat
  BY <1>3, ChainParts, PayoutsNat
<1>5. r.balance - st.balance >= (Debt(r.subs[c]) - Debt(st.subs[c]))
                                  + (Payouts(r.cuTimers) - Payouts(st.cuTimers))
  BY <1>1, <1>2, <1>3, <1>4
<1> QED BY <1>3, <1>5, StaysHealthy

LEMMA RewardCovered ==
    ASSUME NEW old \in Subs, old.left > 0
    PROVE  CreditReward(old) \in Nat /\ CreditReward(old) <= old.credit
  BY SubParts, RewardBound DEF CreditReward

\* The timer of a payout.
CuTimerOf(at, c, old) == [at |-> at, consumer |-> c, block |-> old.block, credit |-> CreditReward(old)]

LEMMA UpgradeHealthy ==
    ASSUME Clock, NEW st \in Chain, NEW c \in Consumers, NEW p \in PlanIndices, NEW d \in Durations,
           UpgradeSucceeds(st, c, p), Healthy(st), ~Panicked(Upgraded(st, c, p, d))
    PROVE  Healthy(Upgraded(st, c, p, d))
<1> DEFINE r == Upgraded(st, c, p, d)
           n == DiscountedPrice(p, d)
           s == st.subs[c]
           old == SubData(st, c, SubBlock(st, c, NextEpoch))
           t == CuTimerOf(ctx + StaleBlocks - 1, c, old)
<1>1. /\ SameBut(st, r, {"plans", "subs", "admin", "months", "cuTimers", "balance"})
      /\ old \in Subs /\ old.left > 0 /\ r.balance = st.balance + n
      /\ t \in CuTimers
      /\ r.cuTimers = {u \in st.cuTimers : u.at # t.at \/ u.consumer # t.consumer} \cup {t}
      /\ \A x \in Consumers \ {c} : r.subs[x] = st.subs[x]
  BY UpgradedIs DEF CuTimerOf
<1>2. PICK sub \in Subs, new \in Subs :
                    /\ sub.block = NextEpoch /\ new.block = NextEpoch
                    /\ new.credit = n /\ new.future = old.future
                    /\ r.subs[c] = ModifyEntry(AppendEntry(s, NextEpoch, sub), NextEpoch, new)
  BY UpgradedIs
<1>3. ~Panicked(r) /\ Find(s, NextEpoch) # NoBlock /\ n \in Nat
  BY PriceNat DEF UpgradeSucceeds, SubBlock
<1>4. s \in StoreOf(Subs) /\ Sound(s, ctx, NextEpoch) /\ Quiet(s)
  BY StoreCalm
<1>5. t.credit = CreditReward(old) /\ old = s.entries[Find(s, NextEpoch)].data
  BY DEF CuTimerOf, SubData, SubBlock
<1>6. Debt(s) = Worth(old)
  BY <1>3, <1>4, <1>5, EpochNext, FoundTop
<1> HIDE DEF r, n, t, old
<1>7. r \in Chain
  BY <1>1 DEF SameBut
<1>8. r.subs[c].panic = FALSE
  BY <1>3, <1>7, NotPanicked
<1> DEFINE a == AppendEntry(s, NextEpoch, sub)
           m == ModifyEntry(a, NextEpoch, new)
<1> HIDE DEF s
<1>9. ~a.panic => /\ a \in StoreOf(Subs) /\ Sound(a, ctx, NextEpoch) /\ Quiet(a)
                  /\ Top(a, NextEpoch) /\ a.entries[NextEpoch].deleteAt = Never
  BY <1>2, <1>3, <1>4, EpochNext, AppendNextIs
<1>10. a \in StoreOf(Subs)
  BY <1>2, <1>4, EpochNext, AppendTyped
<1>11. r.subs[c] = m
  BY <1>2
<1> HIDE DEF a
<1>12. ~a.panic
  <2>1. ModifyEntry(a, NextEpoch, new).panic = FALSE
    BY <1>8, <1>11
  <2>2. a.panic = FALSE
    BY <1>10, <2>1, ModifyPanic
  <2> QED BY <2>2
<1>13. /\ Sound(m, ctx, NextEpoch) /\ m.timers = a.timers /\ Debt(m) = Worth(new)
  <2>1. ~m.panic
    BY <1>8, <1>11
  <2> QED BY <1>2, <1>9, <1>12, <2>1, ModifyIs
<1> HIDE DEF m
<1>14. Quiet(m)
  BY <1>9, <1>12, <1>13 DEF Quiet
<1>15. Debt(m) + t.credit <= Debt(s) + n
  <2>1. t.credit \in Nat /\ t.credit <= old.credit
    BY <1>1, <1>5, RewardCovered
  <2>2. old.credit \in Nat /\ old.future.credit \in Nat
    BY <1>1, SubParts, FutureParts
  <2> QED BY <1>2, <1>3, <1>6, <1>13, <2>1, <2>2 DEF Worth
<1>16. n \in Int
  BY <1>3
<1>17. Healthy(r)
  BY <1>1, <1>7, <1>11, <1>13, <1>14, <1>15, <1>16, StaysScheduled DEF s
<1> QED BY <1>17 DEF r

\* The month of c is over: what remains of the credit and the payout are no more than
\* the credit was.
LEMMA MonthHealthy ==
    ASSUME Clock, NEW st \in Chain, NEW r, NEW c \in Consumers, Healthy(st), ~Panicked(st), ~Panicked(r),
           SubBlock(st, c, NextEpoch) # NoBlock,
           NEW old \in Subs, old = SubData(st, c, SubBlock(st, c, NextEpoch)), old.left > 0,
           MonthOver(st, r, c, old)
    PROVE  Healthy(r)
<1> DEFINE s == st.subs[c]
           reward == CreditReward(old)
           t == CuTimerOf(NextEpoch + StaleBlocks - 1, c, old)
           All(kept, n) ==
             /\ kept.block = old.block /\ kept.credit = old.credit - reward
             /\ kept.future = old.future /\ r.balance = st.balance + n
             /\ LET m == ModifyEntry(s, old.block, kept)
                IN  \/ r.subs[c] = DelEntry(s, NextEpoch)
                    \/ r.subs[c] = DelEntry(m, NextEpoch)
                    \/ \E new \in Subs :
                         /\ new.block = NextEpoch
                         /\ new.credit + new.future.credit + reward <= old.credit + old.future.credit
                         /\ r.subs[c] = AppendEntry(s, NextEpoch, new)
                    \/ /\ AppendSucceeds(m, ctx)
                       /\ \E new \in Subs :
                            /\ new.block = ctx /\ new.credit + reward = old.credit + n
                            /\ new.future = old.future
                            /\ r.subs[c] = AppendEntry(m, ctx, new)
<1>1. /\ SameBut(st, r, {"plans", "subs", "admin", "months", "cuTimers", "balance"})
      /\ t \in CuTimers
      /\ r.cuTimers = {u \in st.cuTimers : u.at # t.at \/ u.consumer # t.consumer} \cup {t}
      /\ \A x \in Consumers \ {c} : r.subs[x] = st.subs[x]
  BY DEF MonthOver, CuTimerOf
<1>2. PICK kept \in Subs, n \in Nat : All(kept, n)
  BY DEF MonthOver
<1>3. /\ s \in StoreOf(Subs) /\ Sound(s, ctx, NextEpoch) /\ Quiet(s) /\ s.panic = FALSE
      /\ Find(s, NextEpoch) # NoBlock /\ old = s.entries[Find(s, NextEpoch)].data
  BY StoreCalm, NotPanicked DEF SubBlock, SubData
<1>4. r \in Chain
  BY <1>1 DEF SameBut
<1>5. r.subs[c].panic = FALSE /\ r.subs[c] \in StoreOf(Subs)
  BY <1>4, NotPanicked, ChainParts
<1>6. /\ t.credit = reward /\ reward \in Nat /\ reward <= old.credit
      /\ old.credit \in Nat /\ old.future.credit \in Nat
  BY RewardCovered, SubParts, FutureParts DEF CuTimerOf
<1> DEFINE m == ModifyEntry(s, old.block, kept)
           q == r.subs[c]
<1>7. /\ kept.block = old.block /\ kept.credit = old.credit - reward
      /\ kept.future = old.future /\ r.balance = st.balance + n
      /\ \/ q = DelEntry(s, NextEpoch)
         \/ q = DelEntry(m, NextEpoch)
         \/ \E new \in Subs :
              /\ new.block = NextEpoch
              /\ new.credit + new.future.credit + reward <= old.credit + old.future.credit
              /\ q = AppendEntry(s, NextEpoch, new)
         \/ /\ AppendSucceeds(m, ctx)
            /\ \E new \in Subs :
                 /\ new.block = ctx /\ new.credit + reward = old.credit + n
                 /\ new.future = old.future
                 /\ q = AppendEntry(m, ctx, new)
  BY <1>2
<1> HIDE DEF s, t, reward, All, q
<1>8. Debt(s) = Worth(old)
  BY <1>3, EpochNext, FoundTop
<1>9. /\ m \in StoreOf(Subs) /\ Sound(m, ctx, NextEpoch) /\ Quiet(m) /\ m.panic = FALSE
      /\ Find(m, NextEpoch) # NoBlock /\ Debt(m) = Worth(kept)
  <2>1. kept.block = s.entries[Find(s, NextEpoch)].data.block /\ m = ModifyEntry(s, kept.block, kept)
    BY <1>3, <1>7
  <2> HIDE DEF m
  <2> QED BY <1>3, <2>1, ModifyOwnedIs
<1> HIDE DEF m
<1>10. ~q.panic /\ q \in StoreOf(Subs)
  BY <1>5 DEF q
<1>11. Debt(q) \in Nat
  BY <1>10, DebtNat
<1>12. Sound(q, ctx, NextEpoch) /\ Quiet(q) /\ Debt(q) + reward <= Debt(s) + n
  <2>1. CASE q = DelEntry(s, NextEpoch)
    <3>1. Sound(q, ctx, NextEpoch) /\ Quiet(q) /\ Debt(q) = 0
      BY <1>3, <1>10, <2>1, EpochNext, DelNextIs
    <3> QED BY <1>6, <1>8, <3>1 DEF Worth
  <2>2. CASE q = DelEntry(m, NextEpoch)
    <3>1. Sound(q, ctx, NextEpoch) /\ Quiet(q) /\ Debt(q) = 0
      BY <1>9, <1>10, <2>2, EpochNext, DelNextIs
    <3> QED BY <1>6, <1>8, <3>1 DEF Worth
  <2>3. ASSUME NEW new \in Subs, new.block = NextEpoch,
               new.credit + new.future.credit + reward <= old.credit + old.future.credit,
               q = AppendEntry(s, NextEpoch, new)
        PROVE  Sound(q, ctx, NextEpoch) /\ Quiet(q) /\ Debt(q) + reward <= Debt(s) + n
    <3>1. Sound(q, ctx, NextEpoch) /\ Quiet(q) /\ Debt(q) = Worth(new)
      BY <1>3, <1>10, <2>3, EpochNext, AppendNextIs
    <3>2. new.credit \in Nat /\ new.future.credit \in Nat
      BY SubParts, FutureParts
    <3> QED BY <1>6, <1>8, <2>3, <3>1, <3>2 DEF Worth
  <2>4. ASSUME AppendSucceeds(m, ctx), NEW new \in Subs, new.block = ctx,
               new.credit + reward = old.credit + n, new.future = old.future,
               q = AppendEntry(m, ctx, new)
        PROVE  Sound(q, ctx, NextEpoch) /\ Quiet(q) /\ Debt(q) + reward <= Debt(s) + n
    <3>1. Sound(q, ctx, NextEpoch) /\ Quiet(q) /\ (Debt(q) <= Debt(m) \/ Debt(q) <= Worth(new))
      <4>1. ~AppendEntry(m, ctx, new).panic
        BY <1>10, <2>4
      <4> QED BY <1>9, <2>4, <4>1, EpochNext, AppendNowIs
    <3>2. Debt(m) + reward <= Debt(s) + n /\ Debt(m) \in Nat
      BY <1>6, <1>7, <1>8, <1>9 DEF Worth
    <3>3. Worth(new) + reward = Debt(s) + n /\ Worth(new) \in Nat
      <4>1. new.credit \in Nat
        BY SubParts
      <4> QED BY <1>6, <1>8, <2>4, <4>1 DEF Worth
    <3>4. Debt(s) \in Nat
      BY <1>3, DebtNat
    <3> QED BY <1>6, <1>11, <3>1, <3>2, <3>3, <3>4
  <2> QED BY <1>7, <2>1, <2>2, <2>3, <2>4
<1>13. n \in Int
  OBVIOUS
<1>14. Debt(q) + t.credit <= Debt(s) + n
  BY <1>6, <1>12
<1> QED BY <1>1, <1>4, <1>7, <1>12, <1>13, <1>14, StaysScheduled DEF s, q

\* A pending payout is paid, in part to the subscription in effect.
LEMMA PayoutHealthy ==
    ASSUME Clock, NEW st \in Chain, NEW t \in st.cuTimers, NEW rewarded \in 0..t.credit,
           NEW sent \in 0..rewarded, Healthy(st), ~Panicked(Payout(st, t, rewarded, sent))
    PROVE  Healthy(Payout(st, t, rewarded, sent))
<1> DEFINE r == Payout(st, t, rewarded, sent)
           c == t.consumer
           s == st.subs[c]
           q == r.subs[c]
           b == Find(s, ctx)
<1>1. t \in CuTimers /\ c \in Consumers /\ t.credit \in Nat /\ rewarded \in Nat /\ rewarded <= t.credit
  BY ChainParts DEF CuTimers
<1>2. /\ SameBut(st, r, {"subs", "cuTimers", "balance"})
      /\ r.cuTimers = st.cuTimers \ {t}
      /\ \A x \in Consumers \ {c} : r.subs[x] = st.subs[x]
      /\ \/ q = s /\ r.balance >= st.balance - t.credit
         \/ /\ b # NoBlock /\ r.balance >= st.balance - rewarded
            /\ \E new \in Subs : LET old == s.entries[b].data IN
                 /\ new.block = old.block /\ new.future = old.future
                 /\ new.credit = old.credit + t.credit - rewarded
                 /\ q = ModifyEntry(s, b, new)
  BY <1>1, PayoutIs DEF SubBlock, SubData
<1>3. s \in StoreOf(Subs) /\ Sound(s, ctx, NextEpoch) /\ Quiet(s) /\ Debt(s) \in Nat
  BY <1>1, StoreCalm
<1>4. ~Panicked(r)
  OBVIOUS
<1> HIDE DEF r
<1>5. r \in Chain
  BY <1>2 DEF SameBut
<1>6. q.panic = FALSE /\ q \in StoreOf(Subs)
  BY <1>1, <1>4, <1>5, NotPanicked, ChainParts
<1>7. /\ IsFiniteSet(r.cuTimers) /\ Payouts(st.cuTimers) = t.credit + Payouts(r.cuTimers)
      /\ Payouts(r.cuTimers) \in Nat /\ st.balance \in Int /\ r.balance \in Int
  <2>1. IsFiniteSet(st.cuTimers) /\ st.cuTimers \in SUBSET CuTimers
    BY ChainParts DEF Healthy, Covered
  <2>2. IsFiniteSet(r.cuTimers) /\ Payouts(st.cuTimers) = t.credit + Payouts(r.cuTimers)
    BY <1>2, <2>1, PayoutsRemove
  <2> QED BY <1>5, <2>2, ChainParts, PayoutsNat
<1>8. Debt(q) \in Nat
  BY <1>6, DebtNat
<1>9. ASSUME q = s, r.balance >= st.balance - t.credit
      PROVE  Healthy(r)
  <2>1. r.balance - st.balance >= (Debt(q) - Debt(s)) + (Payouts(r.cuTimers) - Payouts(st.cuTimers))
    <3> HIDE DEF q, s, c
    <3> QED BY <1>1, <1>3, <1>7, <1>8, <1>9
  <2>2. Sound(q, ctx, NextEpoch) /\ Quiet(q)
    BY <1>3, <1>9
  <2> QED BY <1>1, <1>2, <1>5, <1>7, <2>1, <2>2, StaysHealthy
<1>10. ASSUME b # NoBlock, r.balance >= st.balance - rewarded,
              NEW new \in Subs, new.block = s.entries[b].data.block, new.future = s.entries[b].data.future,
              new.credit = s.entries[b].data.credit + t.credit - rewarded,
              q = ModifyEntry(s, b, new)
       PROVE  Healthy(r)
  <2> DEFINE n == t.credit - rewarded
             old == s.entries[b].data
  <2>1. b \in Versions(s) /\ old \in Subs /\ b = Find(s, ctx)
    BY <1>3, <1>10, EpochNext, FindVersion, EntryParts
  <2>2. old.block = b
    BY <1>3, <2>1 DEF Sound, Starts
  <2>3. n \in Nat /\ old.credit \in Nat /\ old.future.credit \in Nat
    BY <1>1, <2>1, SubParts, FutureParts
  <2> HIDE DEF s, b, q, c
  <2>4. Worth(new) = Worth(old) + n
    <3> HIDE DEF old
    <3>1. new.credit = old.credit + t.credit - rewarded /\ new.future = old.future
      BY <1>10 DEF old
    <3> QED BY <1>1, <2>3, <3>1 DEF Worth
  <2> HIDE DEF n
  <2>5. Sound(q, ctx, NextEpoch) /\ Quiet(q) /\ Debt(q) <= Debt(s) + n
    <3>1. ~ModifyEntry(s, b, new).panic /\ new.block = b
      BY <1>6, <1>10, <2>2
    <3> DEFINE y == ModifyEntry(s, b, new)
    <3>2. y \in StoreOf(Subs) /\ Sound(y, ctx, NextEpoch) /\ Quiet(y) /\ Debt(y) <= Debt(s) + n
      BY <1>3, <1>10, <2>1, <2>3, <2>4, <3>1, EpochNext, ModifyFoundIs
    <3> QED BY <1>10, <3>2
  <2>6. r.balance - st.balance >= (Debt(q) - Debt(s)) + (Payouts(r.cuTimers) - Payouts(st.cuTimers))
    BY <1>1, <1>3, <1>7, <1>8, <1>10, <2>5 DEF n
  <2> QED BY <1>1, <1>2, <1>5, <1>7, <2>5, <2>6, StaysHealthy DEF s, q, c
<1>11. Healthy(r)
  <2> HIDE DEF s, b, q
  <2> QED BY <1>2, <1>9, <1>10
<1> QED BY <1>11 DEF r

-----------------------------------------------------------------------------
(* The invariant.                                                            *)

Solvency ==
    /\ Typed /\ (phase = "txs" => ~Panicked(chain))
    /\ ~Panicked(chain) => Sounds(chain) /\ Covered(chain) /\ (phase # "begin" => Quiets(chain))

LEMMA EmptyPlanStarts ==
    ASSUME ctx \in Nat
    PROVE  AppendEntry(EmptyStore, ctx, "plan").panic = FALSE
<1>1. Versions(EmptyStore) = {}
  BY DEF Versions, EmptyStore
<1>2. Nearest(EmptyStore, ctx) = NoBlock
  BY <1>1 DEF Nearest
<1>3. IsFirst(EmptyStore, ctx) = TRUE
  BY <1>2 DEF IsFirst
<1>4. AppendEntry(EmptyStore, ctx, "plan") = Supersede(EmptyStore, ctx, "plan", NoBlock, TRUE)
  BY <1>2, <1>3 DEF AppendEntry, AppendSucceeds
<1> DEFINE u == SetIndex(EmptyStore, "live")
           e == [staleAt |-> Never, deleteAt |-> Never, latest |-> ctx <= ctx, refcount |-> 1, data |-> "plan"]
<1>5. Supersede(EmptyStore, ctx, "plan", NoBlock, TRUE) = SetEntry(u, ctx, e)
  BY DEF Supersede
<1>6. u.panic = FALSE /\ SetEntry(u, ctx, e).panic = u.panic
  <2>1. EmptyStore \in StoreOf({"plan"}) /\ EmptyStore.panic = FALSE
    BY EmptyTyped DEF EmptyStore
  <2>2. u \in StoreOf({"plan"}) /\ u.panic = EmptyStore.panic
    BY <2>1 DEF SetIndex, StoreOf
  <2> HIDE DEF e, u
  <2> QED BY <2>1, <2>2 DEF SetEntry, StoreOf
<1> HIDE DEF u, e
<1> QED BY <1>4, <1>5, <1>6

LEMMA EmptySound ==
    ASSUME NEW now, NEW next
    PROVE  Sound(EmptyStore, now, next) /\ Quiet(EmptyStore) /\ Debt(EmptyStore) = 0
<1>1. Versions(EmptyStore) = {} /\ EmptyStore.timers = {}
  BY DEF Versions, EmptyStore
<1>2. Debt(EmptyStore) = 0
  BY <1>1, DebtNone
<1> QED BY <1>1, <1>2 DEF Sound, Starts, Referenced, Follows, TimersFit, Quiet

LEMMA InitSolvency == Init => Solvency
<1> SUFFICES ASSUME Init PROVE Solvency
  OBVIOUS
<1>1. Typed
  BY InitTyped
<1>2. ctx \in Nat /\ EpochBlocks = ctx
  BY <1>1, ClockBounds DEF Typed, Init
<1>3. /\ chain.subs = [c \in Consumers |-> EmptyStore] /\ chain.admin = [c \in Consumers |-> EmptyStore]
      /\ chain.plans = [p \in PlanIndices |-> AppendEntry(EmptyStore, ctx, "plan")]
      /\ chain.cuTimers = {} /\ chain.balance = 0 /\ chain.panic = FALSE
  BY <1>2 DEF Init, InitChain
<1>4. ~Panicked(chain)
  <2>1. EmptyStore.panic = FALSE
    BY DEF EmptyStore
  <2> QED BY <1>2, <1>3, <2>1, EmptyPlanStarts DEF Panicked
<1>5. Sounds(chain) /\ Quiets(chain)
  BY <1>3, EmptySound DEF Sounds, Quiets
<1>6. Covered(chain)
  <2> DEFINE f == [c \in Consumers |-> Debt(chain.subs[c])]
  <2>1. \A c \in Consumers : f[c] = 0
    BY <1>3, EmptySound
  <2>2. Debts(chain.subs) = SumFunctionOnSet(f, Consumers)
    BY DEF Debts
  <2> HIDE DEF f
  <2>3. Debts(chain.subs) = 0
    BY <2>1, <2>2, ConsumersAssumption, SumZero
  <2>4. Payouts(chain.cuTimers) = 0
    BY <1>3, SumEmpty DEF Payouts
  <2> QED BY <1>3, <2>3, <2>4, FS_EmptySet DEF Covered
<1> QED BY <1>1, <1>4, <1>5, <1>6 DEF Solvency

\* A step within a block that leaves the record r.
LEMMA HealthyStep ==
    ASSUME NEW r, chain' = r, ctx' = ctx, Healthy(r)
    PROVE  Sounds(chain)' /\ Quiets(chain)' /\ Covered(chain)'
  BY DEF Healthy, Sounds, Quiets, Covered, Quiet, NextEpoch, EpochStart

\* A transaction's record, if it is healthy when the one before is.
LEMMA DeliverHealthy ==
    ASSUME NEW kind, NEW succeeds, NEW r, Solvency, Deliver(kind, succeeds, r),
           Healthy(chain) => Healthy(r), Typed'
    PROVE  Solvency'
<1>1. phase = "txs" /\ ~Panicked(chain) /\ ~Panicked(r) /\ chain' = r /\ ctx' = ctx
  BY DEF Deliver
<1>2. Healthy(r)
  BY <1>1 DEF Solvency, Healthy
<1>3. Sounds(chain)' /\ Quiets(chain)' /\ Covered(chain)'
  BY <1>1, <1>2, HealthyStep
<1>4. ~Panicked(chain)'
  BY <1>1 DEF Panicked
<1> QED BY <1>3, <1>4 DEF Solvency

LEMMA TransactionSolvency ==
    ASSUME Solvency, Transaction, Typed'
    PROVE  Solvency'
<1>0. Clock /\ chain \in Chain
  BY DEF Solvency, Typed
<1>1. ASSUME NEW p \in PlanIndices, AddPlan(p) PROVE Solvency'
  <2> DEFINE s == AppendEntry(chain.plans[p], ctx, "plan")
  <2>1. s \in StoreOf({"plan"})
    BY <1>0, ChainParts, ClockBounds, AppendTyped
  <2> DEFINE r == [chain EXCEPT !.plans[p] = s]
  <2>2. Deliver("add_plan", AppendSucceeds(chain.plans[p], ctx), r)
    BY <1>1 DEF AddPlan
  <2> HIDE DEF s
  <2>3. SameBut(chain, r, {"plans"})
    BY <1>0, <2>1, PlansSet
  <2> HIDE DEF r
  <2>4. SameBut(chain, r, {"plans", "admin", "months"})
    BY <2>3 DEF SameBut
  <2> QED BY <1>0, <2>2, <2>4, StaysSame, DeliverHealthy
<1>2. ASSUME NEW p \in PlanIndices, DelPlan(p) PROVE Solvency'
  <2> DEFINE s == DelEntry(chain.plans[p], NextEpoch)
  <2>1. s \in StoreOf({"plan"})
    BY <1>0, ChainParts, ClockBounds, DelTyped
  <2> DEFINE r == [chain EXCEPT !.plans[p] = s]
  <2>2. Deliver("del_plan", DelSucceeds(chain.plans[p], NextEpoch), r)
    BY <1>2 DEF DelPlan
  <2> HIDE DEF s
  <2>3. SameBut(chain, r, {"plans"})
    BY <1>0, <2>1, PlansSet
  <2> HIDE DEF r
  <2>4. SameBut(chain, r, {"plans", "admin", "months"})
    BY <2>3 DEF SameBut
  <2> QED BY <1>0, <2>2, <2>4, StaysSame, DeliverHealthy
<1>3. ASSUME NEW c \in Consumers, DelProject(c) PROVE Solvency'
  <2> DEFINE r == DeleteProject(chain, c)
  <2>1. SameBut(chain, r, {"admin"})
    BY <1>0, DelAllIs
  <2> DEFINE ok == SubBlock(chain, c, ctx) # NoBlock /\ Find(chain.admin[c], NextEpoch) # NoBlock
  <2>2. Deliver("del_project", ok, r)
    BY <1>3 DEF DelProject
  <2> HIDE DEF r, ok
  <2>3. SameBut(chain, r, {"plans", "admin", "months"})
    BY <2>1 DEF SameBut
  <2> QED BY <1>0, <2>2, <2>3, StaysSame, DeliverHealthy
<1>4. ASSUME NEW c \in Consumers, NEW p \in PlanIndices, NEW d \in Durations, NEW a \in BOOLEAN,
             Buy(c, p, d, a) PROVE Solvency'
  <2> DEFINE r == NewSubscription(chain, c, p, d, a)
             ok == CreateSucceeds(chain, c, p)
  <2>1. Deliver("buy", ok, r) /\ ok /\ ~Panicked(r)
    BY <1>4 DEF Buy, Deliver
  <2>2. Healthy(chain) => Healthy(r)
    BY <1>0, <2>1, BuyHealthy
  <2> HIDE DEF r, ok
  <2> QED BY <2>1, <2>2, DeliverHealthy
<1>5. ASSUME NEW c \in Consumers, NEW p \in PlanIndices, NEW d \in Durations, Extend(c, p, d)
      PROVE  Solvency'
  <2> DEFINE r == Extended(chain, c, p, d)
             ok == ExtendSucceeds(chain, c, p, d)
  <2>1. Deliver("extend", ok, r) /\ ok /\ ~Panicked(r)
    BY <1>5 DEF Extend, Deliver
  <2>2. Healthy(chain) => Healthy(r)
    BY <1>0, <2>1, ExtendHealthy
  <2> HIDE DEF r, ok
  <2> QED BY <2>1, <2>2, DeliverHealthy
<1>6. ASSUME NEW c \in Consumers, NEW p \in PlanIndices, NEW d \in Durations, Upgrade(c, p, d)
      PROVE  Solvency'
  <2> DEFINE r == Upgraded(chain, c, p, d)
             ok == UpgradeSucceeds(chain, c, p)
  <2>1. Deliver("upgrade", ok, r) /\ ok /\ ~Panicked(r)
    BY <1>6 DEF Upgrade, Deliver
  <2>2. Healthy(chain) => Healthy(r)
    BY <1>0, <2>1, UpgradeHealthy
  <2> HIDE DEF r, ok
  <2> QED BY <2>1, <2>2, DeliverHealthy
<1>7. ASSUME NEW c \in Consumers, NEW p \in PlanIndices, NEW d \in Durations, BuyAdvance(c, p, d)
      PROVE  Solvency'
  <2> DEFINE r == Advanced(chain, c, p, d)
             ok == AdvanceSucceeds(chain, c, p, d)
  <2>1. Deliver("advance", ok, r) /\ ok /\ ~Panicked(r)
    BY <1>7 DEF BuyAdvance, Deliver
  <2>2. Healthy(chain) => Healthy(r)
    BY <1>0, <2>1, AdvanceHealthy
  <2> HIDE DEF r, ok
  <2> QED BY <2>1, <2>2, DeliverHealthy
<1>8. ASSUME NEW c \in Consumers, NEW p \in PlanIndices \cup {None}, AutoRenewal(c, p) PROVE Solvency'
  <2> DEFINE r == RenewalSet(chain, c, p)
             ok == RenewalSucceeds(chain, c, p)
  <2>1. Deliver("auto_renewal", ok, r) /\ ok /\ ~Panicked(r)
    BY <1>8 DEF AutoRenewal, Deliver
  <2>2. Healthy(chain) => Healthy(r)
    BY <1>0, <2>1, RenewalHealthy
  <2> HIDE DEF r, ok
  <2> QED BY <2>1, <2>2, DeliverHealthy
<1>9. ASSUME NEW a \in BOOLEAN PROVE (a /\ "auto_renewal" \in kinds) \in BOOLEAN
  OBVIOUS
<1> QED BY <1>1, <1>2, <1>3, <1>4, <1>5, <1>6, <1>7, <1>8, <1>9 DEF Transaction

\* An epoch begins when the next one is due, and not before.
LEMMA EpochMoves ==
    ASSUME NEW n \in Nat, NEW k \in Nat, k > 0
    PROVE  LET next(x) == (x - (x % k)) + k
           IN  /\ next(n + 1) \in Nat /\ next(n + 1) >= next(n)
               /\ n + 1 < next(n) => next(n + 1) = next(n)
<1> DEFINE q == n \div k
           m == n % k
           q1 == (n + 1) \div k
           m1 == (n + 1) % k
<1>1. q \in Nat /\ m \in Nat /\ m < k /\ n = k * q + m
  OBVIOUS
<1>2. q1 \in Nat /\ m1 \in Nat /\ m1 < k /\ n + 1 = k * q1 + m1
  <2> DEFINE x == n + 1
  <2>1. x \in Nat
    OBVIOUS
  <2> HIDE DEF x
  <2>2. x \div k \in Nat /\ x % k \in Nat /\ x % k < k /\ x = k * (x \div k) + (x % k)
    BY <2>1
  <2> QED BY <2>2 DEF x
<1> HIDE DEF q, m, q1, m1
<1> DEFINE a == k * q
           a1 == k * q1
<1>3. a \in Nat /\ a1 \in Nat
  BY <1>1, <1>2
<1>4. q1 < q => a1 + k <= a
  <2>1. q1 < q => k * (q1 + 1) <= k * q
    BY <1>1, <1>2
  <2>2. k * (q1 + 1) = k * q1 + k
    BY <1>2
  <2> QED BY <2>1, <2>2
<1>5. q1 > q => a1 >= a + k
  <2>1. q1 > q => k * (q + 1) <= k * q1
    BY <1>1, <1>2
  <2>2. k * (q + 1) = k * q + k
    BY <1>1
  <2> QED BY <2>1, <2>2
<1>6. q1 = q => a1 = a
  OBVIOUS
<1>7. n = a + m /\ n + 1 = a1 + m1
  BY <1>1, <1>2
<1> HIDE DEF a, a1
<1>8. a1 >= a /\ (m + 1 < k => a1 = a)
  BY <1>1, <1>2, <1>3, <1>4, <1>5, <1>6, <1>7
<1>9. (n - m) + k = a + k /\ ((n + 1) - m1) + k = a1 + k
  BY <1>1, <1>2, <1>3, <1>7
<1>10. /\ ((n + 1) - m1) + k \in Nat /\ ((n + 1) - m1) + k >= (n - m) + k
       /\ n + 1 < (n - m) + k => ((n + 1) - m1) + k = (n - m) + k
  BY <1>1, <1>3, <1>7, <1>8, <1>9
<1> QED BY <1>10 DEF m, m1

\* The steps of a block that leave the subscriptions, the payouts and the account alone.
LEMMA SameSolvency ==
    ASSUME Solvency, Typed', ctx' = ctx, ~Panicked(chain), chain'.subs = chain.subs,
           chain'.cuTimers = chain.cuTimers, chain'.balance = chain.balance,
           phase' = "txs" => ~Panicked(chain)', phase' # "begin" => Quiets(chain)
    PROVE  Solvency'
<1>1. Sounds(chain) /\ Covered(chain)
  BY DEF Solvency
<1>2. Sounds(chain)' /\ Covered(chain)'
  BY <1>1 DEF Sounds, Covered, NextEpoch, EpochStart
<1>3. phase' # "begin" => Quiets(chain)'
  BY DEF Quiets, Quiet
<1> QED BY <1>2, <1>3 DEF Solvency

LEMMA EndBlockSolvency ==
    ASSUME Solvency, EndBlock, Typed'
    PROVE  Solvency'
<1>0. Clock /\ chain \in Chain
  BY DEF Solvency, Typed
<1>1. chain' = chain /\ ctx' = ctx + 1 /\ phase' = "begin" /\ ~Panicked(chain)
  BY DEF EndBlock
<1>2. Sounds(chain) /\ Covered(chain)
  BY <1>1 DEF Solvency
<1>3. ctx \in Nat /\ NextEpoch \in Nat /\ EpochBlocks \in Nat /\ EpochBlocks > 0
  BY <1>0, EpochNext, EpochAssumption, Bounds
<1>4. /\ NextEpoch' \in Nat /\ NextEpoch' >= NextEpoch
      /\ ctx + 1 < NextEpoch => NextEpoch' = NextEpoch
  <2>1. NextEpoch' = ((ctx + 1) - ((ctx + 1) % EpochBlocks)) + EpochBlocks
    BY <1>1 DEF NextEpoch, EpochStart
  <2>2. NextEpoch = (ctx - (ctx % EpochBlocks)) + EpochBlocks
    BY DEF NextEpoch, EpochStart
  <2>3. /\ ((ctx + 1) - ((ctx + 1) % EpochBlocks)) + EpochBlocks \in Nat
        /\ ((ctx + 1) - ((ctx + 1) % EpochBlocks)) + EpochBlocks >= (ctx - (ctx % EpochBlocks)) + EpochBlocks
        /\ ctx + 1 < (ctx - (ctx % EpochBlocks)) + EpochBlocks =>
             ((ctx + 1) - ((ctx + 1) % EpochBlocks)) + EpochBlocks = (ctx - (ctx % EpochBlocks)) + EpochBlocks
    BY <1>3, EpochMoves
  <2> QED BY <2>1, <2>2, <2>3
<1>5. ASSUME NEW c \in Consumers PROVE Sound(chain.subs[c], ctx + 1, NextEpoch')
  <2>1. chain.subs[c] \in StoreOf(Subs) /\ Sound(chain.subs[c], ctx, NextEpoch)
    BY <1>0, <1>2, ChainParts DEF Sounds
  <2> QED BY <1>3, <1>4, <2>1, LaterSound
<1>6. Sounds(chain)'
  BY <1>1, <1>5 DEF Sounds
<1>7. Covered(chain)'
  BY <1>1, <1>2 DEF Covered
<1> QED BY <1>1, <1>6, <1>7 DEF Solvency

LEMMA TickSolvency ==
    ASSUME Solvency, NEW c \in Consumers, NEW t \in Due(chain.subs[c]), TickSubs(c, t), Typed'
    PROVE  Solvency'
<1> DEFINE s == chain.subs[c]
           q == Fire(s, t)
           r == [chain EXCEPT !.subs[c] = q]
<1>0. Clock /\ chain \in Chain
  BY DEF Solvency, Typed
<1>1. chain' = r /\ ctx' = ctx /\ phase' = "begin" /\ ~Panicked(chain)
  BY DEF TickSubs
<1>2. Sounds(chain) /\ Covered(chain)
  BY <1>1 DEF Solvency
<1>3. s \in StoreOf(Subs) /\ Sound(s, ctx, NextEpoch) /\ t \in s.timers /\ t.at <= ctx
  BY <1>0, <1>2, ChainParts DEF Sounds, Due
<1>4. q \in StoreOf(Subs)
  BY <1>0, <1>3, EpochNext, FireTyped
<1>5. ~q.panic => Sound(q, ctx, NextEpoch) /\ Debt(q) = Debt(s)
  BY <1>0, <1>3, EpochNext, FireIs
<1> HIDE DEF q
<1>6. /\ SameBut(chain, r, {"subs"}) /\ r.subs[c] = q
      /\ \A x \in Consumers \ {c} : r.subs[x] = chain.subs[x]
  BY <1>0, <1>4, SubsSet
<1> HIDE DEF r
<1>7. r \in Chain /\ r.cuTimers = chain.cuTimers /\ r.balance = chain.balance
  BY <1>6 DEF SameBut
<1> SUFFICES ASSUME ~Panicked(chain)' PROVE Sounds(chain)' /\ Covered(chain)'
  BY <1>1 DEF Solvency
<1>8. ~Panicked(r)
  BY <1>1 DEF Panicked
<1>9. Sound(q, ctx, NextEpoch) /\ Debt(q) = Debt(s)
  BY <1>5, <1>6, <1>7, <1>8, NotPanicked
<1>10. Sounds(r)
  BY <1>2, <1>6, <1>9 DEF Sounds
<1>11. Debts(r.subs) = Debts(chain.subs)
  <2>1. Debts(r.subs) = Debts(chain.subs) + Debt(r.subs[c]) - Debt(chain.subs[c])
    BY <1>0, <1>6, <1>7, ChainParts, DebtsChange
  <2>2. Debts(chain.subs) \in Nat /\ Debt(s) \in Nat
    BY <1>0, <1>3, ChainParts, DebtsNat, DebtNat
  <2> QED BY <1>6, <1>9, <2>1, <2>2
<1>12. Covered(r)
  BY <1>2, <1>7, <1>11 DEF Covered
<1> QED BY <1>1, <1>10, <1>12 DEF Sounds, Covered, NextEpoch, EpochStart

\* A step that leaves the record r, at the end of a block or when a month is over.
LEMMA LeavesSolvency ==
    ASSUME NEW r, Solvency, Typed', chain' = r, ctx' = ctx, phase' # "txs", ~Panicked(r) => Healthy(r)
    PROVE  Solvency'
<1> SUFFICES ASSUME ~Panicked(chain)' PROVE Sounds(chain)' /\ Quiets(chain)' /\ Covered(chain)'
  BY DEF Solvency
<1>1. ~Panicked(r)
  BY DEF Panicked
<1> QED BY <1>1, HealthyStep

LEMMA MonthSolvency ==
    ASSUME Solvency, NEW m \in MonthsDue, NEW funded \in BOOLEAN, MonthExpires(m, funded), Typed'
    PROVE  Solvency'
<1> DEFINE M == chain.months \ {m}
           st == [chain EXCEPT !.months = M]
           c == m.consumer
           r == AdvanceMonth(st, c, funded)
           old == SubData(st, c, SubBlock(st, c, NextEpoch))
<1>0. Clock /\ chain \in Chain
  BY DEF Solvency, Typed
<1>1. M \in SUBSET MonthTimers /\ c \in Consumers
  BY <1>0, ChainParts DEF MonthsDue, MonthTimers
<1>2. chain' = r /\ ctx' = ctx /\ phase = "months" /\ phase' = "months" /\ ~Panicked(chain)
  BY <1>0 DEF MonthExpires, Chain
<1> HIDE DEF M, c
<1>3. SameBut(chain, st, {"months"})
  BY <1>0, <1>1, MonthsSet
<1> HIDE DEF st
<1>4. st \in Chain /\ SameBut(chain, st, {"plans", "admin", "months"})
  BY <1>3 DEF SameBut
<1>5. Healthy(chain)
  BY <1>2 DEF Solvency, Healthy
<1>6. Healthy(st)
  BY <1>0, <1>4, <1>5, StaysSame
<1>7. ~Panicked(st)
  BY <1>2, <1>3 DEF SameBut, Panicked
<1>8. \/ SubBlock(st, c, NextEpoch) = NoBlock /\ r = st
      \/ r = Fail(st)
      \/ SubBlock(st, c, NextEpoch) # NoBlock /\ old \in Subs /\ old.left > 0 /\ MonthOver(st, r, c, old)
  BY <1>0, <1>1, <1>4, AdvanceMonthIs
<1>9. Panicked(Fail(st))
  BY <1>4 DEF Fail, Panicked, Chain
<1> HIDE DEF r
<1>10. ASSUME ~Panicked(r) PROVE Healthy(r)
  <2>1. CASE r = st
    BY <1>6, <2>1
  <2>2. CASE SubBlock(st, c, NextEpoch) # NoBlock /\ old \in Subs /\ old.left > 0 /\ MonthOver(st, r, c, old)
    <3> DEFINE o == old
    <3>1. o = SubData(st, c, SubBlock(st, c, NextEpoch)) /\ o \in Subs /\ o.left > 0 /\ MonthOver(st, r, c, o)
      BY <2>2
    <3> HIDE DEF old, o
    <3> QED BY <1>0, <1>1, <1>4, <1>6, <1>7, <1>10, <2>2, <3>1, MonthHealthy
  <2> QED BY <1>8, <1>9, <1>10, <2>1, <2>2
<1> QED BY <1>2, <1>10, LeavesSolvency

LEMMA BlockSolvency ==
    ASSUME Solvency, BlockStep, Typed'
    PROVE  Solvency'
<1>0. Clock /\ chain \in Chain
  BY DEF Solvency, Typed
<1>1. CASE TxsDone \/ BlockBegun
  <2>1. ctx' = ctx /\ chain' = chain /\ ~Panicked(chain) /\ phase # "begin"
    BY <1>1 DEF TxsDone, BlockBegun
  <2>2. Quiets(chain) /\ ~Panicked(chain)'
    BY <2>1 DEF Solvency, Panicked
  <2> QED BY <2>1, <2>2, SameSolvency
<1>2. CASE StoresTicked
  <2>1. ctx' = ctx /\ chain' = chain /\ ~Panicked(chain) /\ phase' = "months" /\ ~SubsDue
    BY <1>2 DEF StoresTicked
  <2>2. Quiets(chain)
    <3> SUFFICES ASSUME NEW c \in Consumers, NEW t \in chain.subs[c].timers PROVE t.at > ctx
      BY DEF Quiets, Quiet
    <3>1. ~(t.at <= ctx)
      BY <2>1 DEF SubsDue, Due
    <3>2. t.at \in Nat /\ ctx \in Nat
      BY <1>0, ChainParts, StoreParts, EpochNext DEF Timer
    <3> QED BY <3>1, <3>2
  <2> QED BY <2>1, <2>2, SameSolvency
<1>3. CASE EndBlock
  BY <1>3, EndBlockSolvency
<1>4. ASSUME NEW p \in PlanIndices, NEW t \in Due(chain.plans[p]), TickPlans(p, t) PROVE Solvency'
  <2> DEFINE s == Fire(chain.plans[p], t)
             r == [chain EXCEPT !.plans[p] = s]
  <2>1. s \in StoreOf({"plan"})
    BY <1>0, ChainParts, EpochNext, FireTyped DEF Due
  <2>2. chain' = r /\ ctx' = ctx /\ phase' = "begin" /\ ~Panicked(chain)
    BY <1>4 DEF TickPlans
  <2> HIDE DEF s
  <2>3. SameBut(chain, r, {"plans"})
    BY <1>0, <2>1, PlansSet
  <2> HIDE DEF r
  <2>4. chain'.subs = chain.subs /\ chain'.cuTimers = chain.cuTimers /\ chain'.balance = chain.balance
    BY <2>2, <2>3 DEF SameBut
  <2> QED BY <2>2, <2>4, SameSolvency
<1>5. ASSUME NEW c \in Consumers, NEW t \in Due(chain.admin[c]), TickAdmins(c, t) PROVE Solvency'
  <2> DEFINE s == Fire(chain.admin[c], t)
             r == [chain EXCEPT !.admin[c] = s]
  <2>1. s \in StoreOf({"project"})
    BY <1>0, ChainParts, EpochNext, FireTyped DEF Due
  <2>2. chain' = r /\ ctx' = ctx /\ phase' = "begin" /\ ~Panicked(chain)
    BY <1>5 DEF TickAdmins
  <2> HIDE DEF s
  <2>3. SameBut(chain, r, {"admin"})
    BY <1>0, <2>1, AdminSet
  <2> HIDE DEF r
  <2>4. chain'.subs = chain.subs /\ chain'.cuTimers = chain.cuTimers /\ chain'.balance = chain.balance
    BY <2>2, <2>3 DEF SameBut
  <2> QED BY <2>2, <2>4, SameSolvency
<1>6. ASSUME NEW c \in Consumers, NEW t \in Due(chain.subs[c]), TickSubs(c, t) PROVE Solvency'
  BY <1>6, TickSolvency
<1>7. ASSUME NEW m \in MonthsDue, NEW funded \in BOOLEAN, MonthExpires(m, funded) PROVE Solvency'
  BY <1>7, MonthSolvency
<1> QED BY <1>1, <1>2, <1>3, <1>4, <1>5, <1>6, <1>7 DEF BlockStep

LEMMA StepSolvency == Solvency /\ [Next]_vars => Solvency'
<1> SUFFICES ASSUME Solvency, [Next]_vars PROVE Solvency'
  OBVIOUS
<1>0. Clock /\ chain \in Chain /\ Typed'
  BY StepTyped DEF Solvency, Typed
<1>1. CASE Transaction
  BY <1>0, <1>1, TransactionSolvency
<1>2. CASE BlockStep
  BY <1>0, <1>2, BlockSolvency
<1>3. ASSUME NEW t \in CuTimersDue, NEW rewarded \in 0..t.credit, NEW sent \in 0..rewarded,
             PayCuTracker(t, rewarded, sent)
      PROVE  Solvency'
  <2> DEFINE r == Payout(chain, t, rewarded, sent)
  <2>1. chain' = r /\ ctx' = ctx /\ phase = "end" /\ phase' = "end" /\ ~Panicked(chain) /\ t \in chain.cuTimers
    BY <1>3 DEF PayCuTracker, CuTimersDue
  <2>2. Healthy(chain)
    BY <2>1 DEF Solvency, Healthy
  <2>3. ~Panicked(r) => Healthy(r)
    BY <1>0, <2>1, <2>2, PayoutHealthy
  <2> HIDE DEF r
  <2> QED BY <1>0, <2>1, <2>3, LeavesSolvency
<1>4. CASE UNCHANGED vars
  <2>1. ctx' = ctx /\ chain' = chain /\ phase' = phase
    BY <1>4 DEF vars
  <2> QED BY <1>0, <2>1 DEF Solvency, Sounds, Quiets, Quiet, Covered, Panicked, NextEpoch, EpochStart
<1> QED BY <1>1, <1>2, <1>3, <1>4 DEF Next

\* What is owed is the sum of the debts and the pending payouts.
LEMMA OwedIs ==
    ASSUME Typed, Sounds(chain)
    PROVE  Owed = Debts(chain.subs) + Payouts(chain.cuTimers)
<1>0. Clock /\ chain \in Chain
  BY DEF Typed
<1> DEFINE e == [c \in Consumers |-> IF c \in Owners THEN Owned(c).credit + Owned(c).future.credit ELSE 0]
           f == [c \in Consumers |-> Debt(chain.subs[c])]
<1>1. ASSUME NEW c \in Consumers PROVE e[c] = f[c] /\ f[c] \in Int
  <2> DEFINE s == chain.subs[c]
  <2>1. s \in StoreOf(Subs) /\ Sound(s, ctx, NextEpoch)
    BY <1>0, ChainParts DEF Sounds
  <2>2. Debt(s) \in Int
    BY <2>1, DebtNat
  <2>3. CASE Find(s, NextEpoch) = NoBlock
    <3>1. Debt(s) = 0
      BY <1>0, <2>1, <2>3, EpochNext, FoundNone
    <3>2. c \notin Owners
      BY <2>3 DEF Owners, SubBlock
    <3> QED BY <3>1, <3>2
  <2>4. CASE Find(s, NextEpoch) # NoBlock
    <3>1. Debt(s) = Worth(s.entries[Find(s, NextEpoch)].data)
      BY <1>0, <2>1, <2>4, EpochNext, FoundTop
    <3>2. c \in Owners /\ Owned(c) = s.entries[Find(s, NextEpoch)].data
      BY <2>4 DEF Owners, Owned, SubBlock, SubData
    <3> QED BY <2>2, <3>1, <3>2 DEF Worth
  <2> QED BY <2>3, <2>4
<1>2. /\ Owed = SumFunctionOnSet(e, Consumers) + Payouts(chain.cuTimers)
      /\ Debts(chain.subs) = SumFunctionOnSet(f, Consumers)
  BY DEF Owed, Debts, Payouts
<1> HIDE DEF e, f
<1>3. Summable(f, Consumers)
  BY <1>1, ConsumersAssumption DEF Summable
<1>4. SumFunctionOnSet(e, Consumers) = SumFunctionOnSet(f, Consumers)
  BY <1>1, <1>3, SumAgree
<1> QED BY <1>2, <1>4

\* The account of the subscription module covers every credit, every future
\* credit and every pending payout, whatever consumers buy, extend, upgrade, renew and
\* let expire, whatever the plans do meanwhile, and however payouts are split (x/subscription:
\* CreateSubscription, advanceMonth and the CU tracker's callback).
THEOREM AccountIsSolvent == Spec => []Solvent
<1>1. Solvency => Solvent
  <2> SUFFICES ASSUME Solvency, phase = "txs" PROVE chain.balance >= Owed
    BY DEF Solvent
  <2>1. Typed /\ Sounds(chain) /\ Covered(chain)
    BY DEF Solvency
  <2>2. Owed = Debts(chain.subs) + Payouts(chain.cuTimers)
    BY <2>1, OwedIs
  <2> QED BY <2>1, <2>2 DEF Covered
<1> QED BY <1>1, InitSolvency, StepSolvency, PTL DEF Spec

\* The same with the payouts that the CU tracker computes.
THEOREM TrackerIsSolvent == CuSpec => []Solvent
  BY AccountIsSolvent, TrackerImplementsSubscription, PTL DEF ImplementsSubscription
=============================================================================
