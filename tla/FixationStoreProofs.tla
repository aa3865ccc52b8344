------------------------- MODULE FixationStoreProofs -------------------------
(***************************************************************************)
(* Proofs about FixationStore for every number of blocks, references and   *)
(* data, and for every plan of the users that meets the assumptions: the   *)
(* consistency panics of the store are never reached, references keep      *)
(* their versions, the state invariants of fixationstore.go hold, and the  *)
(* past is fixed.                                                          *)
(***************************************************************************)
EXTENDS FixationStore, SumTheorems

-----------------------------------------------------------------------------
(* The inductive invariant, of a store s whose users hold the references h   *)
(* at block now, between any two steps: timers of the block may be due.      *)

TimerOf(at, kind, b) == [at |-> at, kind |-> kind, block |-> b]

\* The versions that wait for their future timer, and the others.
Waiting(s) == {b \in Versions(s) : TimerOf(b, Future, b) \in s.timers}
Started(s) == Versions(s) \ Waiting(s)

Store == [entries: UNION {[V -> Entries(Data)] : V \in SUBSET Targets},
          index: {"absent", "live", "dead"}, timers: SUBSET Timer, panic: BOOLEAN]

\* The one block a user may still name beyond the current one.
Planned(x, now) == \A c \in Blocks : now <= c /\ c < x => \A y \in Named(c) : y > c => y = x

Shape(s, h, now) == s \in Store /\ ~s.panic /\ h \in [Targets -> Nat] /\ now \in Blocks

\* No timer is late, at most one version starts or is deleted by a timer, at
\* the block the users may name, and that timer agrees with its version.
Plan(s, now) ==
    /\ \A t \in s.timers : t.at >= now
    /\ \A t, u \in s.timers : t.kind # Stale /\ u.kind # Stale => t = u
    /\ \A t \in s.timers : t.kind # Stale => t.at \in Targets /\ Planned(t.at, now)
    /\ \A t \in s.timers : t.kind = Future => t.block \in Versions(s) /\ t.at = t.block
    /\ \A t \in s.timers : t.kind = Delete =>
         t.block \in Versions(s) /\ s.entries[t.block].latest /\ s.entries[t.block].deleteAt = t.at

\* A version that waits is as it was appended.
Fresh(s, h, now) ==
    /\ \A b \in Started(s) : b <= now
    /\ \A b \in Waiting(s) : ~s.entries[b].latest /\ s.entries[b].deleteAt = Never /\ h[b] = 0

\* Of the versions that started, the newest has the latest mark or is deleted.
Newest(s, now) ==
    /\ \A b \in Versions(s) : s.entries[b].latest => b \in Started(s) /\ \A c \in Started(s) : c <= b
    /\ \A b \in Started(s) : (\A c \in Started(s) : c <= b) =>
         s.entries[b].latest \/ s.entries[b].deleteAt <= now

\* A delete is pending, with its timer, on the latest version, or it is over.
Deletes(s, now) ==
    \A b \in Versions(s) : LET e == s.entries[b] IN
        /\ e.deleteAt \in Targets \cup {Never} /\ e.deleteAt > b
        /\ e.deleteAt # Never =>
             IF e.latest THEN TimerOf(e.deleteAt, Delete, b) \in s.timers
             ELSE e.deleteAt <= now

Counted(s, h) ==
    /\ \A b \in Versions(s) : s.entries[b].refcount =
         h[b] + (IF s.entries[b].latest \/ b \in Waiting(s) THEN 1 ELSE 0)
    /\ \A b \in Targets : h[b] > 0 => b \in Versions(s)

Indexed(s) ==
    /\ s.index = "absent" <=> Versions(s) = {}
    /\ s.index = "live" <=> \E b \in Versions(s) : s.entries[b].latest \/ b \in Waiting(s)

\* A version turns stale with a timer, and the scan of that block is to come or
\* the oldest version is not stale.
Scanned(s, now) ==
    /\ \A b \in Versions(s) : s.entries[b].refcount = 0 /\ s.entries[b].staleAt > now =>
         TimerOf(s.entries[b].staleAt, Stale, b) \in s.timers
    /\ \/ \E t \in s.timers : t.kind = Stale /\ t.at <= now
       \/ \A b \in Versions(s) : (\A c \in Versions(s) : b <= c) => ~IsStaleBy(s.entries[b], now)

Good(s, h, now) ==
    /\ Shape(s, h, now) /\ Plan(s, now) /\ Fresh(s, h, now) /\ Newest(s, now)
    /\ Deletes(s, now) /\ Counted(s, h) /\ Indexed(s) /\ Scanned(s, now)

\* s and r have the same versions before block now, as stale and as deleted by
\* then: a lookup for an earlier block finds the same.
SamePast(s, r, now) ==
    \A c \in Versions(s) \cup Versions(r) : c < now =>
        /\ c \in Versions(s) /\ c \in Versions(r)
        /\ IsStaleBy(r.entries[c], now) <=> IsStaleBy(s.entries[c], now)
        /\ \A x \in Blocks : x < now => (IsDeletedBy(r.entries[c], x) <=> IsDeletedBy(s.entries[c], x))

-----------------------------------------------------------------------------
(* Records. *)

LEMMA Bounds ==
    /\ MaxBlock \in Nat /\ StaleBlocks \in Nat /\ StaleBlocks > 0
    /\ Never \in Nat /\ NoBlock \notin Targets
    /\ \A b \in Targets : b \in Nat /\ b > 0 /\ b < Never
    /\ \A b \in Blocks : b \in Targets
  BY BlockAssumption, StaleAssumption DEF Never, NoBlock, Targets, Blocks

LEMMA Kinds == Future # Delete /\ Future # Stale /\ Delete # Stale
  BY DEF Future, Delete, Stale

LEMMA TimerFields ==
    /\ \A at, kind, b : LET t == TimerOf(at, kind, b) IN t.at = at /\ t.kind = kind /\ t.block = b
    /\ \A at \in Nat, kind \in {Future, Delete, Stale}, b \in Targets : TimerOf(at, kind, b) \in Timer
    /\ \A t \in Timer : /\ t = TimerOf(t.at, t.kind, t.block)
                        /\ t.at \in Nat /\ t.kind \in {Future, Delete, Stale} /\ t.block \in Targets
  BY DEF TimerOf, Timer

LEMMA EntryFields ==
    ASSUME NEW e \in Entries(Data)
    PROVE  /\ e.staleAt \in Nat /\ e.deleteAt \in Nat /\ e.latest \in BOOLEAN
           /\ e.refcount \in Nat /\ e.data \in Data
  BY DEF Entries

LEMMA ReferencedEntry ==
    ASSUME NEW x \in Entries(Data)
    PROVE  LET e == [x EXCEPT !.refcount = @ + 1]
           IN  /\ e \in Entries(Data) /\ e.latest = x.latest /\ e.deleteAt = x.deleteAt
               /\ e.refcount = x.refcount + 1
<1>1. x.refcount + 1 \in Nat
  BY EntryFields
<1> QED BY <1>1 DEF Entries

LEMMA NewEntry ==
    ASSUME NEW a \in Nat, NEW d \in Nat, NEW l \in BOOLEAN, NEW r \in Nat, NEW x \in Data
    PROVE  LET e == [staleAt |-> a, deleteAt |-> d, latest |-> l, refcount |-> r, data |-> x]
           IN  /\ e \in Entries(Data) /\ e.staleAt = a /\ e.deleteAt = d /\ e.latest = l
               /\ e.refcount = r /\ e.data = x
  BY DEF Entries

LEMMA StoreFields ==
    ASSUME NEW s \in Store
    PROVE  /\ Versions(s) \in SUBSET Targets /\ s.entries \in [Versions(s) -> Entries(Data)]
           /\ s.index \in {"absent", "live", "dead"} /\ s.timers \in SUBSET Timer
           /\ s.panic \in BOOLEAN
  BY DEF Store, Versions

LEMMA StoreEntries ==
    ASSUME NEW s \in Store, NEW V \in SUBSET Targets, NEW E \in [V -> Entries(Data)]
    PROVE  LET r == [s EXCEPT !.entries = E]
           IN  /\ r \in Store /\ r.entries = E /\ Versions(r) = V
               /\ r.index = s.index /\ r.timers = s.timers /\ r.panic = s.panic
<1>1. E \in UNION {[W -> Entries(Data)] : W \in SUBSET Targets} /\ DOMAIN E = V
  OBVIOUS
<1> QED BY <1>1 DEF Store, Versions

LEMMA StoreTimers ==
    ASSUME NEW s \in Store, NEW T \in SUBSET Timer
    PROVE  LET r == [s EXCEPT !.timers = T]
           IN  /\ r \in Store /\ r.timers = T /\ r.entries = s.entries
               /\ r.index = s.index /\ r.panic = s.panic
  BY DEF Store

LEMMA StoreIndex ==
    ASSUME NEW s \in Store, NEW x \in {"absent", "live", "dead"}
    PROVE  LET r == SetIndex(s, x)
           IN  /\ r \in Store /\ r.index = x /\ r.entries = s.entries
               /\ r.timers = s.timers /\ r.panic = s.panic
  BY DEF Store, SetIndex

-----------------------------------------------------------------------------
(* What the operations on the store leave. *)

\* r is s with another record of version b.
Rewrites(s, r, b, e) ==
    /\ r \in Store /\ r.panic = s.panic
    /\ Versions(r) = Versions(s) \cup {b} /\ r.entries[b] = e
    /\ \A c \in Versions(s) \ {b} : r.entries[c] = s.entries[c]

LEMMA SetEntryIs ==
    ASSUME NEW s \in Store, NEW b \in Targets, NEW e \in Entries(Data)
    PROVE  LET r == SetEntry(s, b, e)
           IN  Rewrites(s, r, b, e) /\ r.timers = s.timers /\ r.index = s.index
<1> DEFINE V == Versions(s) \cup {b}
           E == [x \in V |-> IF x = b THEN e ELSE s.entries[x]]
<1>1. V \in SUBSET Targets /\ E \in [V -> Entries(Data)]
  BY StoreFields
<1>2. SetEntry(s, b, e) = [s EXCEPT !.entries = E]
  BY DEF SetEntry, Versions, Store
<1>3. E[b] = e /\ \A c \in Versions(s) \ {b} : E[c] = s.entries[c]
  OBVIOUS
<1> HIDE DEF V, E
<1>4. LET r == [s EXCEPT !.entries = E]
      IN  /\ r \in Store /\ r.entries = E /\ Versions(r) = V
          /\ r.index = s.index /\ r.timers = s.timers /\ r.panic = s.panic
  BY <1>1, StoreEntries
<1>5. V = Versions(s) \cup {b}
  BY DEF V
<1> QED BY <1>2, <1>3, <1>4, <1>5 DEF Rewrites

\* A timer of a block to come is added.
LEMMA AddTimerIs ==
    ASSUME NEW s \in Store, NEW at \in Nat, at > ctx, ctx \in Nat,
           NEW kind \in {Future, Delete, Stale}, NEW b \in Targets
    PROVE  LET r == AddTimer(s, at, kind, b)
           IN  /\ r \in Store /\ r.timers = s.timers \cup {TimerOf(at, kind, b)}
               /\ r.entries = s.entries /\ r.index = s.index /\ r.panic = s.panic
<1> DEFINE T == s.timers \cup {TimerOf(at, kind, b)}
<1>1. T \in SUBSET Timer
  BY StoreFields, TimerFields
<1>2. AddTimer(s, at, kind, b) = [s EXCEPT !.timers = T]
  BY DEF AddTimer, TimerOf, Store
<1> HIDE DEF T
<1>3. LET r == [s EXCEPT !.timers = T]
      IN  /\ r \in Store /\ r.timers = T /\ r.entries = s.entries
          /\ r.index = s.index /\ r.panic = s.panic
  BY <1>1, StoreTimers
<1> QED BY <1>2, <1>3 DEF T

LEMMA AddFuture ==
    ASSUME NEW s \in Store, ctx \in Nat, NEW x \in Targets, x > ctx
    PROVE  LET r == AddTimer(s, x, Future, x)
           IN  /\ r \in Store /\ r.timers = s.timers \cup {TimerOf(x, Future, x)}
               /\ r.entries = s.entries /\ r.index = s.index /\ r.panic = s.panic
  BY AddTimerIs, Bounds

LEMMA AddDelete ==
    ASSUME NEW s \in Store, ctx \in Nat, NEW at \in Nat, at > ctx, NEW b \in Targets
    PROVE  LET r == AddTimer(s, at, Delete, b)
           IN  /\ r \in Store /\ r.timers = s.timers \cup {TimerOf(at, Delete, b)}
               /\ r.entries = s.entries /\ r.index = s.index /\ r.panic = s.panic
  BY AddTimerIs

\* A timer that is there is removed.
LEMMA DelTimerIs ==
    ASSUME NEW s \in Store, NEW t \in s.timers
    PROVE  /\ LET r == [s EXCEPT !.timers = @ \ {t}]
              IN  /\ r \in Store /\ r.timers = s.timers \ {t}
                  /\ r.entries = s.entries /\ r.index = s.index /\ r.panic = s.panic
           /\ DelTimer(s, t.at, t.kind, t.block) = [s EXCEPT !.timers = @ \ {t}]
<1> DEFINE T == s.timers \ {t}
<1>1. T \in SUBSET Timer /\ t \in Timer
  BY StoreFields
<1>2. [s EXCEPT !.timers = @ \ {t}] = [s EXCEPT !.timers = T]
  BY DEF Store
<1>3. t = TimerOf(t.at, t.kind, t.block)
  BY <1>1, TimerFields
<1>4. DelTimer(s, t.at, t.kind, t.block) = [s EXCEPT !.timers = @ \ {t}]
  BY <1>3 DEF DelTimer, TimerOf
<1>5. T = s.timers \ {t}
  OBVIOUS
<1> HIDE DEF T
<1>6. LET r == [s EXCEPT !.timers = T]
      IN  /\ r \in Store /\ r.timers = T /\ r.entries = s.entries
          /\ r.index = s.index /\ r.panic = s.panic
  BY <1>1, StoreTimers
<1> QED BY <1>2, <1>4, <1>5, <1>6

\* r is s after a reference to version b, of record e, is put back.
Releases(s, r, b, e) ==
    /\ r \in Store /\ r.panic = s.panic /\ r.index = s.index
    /\ Versions(r) = Versions(s)
    /\ \A c \in Versions(s) \ {b} : r.entries[c] = s.entries[c]
    /\ r.entries[b].latest = e.latest /\ r.entries[b].deleteAt = e.deleteAt
    /\ r.entries[b].refcount = e.refcount - 1
    /\ r.entries[b].refcount = 0 =>
         /\ r.entries[b].staleAt > ctx
         /\ TimerOf(r.entries[b].staleAt, Stale, b) \in r.timers
    /\ s.timers \subseteq r.timers
    /\ \A t \in r.timers \ s.timers : t.kind = Stale /\ t.at > ctx

LEMMA PutEntryIs ==
    ASSUME NEW s \in Store, ctx \in Blocks, NEW b \in Versions(s), b <= ctx,
           NEW e \in Entries(Data), e.refcount > 0
    PROVE  Releases(s, PutEntry(s, b, e), b, e)
<1>1. b \in Targets /\ ctx \in Nat /\ b \in Nat /\ e.refcount \in Nat /\ StaleBlocks \in Nat /\ StaleBlocks > 0
  BY StoreFields, Bounds, EntryFields
<1> DEFINE d == [e EXCEPT !.refcount = @ - 1]
<1>2. /\ d \in Entries(Data) /\ d.refcount = e.refcount - 1 /\ d.latest = e.latest
      /\ d.deleteAt = e.deleteAt
  BY <1>1 DEF Entries
<1>3. CASE e.refcount - 1 > 0
  <2>1. PutEntry(s, b, e) = SetEntry(s, b, d)
    BY <1>1, <1>2, <1>3 DEF PutEntry
  <2> HIDE DEF d
  <2>2. LET r == SetEntry(s, b, d)
        IN  Rewrites(s, r, b, d) /\ r.timers = s.timers /\ r.index = s.index
    BY <1>1, <1>2, SetEntryIs
  <2> QED BY <1>1, <1>2, <1>3, <2>1, <2>2 DEF Rewrites, Releases
<1>4. CASE ~ (e.refcount - 1 > 0)
  <2> DEFINE at == ctx + StaleBlocks
             d2 == [d EXCEPT !.staleAt = at]
             u == AddTimer(s, at, Stale, b)
  <2>1. PutEntry(s, b, e) = SetEntry(u, b, d2)
    <3>1. ~ (e.refcount = 0) /\ ~ (d.refcount > 0) /\ ~ (b > ctx)
      BY <1>1, <1>2, <1>4
    <3>2. PutEntry(s, b, e) = IF e.refcount = 0 THEN Panic(s)
        ELSE IF d.refcount > 0 THEN SetEntry(s, b, d)
        ELSE IF b > ctx THEN CancelFuture(s, {b})
        ELSE SetEntry(u, b, d2)
      BY DEF PutEntry
    <3> HIDE DEF d, u, d2, at
    <3> QED BY <3>1, <3>2
  <2>2. at \in Nat /\ at > ctx
    BY <1>1
  <2>3. /\ d2 \in Entries(Data) /\ d2.refcount = e.refcount - 1 /\ d2.latest = e.latest
        /\ d2.deleteAt = e.deleteAt /\ d2.staleAt = at
    <3> HIDE DEF d, at
    <3> QED BY <1>2, <2>2 DEF Entries
  <2>4. /\ u \in Store /\ u.timers = s.timers \cup {TimerOf(at, Stale, b)}
        /\ u.entries = s.entries /\ u.index = s.index /\ u.panic = s.panic
    <3> HIDE DEF at
    <3> QED BY <1>1, <2>2, AddTimerIs
  <2> HIDE DEF d, d2, u, at
  <2>5. LET r == SetEntry(u, b, d2)
        IN  Rewrites(u, r, b, d2) /\ r.timers = u.timers /\ r.index = u.index
    BY <1>1, <2>3, <2>4, SetEntryIs
  <2>6. TimerOf(at, Stale, b).kind = Stale /\ TimerOf(at, Stale, b).at = at
    BY TimerFields
  <2> QED BY <1>1, <2>1, <2>2, <2>3, <2>4, <2>5, <2>6 DEF Rewrites, Releases, Versions
<1> QED BY <1>3, <1>4

\* Version b, which waits for its timer, is cancelled.
LEMMA CancelIs ==
    ASSUME NEW s \in Store, NEW b \in Waiting(s)
    PROVE  LET r == CancelFuture(s, {b})
           IN  /\ r \in Store /\ r.panic = s.panic /\ r.timers = s.timers \ {TimerOf(b, Future, b)}
               /\ Versions(r) = Versions(s) \ {b}
               /\ \A c \in Versions(r) : r.entries[c] = s.entries[c]
               /\ r.index = IF Versions(r) = {} THEN "absent" ELSE s.index
<1> DEFINE own == {[at |-> c, kind |-> Future, block |-> c] : c \in {b}}
           V == Versions(s) \ {b}
           rest == Restrict(s.entries, V)
           x == IF DOMAIN rest = {} THEN "absent" ELSE s.index
           T == s.timers \ own
<1>1. own = {TimerOf(b, Future, b)} /\ own \subseteq s.timers
  BY DEF Waiting, TimerOf
<1>2. V \in SUBSET Targets /\ rest \in [V -> Entries(Data)] /\ DOMAIN rest = V
      /\ \A c \in V : rest[c] = s.entries[c]
  BY StoreFields DEF Restrict
<1>3. T \in SUBSET Timer
  BY StoreFields
<1>4. x \in {"absent", "live", "dead"}
  BY StoreFields
<1>5. CancelFuture(s, {b}) = [s EXCEPT !.timers = T, !.entries = rest, !.index = x]
  <2>1. CancelFuture(s, {b}) = IF {b} = {} THEN s
        ELSE IF ~(own \subseteq s.timers) THEN Panic(s)
        ELSE [s EXCEPT !.timers = @ \ own, !.entries = rest,
                       !.index = IF DOMAIN rest = {} THEN "absent" ELSE @]
    BY DEF CancelFuture
  <2>2. [s EXCEPT !.timers = @ \ own, !.entries = rest,
                       !.index = IF DOMAIN rest = {} THEN "absent" ELSE @]
        = [s EXCEPT !.timers = T, !.entries = rest, !.index = x]
    <3> HIDE DEF own, rest
    <3> QED BY DEF Store
  <2> HIDE DEF own, rest, T, x
  <2> QED BY <1>1, <2>1, <2>2
<1> HIDE DEF own, rest, T, x
<1> DEFINE r == [s EXCEPT !.timers = T, !.entries = rest, !.index = x]
<1>6. r \in Store /\ r.panic = s.panic /\ r.timers = T /\ r.entries = rest /\ r.index = x
  <2>1. rest \in UNION {[W -> Entries(Data)] : W \in SUBSET Targets}
    BY <1>2
  <2> QED BY <1>3, <1>4, <2>1 DEF Store
<1> HIDE DEF r
<1>7. Versions(r) = V
  BY <1>2, <1>6 DEF Versions
<1> QED BY <1>1, <1>2, <1>5, <1>6, <1>7 DEF r, T, x

-----------------------------------------------------------------------------
(* Lookups. *)

LEMMA NearestMax ==
    ASSUME NEW s \in Store, NEW block \in Int, NEW m \in Versions(s), m <= block,
           \A c \in Versions(s) : c <= block => c <= m
    PROVE  Nearest(s, block) =
             IF IsStaleBy(s.entries[m], ctx) /\ ~IsDeletedBy(s.entries[m], block) THEN NoBlock ELSE m
<1> DEFINE S == {b \in Versions(s) : b <= block}
<1>1. \A c \in S : c \in Int /\ m >= c
  BY StoreFields, Bounds
<1>2. m \in S
  OBVIOUS
<1> HIDE DEF S
<1>3. Max(S) = m
  BY <1>1, <1>2 DEF Max
<1>4. S # {}
  BY <1>2
<1> QED BY <1>3, <1>4 DEF Nearest, S

LEMMA NearestNone ==
    ASSUME NEW s \in Store, NEW block \in Int, \A c \in Versions(s) : ~(c <= block)
    PROVE  Nearest(s, block) = NoBlock
<1>1. {b \in Versions(s) : b <= block} = {}
  OBVIOUS
<1> QED BY <1>1 DEF Nearest

\* A non-empty set of versions has a newest and an oldest one.
LEMMA NewestOf ==
    ASSUME NEW W \in SUBSET Targets, W # {}
    PROVE  \E m \in W : \A c \in W : c <= m
<1> DEFINE n == 2 * MaxBlock
           U == {n - x : x \in W}
<1>1. \A x \in W : x \in Int /\ n - x \in Nat
  BY BlockAssumption DEF Targets
<1>2. U \in SUBSET Nat /\ U # {}
  BY <1>1
<1>3. PICK m \in U : \A u \in U : m <= u
  <2> HIDE DEF U
  <2> QED BY <1>2, LeastNumber
<1>4. PICK x \in W : m = n - x
  BY <1>3
<1>5. ASSUME NEW y \in W PROVE y <= x
  <2>1. x \in Int /\ y \in Int /\ n \in Int
    BY <1>1, BlockAssumption
  <2>2. n - x <= n - y
    BY <1>3, <1>4
  <2> HIDE DEF n
  <2> QED BY <2>1, <2>2
<1> QED BY <1>5

LEMMA OldestOf ==
    ASSUME NEW W \in SUBSET Targets, W # {}
    PROVE  \E m \in W : \A c \in W : m <= c
<1>1. W \in SUBSET Nat
  BY Bounds
<1> QED BY <1>1, LeastNumber

-----------------------------------------------------------------------------
(* The steps keep the invariant.  What does not touch the marks first. *)

Marked(s, r) ==
    /\ r \in Store /\ r.panic = s.panic /\ r.index = s.index /\ Versions(r) = Versions(s)
    /\ \A c \in Versions(s) : /\ r.entries[c].latest = s.entries[c].latest
                              /\ r.entries[c].deleteAt = s.entries[c].deleteAt
    /\ s.timers \subseteq r.timers
    /\ \A t \in r.timers \ s.timers : t.kind = Stale /\ t.at > ctx

LEMMA SameWaiting ==
    ASSUME NEW s, NEW r, Versions(r) = Versions(s), s.timers \subseteq r.timers,
           \A t \in r.timers \ s.timers : t.kind = Stale
    PROVE  Waiting(r) = Waiting(s) /\ Started(r) = Started(s)
<1>1. \A b : TimerOf(b, Future, b) \in r.timers <=> TimerOf(b, Future, b) \in s.timers
  BY TimerFields, Kinds
<1> QED BY <1>1 DEF Waiting, Started

LEMMA SameMarks ==
    ASSUME NEW s, NEW r, NEW h, NEW g \in [Targets -> Nat], Good(s, h, ctx), Marked(s, r),
           \A c \in Waiting(s) : g[c] = 0
    PROVE  /\ Waiting(r) = Waiting(s) /\ Shape(r, g, ctx) /\ Plan(r, ctx) /\ Fresh(r, g, ctx)
           /\ Newest(r, ctx) /\ Deletes(r, ctx) /\ Indexed(r)
<1>1. Waiting(r) = Waiting(s) /\ Started(r) = Started(s)
  BY SameWaiting DEF Marked
<1>2. Shape(r, g, ctx)
  BY DEF Good, Shape, Marked
<1>3. s \in Store /\ Versions(s) \in SUBSET Targets /\ ctx \in Nat
  BY StoreFields, Bounds DEF Good, Shape
<1>4. \A t \in r.timers : t \in s.timers \/ (t.kind = Stale /\ t.at > ctx)
  BY DEF Marked
<1>5. Plan(r, ctx)
  <2>1. \A t \in r.timers : t.at \in Nat /\ t.kind \in {Future, Delete, Stale}
    BY StoreFields, TimerFields DEF Marked
  <2>2. \A t \in r.timers : t.at >= ctx
    BY <1>3, <1>4, <2>1 DEF Good, Plan
  <2>3. \A t \in r.timers : t.kind # Stale => t \in s.timers
    BY <1>4
  <2>4. \A t, u \in r.timers : t.kind # Stale /\ u.kind # Stale => t = u
    BY <2>3 DEF Good, Plan
  <2>5. \A t \in r.timers : t.kind # Stale => t.at \in Targets /\ Planned(t.at, ctx)
    BY <2>3 DEF Good, Plan
  <2>6. \A t \in r.timers : t.kind = Future => t.block \in Versions(r) /\ t.at = t.block
    BY <2>3, Kinds DEF Good, Plan, Marked
  <2>7. \A t \in r.timers : t.kind = Delete =>
         t.block \in Versions(r) /\ r.entries[t.block].latest /\ r.entries[t.block].deleteAt = t.at
    BY <2>3, Kinds DEF Good, Plan, Marked
  <2> QED BY <2>2, <2>4, <2>5, <2>6, <2>7 DEF Plan
<1>6. Fresh(r, g, ctx)
  BY <1>1 DEF Good, Fresh, Marked, Waiting
<1>7. Newest(r, ctx)
  BY <1>1 DEF Good, Newest, Marked, Started
<1>8. Deletes(r, ctx)
  BY <1>1 DEF Good, Deletes, Marked
<1>9. Indexed(r)
  BY <1>1 DEF Good, Indexed, Marked
<1> QED BY <1>1, <1>2, <1>5, <1>6, <1>7, <1>8, <1>9

LEMMA EntryOf ==
    ASSUME NEW s, NEW h, Good(s, h, ctx), NEW b \in Versions(s)
    PROVE  /\ s \in Store /\ ~s.panic /\ b \in Targets /\ s.entries[b] \in Entries(Data)
           /\ ctx \in Blocks /\ ctx \in Nat /\ b \in Nat /\ h[b] \in Nat /\ h \in [Targets -> Nat]
           /\ s.entries[b].refcount \in Nat /\ s.entries[b].staleAt \in Nat
           /\ s.entries[b].deleteAt \in Nat /\ s.entries[b].latest \in BOOLEAN
<1>1. s \in Store /\ ~s.panic /\ h \in [Targets -> Nat] /\ ctx \in Blocks
  BY DEF Good, Shape
<1>2. b \in Targets /\ s.entries[b] \in Entries(Data)
  BY <1>1, StoreFields
<1> QED BY <1>1, <1>2, EntryFields, Bounds

LEMMA ReleaseFresh ==
    ASSUME NEW s \in Store, ctx \in Nat, NEW r, NEW e, NEW b \in Versions(s), Releases(s, r, b, e)
    PROVE  ~IsStaleBy(r.entries[b], ctx)
<1>1. r.entries[b].staleAt \in Nat
  BY EntryFields, StoreFields DEF Releases
<1> QED BY <1>1 DEF Releases, IsStaleBy

\* A released version is not stale yet and has its timer if it will be.
LEMMA ReleaseScanned ==
    ASSUME NEW s \in Store, Scanned(s, ctx), ctx \in Nat, NEW r, NEW e, NEW b \in Versions(s),
           Releases(s, r, b, e)
    PROVE  Scanned(r, ctx)
<1>1. /\ Versions(r) = Versions(s) /\ s.timers \subseteq r.timers
      /\ \A c \in Versions(s) \ {b} : r.entries[c] = s.entries[c]
      /\ r.entries[b].refcount = 0 =>
           r.entries[b].staleAt > ctx /\ TimerOf(r.entries[b].staleAt, Stale, b) \in r.timers
  BY DEF Releases
<1>3. ~IsStaleBy(r.entries[b], ctx)
  BY ReleaseFresh
<1>4. \A c \in Versions(r) : r.entries[c].refcount = 0 /\ r.entries[c].staleAt > ctx =>
         TimerOf(r.entries[c].staleAt, Stale, c) \in r.timers
  BY <1>1 DEF Scanned
<1>5. \/ \E t \in r.timers : t.kind = Stale /\ t.at <= ctx
      \/ \A c \in Versions(r) : (\A d \in Versions(r) : c <= d) => ~IsStaleBy(r.entries[c], ctx)
  BY <1>1, <1>3 DEF Scanned
<1> QED BY <1>4, <1>5 DEF Scanned

LEMMA ModifyKeeps ==
    ASSUME NEW s, NEW h, Good(s, h, ctx), NEW b \in Versions(s), NEW d \in Data
    PROVE  Good(ModifyEntry(s, b, d), h, ctx) /\ SamePast(s, ModifyEntry(s, b, d), ctx)
<1> DEFINE e == [s.entries[b] EXCEPT !.data = d]
           r == SetEntry(s, b, e)
<1>0. s \in Store /\ b \in Targets /\ s.entries[b] \in Entries(Data) /\ h \in [Targets -> Nat]
  BY EntryOf
<1>1. /\ e \in Entries(Data) /\ e.latest = s.entries[b].latest /\ e.deleteAt = s.entries[b].deleteAt
      /\ e.refcount = s.entries[b].refcount /\ e.staleAt = s.entries[b].staleAt
  BY <1>0 DEF Entries
<1>2. ModifyEntry(s, b, d) = r
  BY DEF ModifyEntry
<1> HIDE DEF e
<1>3. Rewrites(s, r, b, e) /\ r.timers = s.timers /\ r.index = s.index
  BY <1>0, <1>1, SetEntryIs
<1> HIDE DEF r
<1>4. /\ Versions(r) = Versions(s)
      /\ \A c \in Versions(s) : /\ r.entries[c].latest = s.entries[c].latest
                                /\ r.entries[c].deleteAt = s.entries[c].deleteAt
                                /\ r.entries[c].refcount = s.entries[c].refcount
                                /\ r.entries[c].staleAt = s.entries[c].staleAt
  BY <1>1, <1>3 DEF Rewrites
<1>5. Marked(s, r)
  BY <1>3, <1>4 DEF Marked, Rewrites
<1>6. \A c \in Waiting(s) : h[c] = 0
  BY DEF Good, Fresh
<1>7. /\ Waiting(r) = Waiting(s) /\ Shape(r, h, ctx) /\ Plan(r, ctx) /\ Fresh(r, h, ctx)
      /\ Newest(r, ctx) /\ Deletes(r, ctx) /\ Indexed(r)
  BY <1>0, <1>5, <1>6, SameMarks
<1>8. Counted(r, h)
  BY <1>4, <1>7 DEF Good, Counted
<1>9. Scanned(r, ctx)
  BY <1>3, <1>4 DEF Good, Scanned, IsStaleBy
<1>10. SamePast(s, r, ctx)
  BY <1>4 DEF SamePast, IsStaleBy, IsDeletedBy
<1> QED BY <1>2, <1>7, <1>8, <1>9, <1>10 DEF Good

LEMMA GetKeeps ==
    ASSUME NEW s, NEW h, Good(s, h, ctx), NEW b \in Versions(s), s.entries[b].latest
    PROVE  LET r == SetEntry(s, b, [s.entries[b] EXCEPT !.refcount = @ + 1])
           IN  Good(r, [h EXCEPT ![b] = @ + 1], ctx) /\ SamePast(s, r, ctx)
<1> DEFINE e == [s.entries[b] EXCEPT !.refcount = @ + 1]
           r == SetEntry(s, b, e)
           g == [h EXCEPT ![b] = @ + 1]
<1>0. /\ s \in Store /\ b \in Targets /\ s.entries[b] \in Entries(Data) /\ h \in [Targets -> Nat]
      /\ s.entries[b].refcount \in Nat /\ h[b] \in Nat
  BY EntryOf
<1>1. /\ e \in Entries(Data) /\ e.latest = s.entries[b].latest /\ e.deleteAt = s.entries[b].deleteAt
      /\ e.refcount = s.entries[b].refcount + 1
  BY <1>0, ReferencedEntry
<1>2. g \in [Targets -> Nat] /\ g[b] = h[b] + 1 /\ \A c \in Targets \ {b} : g[c] = h[c]
  BY <1>0
<1> HIDE DEF e, g
<1>3. Rewrites(s, r, b, e) /\ r.timers = s.timers /\ r.index = s.index
  BY <1>0, <1>1, SetEntryIs
<1> HIDE DEF r
<1>4. /\ Versions(r) = Versions(s) /\ Versions(s) \in SUBSET Targets
      /\ \A c \in Versions(s) : /\ r.entries[c].latest = s.entries[c].latest
                                /\ r.entries[c].deleteAt = s.entries[c].deleteAt
  BY <1>0, <1>1, <1>3, StoreFields DEF Rewrites
<1>5. Marked(s, r)
  BY <1>3, <1>4 DEF Marked, Rewrites
<1>6. \A c \in Waiting(s) : g[c] = 0
  <2>1. \A c \in Waiting(s) : h[c] = 0 /\ c # b /\ c \in Targets
    BY <1>4 DEF Good, Fresh, Waiting
  <2> QED BY <1>2, <2>1
<1>7. /\ Waiting(r) = Waiting(s) /\ Shape(r, g, ctx) /\ Plan(r, ctx) /\ Fresh(r, g, ctx)
      /\ Newest(r, ctx) /\ Deletes(r, ctx) /\ Indexed(r)
  BY <1>2, <1>5, <1>6, SameMarks
<1>8. Counted(r, g)
  <2>1. ASSUME NEW c \in Versions(r)
        PROVE  r.entries[c].refcount = g[c] + (IF r.entries[c].latest \/ c \in Waiting(r) THEN 1 ELSE 0)
    <3>1. CASE c = b
      <4>1. s.entries[b].refcount = h[b] + 1
        BY DEF Good, Counted
      <4>2. r.entries[b].refcount = s.entries[b].refcount + 1 /\ r.entries[b].latest
        BY <1>1, <1>3, <1>4 DEF Rewrites
      <4> QED BY <1>0, <1>2, <3>1, <4>1, <4>2
    <3>2. CASE c # b
      <4>1. r.entries[c] = s.entries[c] /\ g[c] = h[c] /\ c \in Versions(s)
        BY <1>2, <1>3, <1>4, <3>2 DEF Rewrites
      <4> QED BY <1>7, <4>1 DEF Good, Counted
    <3> QED BY <3>1, <3>2
  <2>2. ASSUME NEW c \in Targets, g[c] > 0 PROVE c \in Versions(r)
    <3>1. c = b \/ h[c] > 0
      BY <1>2, <2>2
    <3> QED BY <1>4, <3>1 DEF Good, Counted
  <2> QED BY <2>1, <2>2 DEF Counted
<1>9. Scanned(r, ctx)
  <2>1. r.entries[b].refcount # 0
    BY <1>0, <1>1, <1>3 DEF Rewrites
  <2>2. \A c \in Versions(s) \ {b} : r.entries[c] = s.entries[c]
    BY <1>3 DEF Rewrites
  <2> QED BY <1>3, <1>4, <2>1, <2>2 DEF Good, Scanned, IsStaleBy
<1>10. SamePast(s, r, ctx)
  <2>1. ~IsStaleBy(s.entries[b], ctx)
    <3>1. s.entries[b].refcount = h[b] + 1
      BY DEF Good, Counted
    <3> QED BY <1>0, <3>1 DEF IsStaleBy
  <2>2. ~IsStaleBy(r.entries[b], ctx)
    BY <1>0, <1>1, <1>3 DEF Rewrites, IsStaleBy
  <2>3. \A c \in Versions(s) \ {b} : r.entries[c] = s.entries[c]
    BY <1>3 DEF Rewrites
  <2> QED BY <1>4, <2>1, <2>2, <2>3 DEF SamePast, IsDeletedBy
<1> QED BY <1>7, <1>8, <1>9, <1>10 DEF Good, e, r, g

LEMMA PutKeeps ==
    ASSUME NEW s, NEW h, Good(s, h, ctx), NEW b \in Targets, h[b] > 0
    PROVE  /\ Good(PutReference(s, b), [h EXCEPT ![b] = @ - 1], ctx)
           /\ SamePast(s, PutReference(s, b), ctx)
<1> DEFINE e == s.entries[b]
           r == PutEntry(s, b, e)
           g == [h EXCEPT ![b] = @ - 1]
<1>0. b \in Versions(s)
  BY DEF Good, Counted
<1>1. /\ s \in Store /\ e \in Entries(Data) /\ h \in [Targets -> Nat] /\ ctx \in Blocks
      /\ e.refcount \in Nat /\ h[b] \in Nat /\ e.latest \in BOOLEAN
  BY <1>0, EntryOf
<1>2. g \in [Targets -> Nat] /\ g[b] = h[b] - 1 /\ \A c \in Targets \ {b} : g[c] = h[c]
  BY <1>1
<1>3. b \notin Waiting(s) /\ b \in Started(s) /\ b <= ctx
  <2>1. b \notin Waiting(s)
    BY <1>1 DEF Good, Fresh
  <2> QED BY <1>0, <2>1 DEF Good, Fresh, Started
<1>4. e.refcount = h[b] + (IF e.latest THEN 1 ELSE 0)
  BY <1>0, <1>3 DEF Good, Counted
<1>5. e.refcount > 0 /\ ~(e.latest /\ e.refcount = 1)
  BY <1>1, <1>4
<1>6. PutReference(s, b) = r
  BY <1>0, <1>5 DEF PutReference
<1>7. Releases(s, r, b, e)
  BY <1>0, <1>1, <1>3, <1>5, PutEntryIs
<1> HIDE DEF r, g
<1>8. /\ Versions(r) = Versions(s) /\ Versions(s) \in SUBSET Targets
      /\ \A c \in Versions(s) : /\ r.entries[c].latest = s.entries[c].latest
                                /\ r.entries[c].deleteAt = s.entries[c].deleteAt
  BY <1>1, <1>7, StoreFields DEF Releases
<1>9. Marked(s, r)
  BY <1>7, <1>8 DEF Marked, Releases
<1>10. \A c \in Waiting(s) : g[c] = 0
  <2>1. \A c \in Waiting(s) : h[c] = 0 /\ c # b /\ c \in Targets
    BY <1>3, <1>8 DEF Good, Fresh, Waiting
  <2> QED BY <1>2, <2>1
<1>11. /\ Waiting(r) = Waiting(s) /\ Shape(r, g, ctx) /\ Plan(r, ctx) /\ Fresh(r, g, ctx)
       /\ Newest(r, ctx) /\ Deletes(r, ctx) /\ Indexed(r)
  BY <1>2, <1>9, <1>10, SameMarks
<1>12. Counted(r, g)
  <2>1. ASSUME NEW c \in Versions(r)
        PROVE  r.entries[c].refcount = g[c] + (IF r.entries[c].latest \/ c \in Waiting(r) THEN 1 ELSE 0)
    <3>1. CASE c = b
      <4>1. r.entries[b].refcount = e.refcount - 1 /\ r.entries[b].latest = e.latest
        BY <1>7 DEF Releases
      <4> HIDE DEF e
      <4> QED BY <1>1, <1>2, <1>3, <1>4, <1>11, <3>1, <4>1
    <3>2. CASE c # b
      <4>1. r.entries[c] = s.entries[c] /\ g[c] = h[c] /\ c \in Versions(s)
        BY <1>2, <1>7, <1>8, <3>2 DEF Releases
      <4> QED BY <1>11, <4>1 DEF Good, Counted
    <3> QED BY <3>1, <3>2
  <2>2. ASSUME NEW c \in Targets, g[c] > 0 PROVE c \in Versions(r)
    <3>1. c = b \/ h[c] > 0
      BY <1>2, <2>2
    <3> QED BY <1>0, <1>8, <3>1 DEF Good, Counted
  <2> QED BY <2>1, <2>2 DEF Counted
<1>13. Scanned(r, ctx)
  <2>1. Scanned(s, ctx) /\ ctx \in Nat
    BY <1>1, Bounds DEF Good
  <2> HIDE DEF e
  <2> QED BY <1>0, <1>1, <1>7, <2>1, ReleaseScanned
<1>14. SamePast(s, r, ctx)
  <2>1. ~IsStaleBy(s.entries[b], ctx)
    BY <1>1, <1>5 DEF IsStaleBy
  <2>2. ~IsStaleBy(r.entries[b], ctx)
    BY <1>0, <1>1, <1>7, Bounds, ReleaseFresh
  <2>3. \A c \in Versions(s) \ {b} : r.entries[c] = s.entries[c]
    BY <1>7 DEF Releases
  <2> QED BY <1>8, <2>1, <2>2, <2>3 DEF SamePast, IsDeletedBy
<1> QED BY <1>6, <1>11, <1>12, <1>13, <1>14 DEF Good, g

-----------------------------------------------------------------------------
(* A new block, and the timers. *)

LEMMA NewBlockKeeps ==
    ASSUME NEW s, NEW h, NEW now \in Blocks, Good(s, h, now), now + 1 \in Blocks,
           \A t \in s.timers : t.at > now
    PROVE  Good(s, h, now + 1)
<1>1. /\ s \in Store /\ now \in Nat /\ Versions(s) \in SUBSET Targets /\ s.timers \in SUBSET Timer
      /\ \A b \in Targets : b \in Nat
  BY StoreFields, Bounds DEF Good, Shape
<1>2. \A t \in s.timers : t.at \in Nat /\ t.at >= now + 1
  BY <1>1, TimerFields
<1>3. Shape(s, h, now + 1)
  BY DEF Good, Shape
<1>4. Plan(s, now + 1)
  <2>1. ASSUME NEW x, Planned(x, now) PROVE Planned(x, now + 1)
    <3>1. \A c \in Blocks : c \in Nat
      BY Bounds
    <3>2. \A c \in Blocks : now + 1 <= c => now <= c
      BY <1>1, <3>1
    <3> QED BY <2>1, <3>2 DEF Planned
  <2> QED BY <1>2, <2>1 DEF Good, Plan
<1>5. \A b \in Versions(s) : /\ b \in Nat /\ s.entries[b].deleteAt \in Nat /\ s.entries[b].staleAt \in Nat
                             /\ s.entries[b].refcount \in Nat
  BY <1>1, StoreFields, EntryFields
<1>6. Fresh(s, h, now + 1)
  <2>1. \A b \in Started(s) : b <= now /\ b \in Nat
    BY <1>5 DEF Good, Fresh, Started
  <2>2. \A b \in Started(s) : b <= now + 1
    BY <1>1, <2>1
  <2> QED BY <2>2 DEF Good, Fresh
<1>7. Newest(s, now + 1)
  <2>1. \A b \in Started(s) : s.entries[b].deleteAt <= now => s.entries[b].deleteAt <= now + 1
    BY <1>1, <1>5 DEF Started
  <2> QED BY <2>1 DEF Good, Newest
<1>8. Deletes(s, now + 1)
  <2>1. \A b \in Versions(s) : s.entries[b].deleteAt <= now => s.entries[b].deleteAt <= now + 1
    BY <1>1, <1>5
  <2> QED BY <2>1 DEF Good, Deletes
<1>9. Scanned(s, now + 1)
  <2>1. \A b \in Versions(s) : s.entries[b].staleAt > now + 1 => s.entries[b].staleAt > now
    BY <1>1, <1>5
  <2>2. ~ \E t \in s.timers : t.kind = Stale /\ t.at <= now
    BY <1>1, <1>2
  <2>3. ASSUME NEW b \in Versions(s), \A c \in Versions(s) : b <= c, IsStaleBy(s.entries[b], now + 1)
        PROVE  \E t \in s.timers : t.kind = Stale /\ t.at <= now + 1
    <3>1. s.entries[b].refcount = 0 /\ s.entries[b].staleAt <= now + 1
      BY <2>3 DEF IsStaleBy
    <3>2. ~IsStaleBy(s.entries[b], now)
      BY <2>2, <2>3 DEF Good, Scanned
    <3>3. s.entries[b].staleAt > now
      BY <1>1, <1>5, <3>1, <3>2 DEF IsStaleBy
    <3>4. TimerOf(s.entries[b].staleAt, Stale, b) \in s.timers
      BY <3>1, <3>3 DEF Good, Scanned
    <3> QED BY <3>1, <3>4, TimerFields
  <2> QED BY <2>1, <2>3 DEF Good, Scanned
<1> QED BY <1>3, <1>4, <1>6, <1>7, <1>8, <1>9 DEF Good

LEMMA DeleteStaleIs ==
    ASSUME NEW s \in Store
    PROVE  LET r == DeleteStale(s)
           IN  /\ r \in Store /\ r.panic = s.panic /\ r.timers = s.timers
               /\ Versions(r) = {b \in Versions(s) : ~Removable(s, b)}
               /\ \A c \in Versions(r) : r.entries[c] = s.entries[c]
               /\ r.index = IF Versions(r) = {} THEN "absent" ELSE s.index
<1> DEFINE V == {b \in Versions(s) : ~Removable(s, b)}
           rest == Restrict(s.entries, V)
           x == IF DOMAIN rest = {} THEN "absent" ELSE s.index
<1>1. V \in SUBSET Targets /\ rest \in [V -> Entries(Data)] /\ DOMAIN rest = V
      /\ \A c \in V : rest[c] = s.entries[c]
  <2>1. V \subseteq Versions(s)
    OBVIOUS
  <2> HIDE DEF V
  <2> QED BY <2>1, StoreFields DEF Restrict
<1>2. x \in {"absent", "live", "dead"}
  BY StoreFields
<1>3. DeleteStale(s) = [s EXCEPT !.entries = rest, !.index = x]
  <2>1. DeleteStale(s) = [s EXCEPT !.entries = rest, !.index = IF DOMAIN rest = {} THEN "absent" ELSE @]
    BY DEF DeleteStale
  <2>2. [s EXCEPT !.entries = rest, !.index = IF DOMAIN rest = {} THEN "absent" ELSE @]
        = [s EXCEPT !.entries = rest, !.index = x]
    <3> HIDE DEF rest
    <3> QED BY DEF Store
  <2> QED BY <2>1, <2>2, Zenon
<1>4. x = IF V = {} THEN "absent" ELSE s.index
  BY <1>1
<1> HIDE DEF V, rest, x
<1> DEFINE r == [s EXCEPT !.entries = rest, !.index = x]
<1>6. r \in Store /\ r.panic = s.panic /\ r.timers = s.timers /\ r.entries = rest /\ r.index = x
  <2>1. rest \in UNION {[W -> Entries(Data)] : W \in SUBSET Targets}
    BY <1>1
  <2> QED BY <1>2, <2>1 DEF Store
<1> HIDE DEF r
<1>7. Versions(r) = V
  BY <1>1, <1>6 DEF Versions
<1> QED BY <1>1, <1>3, <1>4, <1>6, <1>7 DEF r, V

\* What a scan removes is stale; the oldest version it leaves is not.
LEMMA ScanRemoves ==
    ASSUME NEW s \in Store, NEW b \in Versions(s)
    PROVE  /\ Removable(s, b) => IsStaleBy(s.entries[b], ctx)
           /\ ~Removable(s, b) /\ IsStaleBy(s.entries[b], ctx) =>
                \E c \in Versions(s) : c < b /\ ~Removable(s, c)
<1>1. Removable(s, b) => IsStaleBy(s.entries[b], ctx)
  BY DEF Removable, StaleVersions
<1>2. ASSUME ~Removable(s, b), IsStaleBy(s.entries[b], ctx), \A c \in Versions(s) : c < b => Removable(s, c)
      PROVE  FALSE
  <2>1. \A c \in Versions(s) : c < b => c \in StaleVersions(s) /\ ~KeptMarker(s, c)
    BY <1>2 DEF Removable
  <2>2. ~KeptMarker(s, b) /\ b \in StaleVersions(s)
    BY <1>2, <2>1 DEF KeptMarker, StaleVersions
  <2> DEFINE older == {c \in Versions(s) : c < b}
  <2>3. older # {} => Max(older) \in older
    <3>1. older \in SUBSET Targets /\ \A c \in older : c \in Int
      BY StoreFields, Bounds
    <3> HIDE DEF older
    <3>2. SUFFICES ASSUME older # {} PROVE Max(older) \in older
      OBVIOUS
    <3>3. PICK m \in older : \A c \in older : c <= m
      BY <3>1, <3>2, NewestOf
    <3>4. \A c \in older : m >= c
      BY <3>1, <3>3
    <3> QED BY <3>4 DEF Max
  <2>4. older # {} => Max(older) \in StaleVersions(s) /\ ~KeptMarker(s, Max(older))
    BY <2>1, <2>3
  <2> QED BY <1>2, <2>2, <2>4 DEF Removable
<1> QED BY <1>1, <1>2

\* A delete marker goes only with every older version.
LEMMA ScanOfMarker ==
    ASSUME NEW s \in Store, NEW m \in Versions(s), Removable(s, m), HasDeleteAt(s.entries[m])
    PROVE  \A c \in Versions(s) : c <= m => Removable(s, c)
<1>1. \A c \in Versions(s) : c < m => IsStaleBy(s.entries[c], ctx)
  BY DEF Removable, KeptMarker, StaleVersions
<1> DEFINE W == {c \in Versions(s) : c <= m /\ ~Removable(s, c)}
<1>2. SUFFICES ASSUME W # {} PROVE FALSE
  OBVIOUS
<1>3. W \in SUBSET Targets /\ Versions(s) \in SUBSET Targets /\ \A c \in Targets : c \in Int
  BY StoreFields, Bounds
<1>4. PICK c \in W : \A d \in W : c <= d
  <2> HIDE DEF W
  <2> QED BY <1>2, <1>3, OldestOf
<1>5. c \in Versions(s) /\ c < m /\ ~Removable(s, c)
  BY <1>3, <1>4
<1>6. PICK d \in Versions(s) : d < c /\ ~Removable(s, d)
  BY <1>1, <1>5, ScanRemoves
<1>7. d \in W
  BY <1>3, <1>5, <1>6
<1> QED BY <1>3, <1>4, <1>6, <1>7

LEMMA StaleKeeps ==
    ASSUME NEW s, NEW h, Good(s, h, ctx), NEW t \in s.timers, t.kind = Stale, t.at <= ctx
    PROVE  Good(DeleteStale([s EXCEPT !.timers = @ \ {t}]), h, ctx)
<1> DEFINE u == [s EXCEPT !.timers = @ \ {t}]
           r == DeleteStale(u)
<1>1. s \in Store /\ ~s.panic /\ h \in [Targets -> Nat] /\ ctx \in Blocks /\ ctx \in Nat
  BY Bounds DEF Good, Shape
<1>2. u \in Store /\ u.timers = s.timers \ {t} /\ u.entries = s.entries /\ u.index = s.index /\ u.panic = s.panic
  BY <1>1, DelTimerIs
<1> HIDE DEF u
<1>3. /\ r \in Store /\ r.panic = u.panic /\ r.timers = u.timers
      /\ Versions(r) = {b \in Versions(u) : ~Removable(u, b)}
      /\ \A c \in Versions(r) : r.entries[c] = u.entries[c]
      /\ r.index = IF Versions(r) = {} THEN "absent" ELSE u.index
  BY <1>2, DeleteStaleIs
<1> HIDE DEF r
<1>4. /\ Versions(r) \subseteq Versions(s) /\ r.timers = s.timers \ {t} /\ Versions(u) = Versions(s)
      /\ \A c \in Versions(r) : r.entries[c] = s.entries[c]
  BY <1>2, <1>3 DEF Versions
\* Only a version nobody refers to is removed.
<1>5. ASSUME NEW b \in Versions(s) \ Versions(r)
      PROVE  ~s.entries[b].latest /\ b \notin Waiting(s) /\ h[b] = 0
  <2>1. IsStaleBy(s.entries[b], ctx)
    BY <1>2, <1>3, <1>4, ScanRemoves
  <2>2. h[b] \in Nat /\ s.entries[b].refcount = 0
    BY <2>1, EntryOf DEF IsStaleBy
  <2>3. s.entries[b].refcount = h[b] + (IF s.entries[b].latest \/ b \in Waiting(s) THEN 1 ELSE 0)
    BY DEF Good, Counted
  <2>4. s.entries[b].latest \/ b \in Waiting(s) => s.entries[b].refcount = h[b] + 1
    BY <2>3
  <2>5. ~(s.entries[b].latest \/ b \in Waiting(s))
    BY <2>2, <2>4
  <2> QED BY <2>2, <2>3, <2>5
<1>6. Waiting(r) = Waiting(s) /\ Started(r) = Started(s) \cap Versions(r)
  <2>1. \A b : TimerOf(b, Future, b) \in r.timers <=> TimerOf(b, Future, b) \in s.timers
    BY <1>4, TimerFields, Kinds
  <2>2. Waiting(r) = Waiting(s)
    BY <1>4, <1>5, <2>1 DEF Waiting
  <2> QED BY <1>4, <2>2 DEF Started
<1>7. Shape(r, h, ctx)
  BY <1>1, <1>2, <1>3 DEF Shape
<1>8. Plan(r, ctx)
  <2>1. \A x \in r.timers : x.kind = Future => x.block \in Versions(r) /\ x.at = x.block
    <3>1. ASSUME NEW x \in r.timers, x.kind = Future PROVE x.block \in Versions(r) /\ x.at = x.block
      <4>1. x.block \in Versions(s) /\ x.at = x.block /\ x \in Timer /\ x \in s.timers
        BY <1>1, <1>4, <3>1, StoreFields DEF Good, Plan
      <4>2. x = TimerOf(x.block, Future, x.block)
        BY <3>1, <4>1, TimerFields
      <4>3. x.block \in Waiting(s)
        BY <4>1, <4>2 DEF Waiting
      <4> QED BY <1>5, <4>1, <4>3
    <3> QED BY <3>1
  <2>2. \A x \in r.timers : x.kind = Delete =>
         x.block \in Versions(r) /\ r.entries[x.block].latest /\ r.entries[x.block].deleteAt = x.at
    BY <1>4, <1>5 DEF Good, Plan
  <2> QED BY <1>4, <2>1, <2>2 DEF Good, Plan
<1>9. Fresh(r, h, ctx)
  <2>1. Waiting(r) \subseteq Versions(r)
    BY DEF Waiting
  <2> QED BY <1>4, <1>6, <2>1 DEF Good, Fresh
<1>10. Newest(r, ctx)
  <2>1. \A b \in Versions(r) : r.entries[b].latest => b \in Started(r) /\ \A c \in Started(r) : c <= b
    BY <1>4, <1>6 DEF Good, Newest
  <2>2. ASSUME NEW b \in Started(r), \A c \in Started(r) : c <= b
        PROVE  r.entries[b].latest \/ r.entries[b].deleteAt <= ctx
    <3>1. Started(s) \in SUBSET Targets /\ Started(s) # {} /\ Started(s) \subseteq Versions(s)
      BY <1>1, <1>6, <2>2, StoreFields DEF Started
    <3>2. PICK m \in Started(s) : \A c \in Started(s) : c <= m
      BY <3>1, NewestOf
    <3>3. s.entries[m].latest \/ s.entries[m].deleteAt <= ctx
      BY <3>2 DEF Good, Newest
    <3>4. CASE m \in Versions(r)
      <4>1. b <= m /\ m <= b /\ b \in Int /\ m \in Int
        BY <1>6, <2>2, <3>1, <3>2, <3>4, Bounds
      <4>2. b = m
        BY <4>1
      <4> QED BY <1>4, <3>3, <3>4, <4>2
    <3>5. CASE m \notin Versions(r)
      <4>1. Removable(u, m) /\ m \in Versions(u) /\ ~s.entries[m].latest
        BY <1>3, <1>4, <1>5, <3>1, <3>5
      <4>2. HasDeleteAt(u.entries[m])
        <5>1. s.entries[m].deleteAt <= ctx /\ s.entries[m].deleteAt \in Nat
          BY <3>1, <3>3, <4>1, EntryOf
        <5>2. ctx < Never
          BY <1>1, Bounds
        <5> QED BY <1>1, <1>2, <5>1, <5>2, Bounds DEF HasDeleteAt
      <4>3. Removable(u, b)
        BY <1>2, <1>4, <1>6, <3>2, <4>1, <4>2, ScanOfMarker DEF Started
      <4> QED BY <1>3, <4>3 DEF Started
    <3> QED BY <3>4, <3>5
  <2> QED BY <2>1, <2>2 DEF Newest
<1>11. Deletes(r, ctx)
  <2>1. \A at, b : TimerOf(at, Delete, b) \in s.timers => TimerOf(at, Delete, b) \in r.timers
    BY <1>4, TimerFields, Kinds
  <2> QED BY <1>4, <2>1 DEF Good, Deletes
<1>12. Counted(r, h)
  <2>1. \A b \in Targets : h[b] > 0 => b \in Versions(r)
    BY <1>1, <1>5 DEF Good, Counted
  <2> QED BY <1>4, <1>6, <2>1 DEF Good, Counted
<1>13. Indexed(r)
  <2>1. (\E b \in Versions(r) : r.entries[b].latest \/ b \in Waiting(r)) <=>
        (\E b \in Versions(s) : s.entries[b].latest \/ b \in Waiting(s))
    BY <1>4, <1>5, <1>6
  <2> HIDE DEF r
  <2>2. CASE Versions(r) = {}
    BY <1>3, <2>2 DEF Indexed
  <2>3. CASE Versions(r) # {}
    BY <1>2, <1>3, <1>4, <2>1, <2>3 DEF Good, Indexed
  <2> QED BY <2>2, <2>3
<1>14. Scanned(r, ctx)
  <2>1. \A b \in Versions(r) : r.entries[b].refcount = 0 /\ r.entries[b].staleAt > ctx =>
         TimerOf(r.entries[b].staleAt, Stale, b) \in r.timers
    <3>1. ASSUME NEW b \in Versions(r), r.entries[b].refcount = 0, r.entries[b].staleAt > ctx
          PROVE  TimerOf(r.entries[b].staleAt, Stale, b) \in r.timers
      <4>1. TimerOf(r.entries[b].staleAt, Stale, b) \in s.timers
        BY <1>4, <3>1 DEF Good, Scanned
      <4>2. r.entries[b].staleAt \in Nat
        BY <1>4, EntryOf
      <4>3. TimerOf(r.entries[b].staleAt, Stale, b).at > ctx
        BY <3>1, TimerFields
      <4>4. t.at \in Nat
        BY <1>1, StoreFields, TimerFields
      <4>5. TimerOf(r.entries[b].staleAt, Stale, b).at = r.entries[b].staleAt
        BY TimerFields
      <4> QED BY <1>1, <1>4, <3>1, <4>1, <4>2, <4>4, <4>5
    <3> QED BY <3>1
  <2>2. ASSUME NEW b \in Versions(r), \A c \in Versions(r) : b <= c, IsStaleBy(r.entries[b], ctx)
        PROVE  FALSE
    <3>1. PICK c \in Versions(u) : c < b /\ ~Removable(u, c)
      BY <1>2, <1>3, <2>2, ScanRemoves
    <3>2. c \in Versions(r) /\ b \in Int /\ c \in Int
      BY <1>1, <1>3, <1>4, <3>1, StoreFields, Bounds
    <3> QED BY <2>2, <3>1, <3>2
  <2> QED BY <2>1, <2>2 DEF Scanned
<1> QED BY <1>7, <1>8, <1>9, <1>10, <1>11, <1>12, <1>13, <1>14 DEF Good, u, r

LEMMA UnmarkedEntry ==
    ASSUME NEW x \in Entries(Data), NEW l \in BOOLEAN
    PROVE  LET e == [x EXCEPT !.latest = l]
           IN  /\ e \in Entries(Data) /\ e.latest = l /\ e.deleteAt = x.deleteAt
               /\ e.refcount = x.refcount /\ e.staleAt = x.staleAt
  BY DEF Entries

LEMMA OneLatest ==
    ASSUME NEW s, NEW h, Good(s, h, ctx), NEW b \in Versions(s), s.entries[b].latest
    PROVE  /\ b \in Started(s) /\ b \notin Waiting(s) /\ b <= ctx /\ s.entries[b].refcount = h[b] + 1
           /\ \A c \in Started(s) : c <= b
           /\ \A c \in Versions(s) : s.entries[c].latest => c = b
<1>1. b \in Started(s) /\ \A c \in Started(s) : c <= b
  BY DEF Good, Newest
<1>2. b <= ctx /\ s.entries[b].refcount = h[b] + 1
  BY <1>1 DEF Good, Fresh, Counted
<1>3. ASSUME NEW c \in Versions(s), s.entries[c].latest PROVE c = b
  <2>1. c \in Started(s) /\ b <= c
    BY <1>1, <1>3 DEF Good, Newest
  <2>2. c <= b /\ b \in Int /\ c \in Int
    BY <1>1, <2>1, EntryOf
  <2> QED BY <2>1, <2>2
<1> QED BY <1>1, <1>2, <1>3 DEF Started

\* Of the timers that are not for stale versions, t is the only one.
LEMMA OnlyPlan ==
    ASSUME NEW s, NEW h, Good(s, h, ctx), NEW t \in s.timers, t.kind # Stale
    PROVE  /\ \A u \in s.timers \ {t} : u.kind = Stale
           /\ \A b \in Waiting(s) : t.kind = Future /\ t.block = b /\ t = TimerOf(b, Future, b)
           /\ \A b \in Versions(s) : s.entries[b].latest /\ s.entries[b].deleteAt # Never =>
                t.kind = Delete /\ t.block = b
<1>1. \A u \in s.timers : u.kind # Stale => u = t
  BY DEF Good, Plan
<1>2. ASSUME NEW b \in Waiting(s) PROVE t.kind = Future /\ t.block = b /\ t = TimerOf(b, Future, b)
  <2>1. t = TimerOf(b, Future, b)
    BY <1>1, Kinds, TimerFields DEF Waiting
  <2> QED BY <2>1, TimerFields
<1>3. ASSUME NEW b \in Versions(s), s.entries[b].latest, s.entries[b].deleteAt # Never
      PROVE  t.kind = Delete /\ t.block = b
  <2>1. TimerOf(s.entries[b].deleteAt, Delete, b) \in s.timers
    BY <1>3 DEF Good, Deletes
  <2>2. t = TimerOf(s.entries[b].deleteAt, Delete, b)
    BY <1>1, <2>1, Kinds, TimerFields
  <2> QED BY <2>2, TimerFields
<1> QED BY <1>1, <1>2, <1>3

LEMMA DeleteKeeps ==
    ASSUME NEW s, NEW h, Good(s, h, ctx), NEW t \in s.timers, t.kind = Delete, t.at <= ctx
    PROVE  LET r == DeleteMarked([s EXCEPT !.timers = @ \ {t}], t.block)
           IN  Good(r, h, ctx) /\ SamePast(s, r, ctx)
<1> DEFINE u == [s EXCEPT !.timers = @ \ {t}]
           b == t.block
           v == SetIndex(u, "dead")
           e == [u.entries[b] EXCEPT !.latest = FALSE]
           r == PutEntry(v, b, e)
<1>1. s \in Store /\ ~s.panic /\ h \in [Targets -> Nat] /\ ctx \in Blocks /\ ctx \in Nat
  BY Bounds DEF Good, Shape
<1>2. u \in Store /\ u.timers = s.timers \ {t} /\ u.entries = s.entries /\ u.index = s.index /\ u.panic = s.panic
  BY <1>1, DelTimerIs
<1>3. b \in Versions(s) /\ s.entries[b].latest /\ s.entries[b].deleteAt = t.at
  BY DEF Good, Plan
<1>4. /\ b \in Started(s) /\ b \notin Waiting(s) /\ b <= ctx /\ s.entries[b].refcount = h[b] + 1
      /\ \A c \in Started(s) : c <= b
      /\ \A c \in Versions(s) : s.entries[c].latest => c = b
  <2> HIDE DEF b
  <2> QED BY <1>3, OneLatest
<1>5. s.entries[b] \in Entries(Data) /\ h[b] \in Nat
  <2> HIDE DEF b
  <2> QED BY <1>3, EntryOf
<1>6. DeleteMarked(u, b) = r
  BY <1>2, <1>3 DEF DeleteMarked, Versions
<1> HIDE DEF u, b
<1>7. /\ v \in Store /\ v.index = "dead" /\ v.entries = s.entries /\ v.timers = s.timers \ {t}
      /\ v.panic = s.panic /\ Versions(v) = Versions(s)
  <2>1. LET q == SetIndex(u, "dead")
        IN  /\ q \in Store /\ q.index = "dead" /\ q.entries = u.entries
            /\ q.timers = u.timers /\ q.panic = u.panic
    BY <1>2, StoreIndex
  <2> QED BY <1>2, <2>1 DEF Versions
<1> HIDE DEF v
<1>8. e \in Entries(Data) /\ e.latest = FALSE /\ e.deleteAt = t.at /\ e.refcount = h[b] + 1
  <2>1. LET q == [s.entries[b] EXCEPT !.latest = FALSE]
        IN  /\ q \in Entries(Data) /\ q.latest = FALSE /\ q.deleteAt = s.entries[b].deleteAt
            /\ q.refcount = s.entries[b].refcount /\ q.staleAt = s.entries[b].staleAt
    BY <1>5, UnmarkedEntry
  <2> QED BY <1>2, <1>3, <1>4, <2>1
<1> HIDE DEF e
<1>9. Releases(v, r, b, e)
  <2>1. e.refcount > 0
    BY <1>5, <1>8
  <2> QED BY <1>1, <1>3, <1>4, <1>7, <1>8, <2>1, PutEntryIs
<1> HIDE DEF r
<1>10. /\ r \in Store /\ ~r.panic /\ r.index = "dead" /\ Versions(r) = Versions(s)
       /\ \A c \in Versions(s) \ {b} : r.entries[c] = s.entries[c]
       /\ ~r.entries[b].latest /\ r.entries[b].deleteAt = t.at /\ r.entries[b].refcount = h[b]
       /\ \A x \in r.timers : x \in s.timers \ {t} \/ (x.kind = Stale /\ x.at > ctx)
  BY <1>1, <1>5, <1>7, <1>8, <1>9 DEF Releases
<1>11. \A x \in r.timers : x.kind = Stale /\ x.at >= ctx
  <2>1. \A x \in s.timers \ {t} : x.kind = Stale /\ x.at >= ctx
    <3>1. \A x \in s.timers \ {t} : x.kind = Stale
      BY Kinds, OnlyPlan
    <3> QED BY <3>1 DEF Good, Plan
  <2>2. \A x \in r.timers : x.at \in Nat
    BY <1>10, StoreFields, TimerFields
  <2> QED BY <1>1, <1>10, <2>1, <2>2
<1>12. /\ Waiting(r) = {} /\ Waiting(s) = {} /\ Started(r) = Versions(s) /\ Started(s) = Versions(s)
       /\ \A c \in Versions(r) : ~r.entries[c].latest
  <2>1. Waiting(r) = {}
    BY <1>11, Kinds, TimerFields DEF Waiting
  <2>2. Waiting(s) = {}
    BY Kinds, OnlyPlan
  <2> QED BY <1>4, <1>10, <2>1, <2>2 DEF Started
<1>13. Shape(r, h, ctx)
  BY <1>1, <1>10 DEF Shape
<1>14. Plan(r, ctx)
  BY <1>11, Kinds DEF Plan
<1>15. Fresh(r, h, ctx)
  BY <1>12 DEF Good, Fresh
<1>16. Newest(r, ctx)
  <2>1. ASSUME NEW c \in Started(r), \A d \in Started(r) : d <= c PROVE c = b
    <3>1. b <= c /\ c <= b /\ b \in Int /\ c \in Int
      BY <1>3, <1>4, <1>12, <2>1, EntryOf
    <3> QED BY <3>1
  <2> QED BY <1>10, <1>12, <2>1 DEF Newest
<1>17. Deletes(r, ctx)
  <2>1. r.entries[b].deleteAt \in Targets \cup {Never} /\ r.entries[b].deleteAt > b
    BY <1>3, <1>10 DEF Good, Deletes
  <2> QED BY <1>4, <1>10, <2>1 DEF Good, Deletes
<1>18. Counted(r, h)
  <2>1. ASSUME NEW c \in Versions(r) PROVE r.entries[c].refcount = h[c] + 0
    <3>1. CASE c = b
      BY <1>5, <1>10, <3>1
    <3>2. CASE c # b
      BY <1>4, <1>10, <1>12, <3>2 DEF Good, Counted
    <3> QED BY <3>1, <3>2
  <2> QED BY <1>10, <1>12, <2>1 DEF Good, Counted
<1>19. Indexed(r)
  BY <1>3, <1>10, <1>12 DEF Indexed
<1>20. Scanned(r, ctx)
  <2>1. Scanned(v, ctx)
    <3>1. \A at, c : TimerOf(at, Stale, c) \in s.timers => TimerOf(at, Stale, c) \in v.timers
      BY <1>7, Kinds, TimerFields
    <3>2. \A x \in s.timers : x.kind = Stale => x \in v.timers
      BY <1>7, Kinds
    <3> QED BY <1>7, <3>1, <3>2 DEF Good, Scanned
  <2> QED BY <1>1, <1>3, <1>7, <1>9, <2>1, ReleaseScanned
<1>21. SamePast(s, r, ctx)
  <2>1. ~IsStaleBy(s.entries[b], ctx)
    BY <1>4, <1>5 DEF IsStaleBy
  <2>2. ~IsStaleBy(r.entries[b], ctx)
    BY <1>1, <1>3, <1>7, <1>9, ReleaseFresh
  <2> QED BY <1>3, <1>10, <2>1, <2>2 DEF SamePast, IsDeletedBy
<1> QED BY <1>6, <1>13, <1>14, <1>15, <1>16, <1>17, <1>18, <1>19, <1>20, <1>21 DEF Good, u, b

\* r is s with version b as the latest one in place of the one that was, if any.
Takes(s, r, b, t) ==
    /\ r \in Store /\ ~r.panic /\ r.index = s.index /\ Versions(r) = Versions(s)
    /\ r.entries[b].latest /\ r.entries[b].deleteAt = s.entries[b].deleteAt
    /\ r.entries[b].refcount = s.entries[b].refcount
    /\ \A c \in Versions(s) \ {b} :
         /\ ~r.entries[c].latest /\ r.entries[c].deleteAt = s.entries[c].deleteAt
         /\ r.entries[c].refcount = s.entries[c].refcount - (IF s.entries[c].latest THEN 1 ELSE 0)
         /\ IF s.entries[c].latest THEN ~IsStaleBy(r.entries[c], ctx) ELSE r.entries[c] = s.entries[c]
    /\ \A x \in r.timers : x \in s.timers \ {t} \/ (x.kind = Stale /\ x.at > ctx)
    /\ Scanned(r, ctx)

LEMMA TakesOver ==
    ASSUME NEW s, NEW h, Good(s, h, ctx), NEW t \in s.timers, t.kind = Future, t.at <= ctx
    PROVE  Takes(s, MatureEntry([s EXCEPT !.timers = @ \ {t}], t.block), t.block, t)
<1> DEFINE u == [s EXCEPT !.timers = @ \ {t}]
           b == t.block
           prev == Nearest(u, b - 1)
<1>1. s \in Store /\ ~s.panic /\ h \in [Targets -> Nat] /\ ctx \in Blocks /\ ctx \in Nat
  BY Bounds DEF Good, Shape
<1>2. u \in Store /\ u.timers = s.timers \ {t} /\ u.entries = s.entries /\ u.index = s.index /\ u.panic = s.panic
  BY <1>1, DelTimerIs
<1>3. b \in Versions(s) /\ b = ctx /\ t = TimerOf(b, Future, b)
  <2>1. t.at \in Nat /\ t.at >= ctx /\ t.block = t.at /\ b \in Versions(s) /\ t \in Timer
    BY <1>1, Kinds, StoreFields, TimerFields DEF Good, Plan
  <2>2. b = ctx
    BY <1>1, <2>1
  <2> QED BY <2>1, <2>2, TimerFields
<1> HIDE DEF u, b
<1>4. Versions(u) = Versions(s) /\ b \in Waiting(s) /\ b \in Targets /\ b \in Int
  BY <1>1, <1>2, <1>3, StoreFields, Bounds DEF Versions, Waiting
<1>5. ~s.entries[b].latest /\ s.entries[b].deleteAt = Never /\ s.entries[b].refcount = 1
  <2>1. ~s.entries[b].latest /\ s.entries[b].deleteAt = Never /\ h[b] = 0
    BY <1>4 DEF Good, Fresh
  <2>2. s.entries[b].refcount = h[b] + 1
    BY <1>3, <1>4 DEF Good, Counted
  <2> QED BY <2>1, <2>2
<1>6. Started(s) = Versions(s) \ {b}
  <2>1. \A c \in Waiting(s) : c = b
    BY <1>3, Kinds, OnlyPlan, TimerFields DEF b
  <2> QED BY <1>4, <2>1 DEF Started
<1>7. \A c \in Versions(s) : c <= b - 1 <=> c \in Started(s)
  <2>1. \A c \in Versions(s) : c \in Int
    BY <1>1, StoreFields, Bounds
  <2>2. \A c \in Started(s) : c <= b /\ c # b
    BY <1>3, <1>6 DEF Good, Fresh
  <2> QED BY <1>4, <1>6, <2>1, <2>2
<1>8. Scanned(u, ctx)
  <2>1. \A at, c : TimerOf(at, Stale, c) \in s.timers => TimerOf(at, Stale, c) \in u.timers
    BY <1>2, Kinds, TimerFields
  <2>2. \A x \in s.timers : x.kind = Stale => x \in u.timers
    BY <1>2, Kinds
  <2> QED BY <1>2, <1>4, <2>1, <2>2 DEF Good, Scanned
<1> DEFINE drop == IF ~(prev # NoBlock /\ u.entries[prev].latest) THEN u
                   ELSE PutEntry(u, prev, [u.entries[prev] EXCEPT !.latest = FALSE])
           r == SetEntry(drop, b, [drop.entries[b] EXCEPT !.latest = TRUE])
<1>9. MatureEntry(u, b) =
        IF \/ prev # NoBlock /\ u.entries[prev].latest /\ IsDeletedBy(u.entries[prev], b)
           \/ b \notin Versions(drop)
        THEN Panic(u) ELSE r
  BY DEF MatureEntry
\* The version that was the latest, if any, is released.
<1>10. /\ drop \in Store /\ ~drop.panic /\ drop.index = s.index /\ Versions(drop) = Versions(s)
       /\ drop.entries[b] = s.entries[b] /\ Scanned(drop, ctx)
       /\ \A c \in Versions(s) \ {b} :
            /\ ~drop.entries[c].latest /\ drop.entries[c].deleteAt = s.entries[c].deleteAt
            /\ drop.entries[c].refcount = s.entries[c].refcount - (IF s.entries[c].latest THEN 1 ELSE 0)
            /\ IF s.entries[c].latest THEN ~IsStaleBy(drop.entries[c], ctx) ELSE drop.entries[c] = s.entries[c]
       /\ \A x \in drop.timers : x \in s.timers \ {t} \/ (x.kind = Stale /\ x.at > ctx)
       /\ ~(prev # NoBlock /\ u.entries[prev].latest /\ IsDeletedBy(u.entries[prev], b))
  <2>1. CASE \E m \in Versions(s) : s.entries[m].latest
    <3>1. PICK m \in Versions(s) : s.entries[m].latest
      BY <2>1
    <3>2. /\ m \in Started(s) /\ m <= ctx /\ s.entries[m].refcount = h[m] + 1
          /\ \A c \in Started(s) : c <= m
          /\ \A c \in Versions(s) : s.entries[c].latest => c = m
      BY <3>1, OneLatest
    <3>3. /\ s.entries[m] \in Entries(Data) /\ h[m] \in Nat /\ m \in Targets /\ m # b
          /\ s.entries[m].refcount \in Nat
      BY <1>5, <3>1, EntryOf
    <3>4. prev = m
      <4>1. ~IsStaleBy(u.entries[m], ctx)
        BY <1>2, <3>2, <3>3 DEF IsStaleBy
      <4>2. m \in Versions(u) /\ m <= b - 1 /\ \A c \in Versions(u) : c <= b - 1 => c <= m
        BY <1>4, <1>7, <3>2
      <4>3. b - 1 \in Int
        BY <1>4
      <4> QED BY <1>2, <4>1, <4>2, <4>3, NearestMax
    <3>5. s.entries[m].deleteAt = Never
      BY <3>1, Kinds, OnlyPlan
    <3>6. ~IsDeletedBy(u.entries[m], b)
      BY <1>2, <1>4, <3>5, Bounds DEF IsDeletedBy
    <3> DEFINE e == [s.entries[m] EXCEPT !.latest = FALSE]
    <3>7. drop = PutEntry(u, m, e)
      <4> HIDE DEF prev
      <4>1. m # NoBlock
        BY <3>3, Bounds
      <4> QED BY <1>2, <3>1, <3>4, <4>1
    <3>8. /\ e \in Entries(Data) /\ e.latest = FALSE /\ e.deleteAt = s.entries[m].deleteAt
          /\ e.refcount = s.entries[m].refcount
      BY <3>3, UnmarkedEntry
    <3> HIDE DEF e, drop, prev
    <3>9. Releases(u, drop, m, e)
      <4>1. e.refcount > 0
        BY <3>2, <3>3, <3>8
      <4> QED BY <1>1, <1>2, <1>4, <3>2, <3>7, <3>8, <4>1, PutEntryIs
    <3>10. Scanned(drop, ctx)
      BY <1>1, <1>2, <1>4, <1>8, <3>9, ReleaseScanned
    <3>11. ASSUME NEW c \in Versions(s) \ {b}
           PROVE  /\ ~drop.entries[c].latest /\ drop.entries[c].deleteAt = s.entries[c].deleteAt
                  /\ drop.entries[c].refcount = s.entries[c].refcount - (IF s.entries[c].latest THEN 1 ELSE 0)
                  /\ IF s.entries[c].latest THEN ~IsStaleBy(drop.entries[c], ctx) ELSE drop.entries[c] = s.entries[c]
      <4>1. CASE c = m
        <5>1. ~IsStaleBy(drop.entries[m], ctx)
          BY <1>1, <1>2, <1>4, <3>9, ReleaseFresh
        <5> QED BY <3>1, <3>8, <3>9, <4>1, <5>1 DEF Releases
      <4>2. CASE c # m
        <5>1. drop.entries[c] = s.entries[c] /\ ~s.entries[c].latest /\ s.entries[c].refcount \in Nat
          BY <1>2, <1>4, <3>2, <3>9, <4>2, EntryOf DEF Releases
        <5> QED BY <5>1
      <4> QED BY <4>1, <4>2
    <3> QED BY <1>1, <1>2, <1>3, <1>4, <3>3, <3>4, <3>6, <3>9, <3>10, <3>11 DEF Releases
  <2>2. CASE ~ \E m \in Versions(s) : s.entries[m].latest
    <3>1. prev = NoBlock \/ prev \in Versions(u)
      <4>1. CASE \E c \in Versions(u) : c <= b - 1
        <5>1. Started(s) \in SUBSET Targets /\ Started(s) # {}
          BY <1>1, <1>4, <1>7, <4>1, StoreFields DEF Started
        <5>2. PICK m \in Started(s) : \A c \in Started(s) : c <= m
          BY <5>1, NewestOf
        <5>3. m \in Versions(u) /\ m <= b - 1 /\ \A c \in Versions(u) : c <= b - 1 => c <= m
          BY <1>4, <1>7, <5>2 DEF Started
        <5>4. b - 1 \in Int
          BY <1>4
        <5> QED BY <1>2, <5>3, <5>4, NearestMax
      <4>2. CASE ~ \E c \in Versions(u) : c <= b - 1
        <5>4. b - 1 \in Int
          BY <1>4
        <5> QED BY <1>2, <4>2, <5>4, NearestNone
      <4> QED BY <4>1, <4>2
    <3>2. ~(prev # NoBlock /\ u.entries[prev].latest)
      BY <1>2, <1>4, <2>2, <3>1
    <3>3. drop = u
      <4> HIDE DEF prev
      <4> QED BY <3>2
    <3> HIDE DEF drop, prev
    <3>4. \A c \in Versions(s) : s.entries[c].refcount \in Nat
      BY EntryOf
    <3>5. \A c \in Versions(s) : s.entries[c].refcount - 0 = s.entries[c].refcount
      BY <3>4
    <3> QED BY <1>1, <1>2, <1>3, <1>4, <1>8, <2>2, <3>2, <3>3, <3>5
  <2> QED BY <2>1, <2>2
<1> HIDE DEF drop, prev
<1>11. MatureEntry(u, b) = r
  <2> HIDE DEF r
  <2> QED BY <1>3, <1>9, <1>10
<1> DEFINE e == [drop.entries[b] EXCEPT !.latest = TRUE]
<1>12. /\ e \in Entries(Data) /\ e.latest = TRUE /\ e.deleteAt = s.entries[b].deleteAt
       /\ e.refcount = s.entries[b].refcount
  <2>1. s.entries[b] \in Entries(Data)
    BY <1>3, EntryOf
  <2>2. LET q == [s.entries[b] EXCEPT !.latest = TRUE]
        IN  /\ q \in Entries(Data) /\ q.latest = TRUE /\ q.deleteAt = s.entries[b].deleteAt
            /\ q.refcount = s.entries[b].refcount /\ q.staleAt = s.entries[b].staleAt
    BY <2>1, UnmarkedEntry
  <2> QED BY <1>10, <2>2
<1> HIDE DEF e
<1>13. Rewrites(drop, r, b, e) /\ r.timers = drop.timers /\ r.index = drop.index
  <2>1. r = SetEntry(drop, b, e)
    BY DEF e
  <2> HIDE DEF r
  <2> QED BY <1>4, <1>10, <1>12, <2>1, SetEntryIs
<1> HIDE DEF r
<1>14. Scanned(r, ctx)
  <2>1. r.entries[b].refcount # 0 /\ Versions(r) = Versions(drop)
        /\ \A c \in Versions(drop) \ {b} : r.entries[c] = drop.entries[c]
    BY <1>3, <1>5, <1>10, <1>12, <1>13 DEF Rewrites
  <2> QED BY <1>10, <1>13, <2>1 DEF Scanned, IsStaleBy
<1>15. Takes(s, r, b, t)
  BY <1>3, <1>10, <1>12, <1>13, <1>14 DEF Takes, Rewrites
<1> QED BY <1>11, <1>15 DEF u, b

LEMMA MatureKeeps ==
    ASSUME NEW s, NEW h, Good(s, h, ctx), NEW t \in s.timers, t.kind = Future, t.at <= ctx, NEW r,
           Takes(s, r, t.block, t)
    PROVE  Good(r, h, ctx) /\ SamePast(s, r, ctx)
<1> DEFINE b == t.block
<1>1. s \in Store /\ ~s.panic /\ h \in [Targets -> Nat] /\ ctx \in Blocks /\ ctx \in Nat
  BY Bounds DEF Good, Shape
<1>3. b \in Versions(s) /\ b = ctx /\ b \in Waiting(s)
  <2>1. t.at \in Nat /\ t.at >= ctx /\ t.block = t.at /\ b \in Versions(s) /\ t \in Timer
    BY <1>1, Kinds, StoreFields, TimerFields DEF Good, Plan
  <2>2. b = ctx
    BY <1>1, <2>1
  <2>3. t = TimerOf(b, Future, b)
    BY <2>1, TimerFields
  <2> QED BY <2>1, <2>2, <2>3 DEF Waiting
<1>4. /\ r \in Store /\ ~r.panic /\ r.index = s.index /\ Versions(r) = Versions(s)
      /\ r.entries[b].latest /\ r.entries[b].deleteAt = s.entries[b].deleteAt
      /\ r.entries[b].refcount = s.entries[b].refcount
      /\ \A c \in Versions(s) \ {b} :
           /\ ~r.entries[c].latest /\ r.entries[c].deleteAt = s.entries[c].deleteAt
           /\ r.entries[c].refcount = s.entries[c].refcount - (IF s.entries[c].latest THEN 1 ELSE 0)
      /\ \A x \in r.timers : x \in s.timers \ {t} \/ (x.kind = Stale /\ x.at > ctx)
      /\ Scanned(r, ctx)
  BY DEF Takes
<1>5. \A c \in Waiting(s) : c = b
  BY Kinds, OnlyPlan
<1>6. ~s.entries[b].latest /\ s.entries[b].deleteAt = Never /\ h[b] = 0
  BY <1>3 DEF Good, Fresh
<1>7. \A x \in r.timers : x.kind = Stale /\ x.at >= ctx
  <2>1. \A x \in s.timers \ {t} : x.kind = Stale /\ x.at >= ctx
    <3>1. \A x \in s.timers \ {t} : x.kind = Stale
      BY Kinds, OnlyPlan
    <3> QED BY <3>1 DEF Good, Plan
  <2>2. \A x \in r.timers : x.at \in Nat
    BY <1>4, StoreFields, TimerFields
  <2> QED BY <1>1, <1>4, <2>1, <2>2
<1>8. Waiting(r) = {} /\ Started(r) = Versions(s)
  <2>1. Waiting(r) = {}
    BY <1>7, Kinds, TimerFields DEF Waiting
  <2> QED BY <1>4, <2>1 DEF Started
<1> HIDE DEF b
<1>9. \A c \in Versions(s) : c <= b
  <2>1. \A c \in Started(s) : c <= b
    BY <1>3 DEF Good, Fresh
  <2>2. b <= b
    BY <1>1, <1>3
  <2> QED BY <1>5, <2>1, <2>2 DEF Started
<1>13. Shape(r, h, ctx)
  BY <1>1, <1>4 DEF Shape
<1>14. Plan(r, ctx)
  BY <1>7, Kinds DEF Plan
<1>15. Fresh(r, h, ctx)
  BY <1>3, <1>8, <1>9 DEF Fresh
<1>16. Newest(r, ctx)
  <2>1. ASSUME NEW c \in Started(r), \A d \in Started(r) : d <= c PROVE c = b
    <3>1. b <= c /\ c <= b /\ b \in Int /\ c \in Int
      BY <1>3, <1>8, <1>9, <2>1, EntryOf
    <3> QED BY <3>1
  <2> QED BY <1>4, <1>8, <1>9, <2>1 DEF Newest
<1>17. Deletes(r, ctx)
  <2>1. ASSUME NEW c \in Versions(s) \ {b}, s.entries[c].deleteAt # Never PROVE s.entries[c].deleteAt <= ctx
    <3>1. ~s.entries[c].latest
      BY <2>1, Kinds, OnlyPlan
    <3> QED BY <2>1, <3>1 DEF Good, Deletes
  <2>2. \A c \in Versions(s) : s.entries[c].deleteAt \in Targets \cup {Never} /\ s.entries[c].deleteAt > c
    BY DEF Good, Deletes
  <2>3. \A c \in Versions(s) : r.entries[c].deleteAt = s.entries[c].deleteAt
    BY <1>4
  <2> QED BY <1>4, <1>6, <2>1, <2>2, <2>3 DEF Deletes
<1>18. Counted(r, h)
  <2>1. ASSUME NEW c \in Versions(r)
        PROVE  r.entries[c].refcount = h[c] + (IF r.entries[c].latest \/ c \in Waiting(r) THEN 1 ELSE 0)
    <3>1. CASE c = b
      BY <1>3, <1>4, <3>1 DEF Good, Counted
    <3>2. CASE c # b
      <4>1. /\ s.entries[c].refcount = h[c] + (IF s.entries[c].latest THEN 1 ELSE 0)
            /\ h[c] \in Nat /\ ~r.entries[c].latest /\ c \notin Waiting(r)
            /\ r.entries[c].refcount = s.entries[c].refcount - (IF s.entries[c].latest THEN 1 ELSE 0)
        BY <1>4, <1>5, <1>8, <3>2, EntryOf DEF Good, Counted
      <4> QED BY <4>1
    <3> QED BY <3>1, <3>2
  <2> QED BY <1>4, <2>1 DEF Good, Counted
<1>19. Indexed(r)
  BY <1>3, <1>4 DEF Good, Indexed
<1>20. SamePast(s, r, ctx)
  <2>1. ASSUME NEW c \in Versions(s), c < ctx
        PROVE  (IsStaleBy(r.entries[c], ctx) <=> IsStaleBy(s.entries[c], ctx)) /\ r.entries[c].deleteAt = s.entries[c].deleteAt
    <3>1. c # b
      BY <1>1, <1>3, <2>1
    <3>2. CASE s.entries[c].latest
      <4>1. s.entries[c].refcount = h[c] + 1 /\ h[c] \in Nat
        BY <3>2, OneLatest, EntryOf
      <4>2. ~IsStaleBy(s.entries[c], ctx)
        BY <4>1 DEF IsStaleBy
      <4>3. ~IsStaleBy(r.entries[c], ctx)
        BY <3>1, <3>2 DEF Takes, b
      <4> QED BY <1>4, <3>1, <4>2, <4>3
    <3>3. CASE ~s.entries[c].latest
      BY <3>1, <3>3 DEF Takes, b
    <3> QED BY <3>2, <3>3
  <2> QED BY <1>4, <2>1 DEF SamePast, IsDeletedBy
<1> QED BY <1>4, <1>13, <1>14, <1>15, <1>16, <1>17, <1>18, <1>19, <1>20 DEF Good

-----------------------------------------------------------------------------
(* Users' deletes and appends, once the timers of the block have fired. *)

Quiet(s) == \A t \in s.timers : t.at > ctx

\* The versions that wait are those beyond the current block.
LEMMA QuietFacts ==
    ASSUME NEW s, NEW h, Good(s, h, ctx), Quiet(s)
    PROVE  /\ s \in Store /\ ~s.panic /\ h \in [Targets -> Nat] /\ ctx \in Blocks /\ ctx \in Nat
           /\ ctx < Never /\ Versions(s) \in SUBSET Targets /\ Started(s) \in SUBSET Targets
           /\ \A b \in Versions(s) : b \in Nat /\ (b \in Waiting(s) <=> b > ctx) /\ (b \in Started(s) <=> b <= ctx)
<1>1. /\ s \in Store /\ ~s.panic /\ h \in [Targets -> Nat] /\ ctx \in Blocks /\ ctx \in Nat /\ ctx < Never
      /\ Versions(s) \in SUBSET Targets
  BY StoreFields, Bounds DEF Good, Shape
<1>2. ASSUME NEW b \in Versions(s)
      PROVE  b \in Nat /\ (b \in Waiting(s) <=> b > ctx) /\ (b \in Started(s) <=> b <= ctx)
  <2>1. b \in Nat
    BY <1>1, Bounds
  <2>2. b \in Waiting(s) => b > ctx
    BY TimerFields DEF Waiting, Quiet
  <2>3. b \in Started(s) => b <= ctx
    BY DEF Good, Fresh
  <2>4. b \in Started(s) <=> b \notin Waiting(s)
    BY DEF Started
  <2> QED BY <1>1, <2>1, <2>2, <2>3, <2>4
<1> QED BY <1>1, <1>2 DEF Started

\* A user names the block that every pending start or delete has.
LEMMA OneBlockAhead ==
    ASSUME NEW s, NEW h, Good(s, h, ctx), Quiet(s), NEW x \in Named(ctx), x > ctx
    PROVE  /\ x \in Targets /\ x \in Nat /\ Planned(x, ctx)
           /\ \A t \in s.timers : t.kind # Stale => t.at = x
           /\ \A b \in Waiting(s) : b = x
           /\ \A b \in Versions(s) : /\ (b >= x <=> b \in Waiting(s)) /\ b <= x
                                     /\ (b <= x - 1 <=> b \in Started(s))
<1>1. ctx \in Blocks /\ ctx \in Nat
  BY QuietFacts
<1>2. x \in Targets /\ x \in Nat
  <2>1. Named(ctx) \subseteq Targets
    BY <1>1, UsersAssumption DEF Named
  <2> QED BY <2>1, Bounds
<1>3. Planned(x, ctx)
  <2>1. ASSUME NEW c \in Blocks, ctx <= c, c < x, NEW y \in Named(c), y > c PROVE y = x
    <3>1. c \in Nat /\ x > c
      BY <1>2, <2>1, Bounds
    <3> QED BY <1>1, <2>1, <3>1, NextEpochAssumption
  <2> QED BY <2>1 DEF Planned
<1>4. ASSUME NEW t \in s.timers, t.kind # Stale PROVE t.at = x
  <2>1. Planned(t.at, ctx) /\ t.at > ctx /\ t.at \in Nat
    BY <1>4, Bounds DEF Good, Plan, Quiet
  <2>2. ctx <= ctx /\ ctx < t.at
    BY <1>1, <2>1
  <2> QED BY <1>1, <2>1, <2>2 DEF Planned
<1>5. ASSUME NEW b \in Waiting(s) PROVE b = x
  BY <1>4, Kinds, TimerFields DEF Waiting
<1>6. \A b \in Versions(s) : b \in Nat /\ (b \in Waiting(s) <=> b > ctx) /\ (b \in Started(s) <=> b <= ctx)
  BY QuietFacts
<1>7. ASSUME NEW b \in Versions(s)
      PROVE  (b >= x <=> b \in Waiting(s)) /\ b <= x /\ (b <= x - 1 <=> b \in Started(s))
  <2>1. b \in Nat /\ (b \in Waiting(s) <=> b > ctx) /\ (b \in Started(s) <=> b <= ctx) /\ (b \in Waiting(s) => b = x)
    BY <1>5, <1>6
  <2> QED BY <1>1, <1>2, <2>1
<1> QED BY <1>2, <1>3, <1>4, <1>5, <1>7

LEMMA LatestNotDeleted ==
    ASSUME NEW s, NEW h, Good(s, h, ctx), Quiet(s), NEW b \in Versions(s), s.entries[b].latest
    PROVE  s.entries[b].deleteAt > ctx
<1>1. s.entries[b].deleteAt # Never => TimerOf(s.entries[b].deleteAt, Delete, b) \in s.timers
  BY DEF Good, Deletes
<1>2. s.entries[b].deleteAt # Never => s.entries[b].deleteAt > ctx
  BY <1>1, TimerFields DEF Quiet
<1>3. Never > ctx
  BY QuietFacts, Bounds
<1> QED BY <1>2, <1>3

\* The lookup for a block that the versions which started precede, and no
\* other: the latest version, or a deleted one.
LEMMA NearestStarted ==
    ASSUME NEW s, NEW h, Good(s, h, ctx), NEW block \in Nat, block >= ctx,
           \A c \in Versions(s) : c <= block <=> c \in Started(s)
    PROVE  \/ Started(s) = {} /\ Nearest(s, block) = NoBlock
           \/ /\ Nearest(s, block) \in Started(s) /\ \A c \in Started(s) : c <= Nearest(s, block)
              /\ \/ s.entries[Nearest(s, block)].latest
                 \/ /\ s.entries[Nearest(s, block)].deleteAt <= ctx
                    /\ \A c \in Versions(s) : ~s.entries[c].latest
<1>0. s \in Store /\ ctx \in Nat /\ Started(s) \in SUBSET Targets /\ Started(s) \subseteq Versions(s)
  BY StoreFields, Bounds DEF Good, Shape, Started
<1>1. CASE Started(s) = {}
  BY <1>0, <1>1, NearestNone
<1>2. CASE Started(s) # {}
  <2>1. PICK m \in Started(s) : \A c \in Started(s) : c <= m
    BY <1>0, <1>2, NewestOf
  <2>2. m \in Versions(s) /\ m <= block /\ \A c \in Versions(s) : c <= block => c <= m
    BY <1>0, <2>1
  <2>3. s.entries[m].deleteAt \in Nat /\ h[m] \in Nat /\ m \in Nat
    BY <2>2, EntryOf
  <2>4. Nearest(s, block) =
          IF IsStaleBy(s.entries[m], ctx) /\ ~IsDeletedBy(s.entries[m], block) THEN NoBlock ELSE m
    BY <1>0, <2>2, NearestMax
  <2>5. CASE s.entries[m].latest
    <3>1. s.entries[m].refcount = h[m] + 1
      BY <2>2, <2>5, OneLatest
    <3>2. ~IsStaleBy(s.entries[m], ctx)
      BY <2>3, <3>1 DEF IsStaleBy
    <3> QED BY <2>1, <2>4, <2>5, <3>2
  <2>6. CASE ~s.entries[m].latest
    <3>1. s.entries[m].deleteAt <= ctx
      BY <2>1, <2>6 DEF Good, Newest
    <3>2. IsDeletedBy(s.entries[m], block)
      BY <1>0, <2>3, <3>1 DEF IsDeletedBy
    <3>3. ASSUME NEW c \in Versions(s), s.entries[c].latest PROVE FALSE
      <4>1. c \in Started(s) /\ m <= c /\ c \in Nat
        BY <2>1, <3>3, OneLatest, EntryOf
      <4>2. c <= m
        BY <2>1, <4>1
      <4>3. c = m
        BY <2>3, <4>1, <4>2
      <4> QED BY <2>6, <3>3, <4>3
    <3> QED BY <2>1, <2>4, <3>1, <3>2, <3>3
  <2> QED BY <2>5, <2>6
<1> QED BY <1>1, <1>2

\* r is s with the deletion of its latest version m planned, and no version to come.
Schedules(s, r, m, at) ==
    /\ r \in Store /\ ~r.panic /\ r.index = s.index /\ Versions(r) = Started(s)
    /\ m \in Started(s) /\ s.entries[m].latest
    /\ r.entries[m].latest /\ r.entries[m].deleteAt = at /\ r.entries[m].refcount = s.entries[m].refcount
    /\ r.entries[m].staleAt = s.entries[m].staleAt
    /\ \A c \in Started(s) \ {m} : r.entries[c] = s.entries[c]
    /\ \A x : x \in r.timers <=> x = TimerOf(at, Delete, m) \/ (x \in s.timers /\ x.kind = Stale)

\* r is s without its only version, which was to come.
Discards(s, r) ==
    /\ r \in Store /\ ~r.panic /\ r.index = "absent" /\ Started(s) = {} /\ Versions(r) = {}
    /\ \A x : x \in r.timers <=> x \in s.timers /\ x.kind = Stale

LEMMA PlannedEntry ==
    ASSUME NEW x \in Entries(Data), NEW at \in Nat
    PROVE  LET e == [x EXCEPT !.deleteAt = at]
           IN  /\ e \in Entries(Data) /\ e.latest = x.latest /\ e.deleteAt = at
               /\ e.refcount = x.refcount /\ e.staleAt = x.staleAt
  BY DEF Entries

LEMMA DelIs ==
    ASSUME NEW s, NEW h, Good(s, h, ctx), Quiet(s), NEW at \in Named(ctx), at > ctx
    PROVE  LET r == DelEntry(s, at)
           IN  r = s \/ Discards(s, r) \/ \E m \in Versions(s) : Schedules(s, r, m, at)
<1> DEFINE b == DelTarget(s, at)
           r == DelEntry(s, at)
<1>1. /\ s \in Store /\ ~s.panic /\ ctx \in Nat /\ Versions(s) \in SUBSET Targets
      /\ \A c \in Versions(s) : c \in Nat /\ (c \in Waiting(s) <=> c > ctx) /\ (c \in Started(s) <=> c <= ctx)
  BY QuietFacts
<1>2. /\ at \in Targets /\ at \in Nat
      /\ \A t \in s.timers : t.kind # Stale => t.at = at
      /\ \A c \in Waiting(s) : c = at
      /\ \A c \in Versions(s) : /\ (c >= at <=> c \in Waiting(s)) /\ c <= at
                                /\ (c <= at - 1 <=> c \in Started(s))
  BY OneBlockAhead
<1>3. b = Nearest(s, at - 1) /\ at - 1 \in Nat /\ at - 1 >= ctx /\ ~(at = ctx)
  BY <1>1, <1>2 DEF DelTarget
<1>4. {c \in Versions(s) : c >= at} = Waiting(s)
  BY <1>2 DEF Waiting
<1>5. \A q : Versions(q) = Versions(s) => TrimFuture(q, at) = CancelFuture(q, Waiting(s))
  BY <1>4 DEF TrimFuture
<1>6. \/ Started(s) = {} /\ b = NoBlock
      \/ /\ b \in Started(s) /\ \A c \in Started(s) : c <= b
         /\ s.entries[b].latest \/ (s.entries[b].deleteAt <= ctx /\ \A c \in Versions(s) : ~s.entries[c].latest)
  BY <1>2, <1>3, NearestStarted
<1>7. Waiting(s) = {} \/ Waiting(s) = {at}
  BY <1>2
<1> HIDE DEF b
<1> DEFINE marked == SetEntry(s, b, [s.entries[b] EXCEPT !.deleteAt = at])
           planned == AddTimer(marked, at, Delete, b)
<1>8. r = IF ~DelSucceeds(s, at) THEN s
          ELSE IF b = NoBlock THEN TrimFuture(s, at) ELSE TrimFuture(planned, at)
  BY <1>3 DEF DelEntry, b
<1>9. CASE Started(s) = {} /\ b = NoBlock
  <2>1. CASE Waiting(s) = {}
    <3>1. CancelFuture(s, {}) = s
      BY DEF CancelFuture
    <3> QED BY <1>5, <1>8, <1>9, <2>1, <3>1
  <2>2. CASE Waiting(s) = {at}
    <3>1. LET q == CancelFuture(s, {at})
          IN  /\ q \in Store /\ q.panic = s.panic /\ q.timers = s.timers \ {TimerOf(at, Future, at)}
              /\ Versions(q) = Versions(s) \ {at}
              /\ \A c \in Versions(q) : q.entries[c] = s.entries[c]
              /\ q.index = IF Versions(q) = {} THEN "absent" ELSE s.index
      BY <1>1, <2>2, CancelIs
    <3>2. Versions(s) = {at} /\ TimerOf(at, Future, at) \in s.timers
      BY <1>9, <2>2 DEF Started, Waiting
    <3>3. \A x \in s.timers : x.kind # Stale <=> x = TimerOf(at, Future, at)
      BY <3>2, Kinds, TimerFields, OnlyPlan
    <3>4. Discards(s, CancelFuture(s, {at}))
      BY <1>1, <1>9, <3>1, <3>2, <3>3 DEF Discards
    <3> QED BY <1>5, <1>8, <1>9, <2>2, <3>4
  <2> QED BY <1>7, <2>1, <2>2
<1>10. CASE b \in Started(s) /\ ~(s.entries[b].latest /\ s.entries[b].deleteAt = Never)
  <2>1. b \in Versions(s) /\ b # NoBlock
    BY <1>1, <1>10, Bounds DEF Started
  <2>2. HasDeleteAt(s.entries[b])
    <3>1. s.entries[b].deleteAt \in Targets \cup {Never} /\ s.entries[b].deleteAt \in Nat
      BY <2>1, EntryOf DEF Good, Deletes
    <3>2. s.entries[b].deleteAt # Never
      <4>1. ctx < Never
        BY QuietFacts
      <4> QED BY <1>1, <1>6, <1>10, <2>1, <3>1, <4>1, Bounds
    <3> QED BY <3>1, <3>2, Bounds DEF HasDeleteAt
  <2>3. ~DelSucceeds(s, at)
    BY <2>1, <2>2 DEF DelSucceeds, b
  <2> QED BY <1>8, <2>3
<1>11. CASE b \in Started(s) /\ s.entries[b].latest /\ s.entries[b].deleteAt = Never
  <2>1. b \in Versions(s) /\ b # NoBlock /\ b \in Targets /\ s.entries[b] \in Entries(Data)
    BY <1>1, <1>11, Bounds, EntryOf DEF Started
  <2>2. DelSucceeds(s, at)
    BY <1>1, <1>2, <1>11, <2>1, Bounds DEF DelSucceeds, HasDeleteAt, b
  <2> DEFINE e == [s.entries[b] EXCEPT !.deleteAt = at]
  <2>3. /\ e \in Entries(Data) /\ e.latest = s.entries[b].latest /\ e.deleteAt = at
        /\ e.refcount = s.entries[b].refcount /\ e.staleAt = s.entries[b].staleAt
    BY <1>2, <2>1, PlannedEntry
  <2>4. Rewrites(s, marked, b, e) /\ marked.timers = s.timers /\ marked.index = s.index
    <3> HIDE DEF e
    <3>1. marked = SetEntry(s, b, e)
      BY DEF e
    <3> HIDE DEF marked
    <3> QED BY <1>1, <2>1, <2>3, <3>1, SetEntryIs
  <2> HIDE DEF e, marked
  <2>5. /\ planned \in Store /\ planned.timers = marked.timers \cup {TimerOf(at, Delete, b)}
        /\ planned.entries = marked.entries /\ planned.index = marked.index /\ planned.panic = marked.panic
    BY <1>1, <1>2, <2>1, <2>4, AddTimerIs DEF Rewrites
  <2> HIDE DEF planned
  <2>6. Versions(planned) = Versions(s)
    BY <2>1, <2>4, <2>5 DEF Rewrites, Versions
  <2>7. r = CancelFuture(planned, Waiting(s))
    BY <1>5, <1>8, <2>1, <2>2, <2>6
  <2>8. \A x \in s.timers : x.kind # Stale => x.kind = Future /\ \E c \in Waiting(s) : x = TimerOf(c, Future, c)
    <3>1. ASSUME NEW x \in s.timers, x.kind # Stale PROVE x.kind = Future /\ \E c \in Waiting(s) : x = TimerOf(c, Future, c)
      <4>1. x \in Timer /\ x = TimerOf(x.at, x.kind, x.block) /\ x.kind \in {Future, Delete, Stale}
        BY <1>1, <3>1, StoreFields, TimerFields
      <4>2. ASSUME x.kind = Delete PROVE FALSE
        <5>1. x.block \in Versions(s) /\ s.entries[x.block].latest /\ s.entries[x.block].deleteAt = x.at
          BY <3>1, <4>2 DEF Good, Plan
        <5>2. x.block = b
          BY <1>11, <2>1, <5>1, OneLatest
        <5>3. x.at = at
          BY <1>2, <3>1
        <5> QED BY <1>2, <1>11, <5>1, <5>2, <5>3, Bounds
      <4>3. x.kind = Future
        BY <3>1, <4>1, <4>2
      <4>4. x.block \in Versions(s) /\ x.at = x.block
        BY <3>1, <4>3 DEF Good, Plan
      <4>5. x.block \in Waiting(s) /\ x = TimerOf(x.block, Future, x.block)
        BY <4>1, <4>3, <4>4 DEF Waiting
      <4> QED BY <4>3, <4>5
    <3> QED BY <3>1
  <2>9. b \notin Waiting(s)
    BY <1>11 DEF Started
  <2>10. CASE Waiting(s) = {}
    <3>1. r = planned /\ Started(s) = Versions(s)
      BY <2>7, <2>10 DEF CancelFuture, Started
    <3>2. \A x \in s.timers : x.kind = Stale
      BY <2>8, <2>10
    <3>3. Schedules(s, planned, b, at)
      BY <1>1, <1>11, <2>1, <2>3, <2>4, <2>5, <2>6, <3>1, <3>2 DEF Schedules, Rewrites
    <3> QED BY <2>1, <3>1, <3>3
  <2>11. CASE Waiting(s) = {at}
    <3>1. at \in Waiting(planned)
      BY <2>4, <2>5, <2>6, <2>11 DEF Waiting
    <3>2. /\ r \in Store /\ r.panic = planned.panic /\ r.timers = planned.timers \ {TimerOf(at, Future, at)}
          /\ Versions(r) = Versions(planned) \ {at}
          /\ \A c \in Versions(r) : r.entries[c] = planned.entries[c]
          /\ r.index = IF Versions(r) = {} THEN "absent" ELSE planned.index
      <4> HIDE DEF r
      <4>1. r = CancelFuture(planned, {at})
        BY <2>7, <2>11
      <4>2. LET q == CancelFuture(planned, {at})
            IN  /\ q \in Store /\ q.panic = planned.panic /\ q.timers = planned.timers \ {TimerOf(at, Future, at)}
                /\ Versions(q) = Versions(planned) \ {at}
                /\ \A c \in Versions(q) : q.entries[c] = planned.entries[c]
                /\ q.index = IF Versions(q) = {} THEN "absent" ELSE planned.index
        BY <2>5, <3>1, CancelIs
      <4> QED BY <4>1, <4>2
    <3> HIDE DEF r
    <3>3. Versions(r) = Started(s) /\ Versions(r) # {}
      BY <1>11, <2>6, <2>11, <3>2 DEF Started
    <3>4. TimerOf(at, Delete, b) # TimerOf(at, Future, at)
      BY Kinds, TimerFields
    <3>5. \A x : x \in r.timers <=> x = TimerOf(at, Delete, b) \/ (x \in s.timers /\ x.kind = Stale)
      <4>1. \A x \in s.timers : x.kind # Stale => x = TimerOf(at, Future, at)
        BY <2>8, <2>11
      <4>2. TimerOf(at, Future, at).kind # Stale
        BY Kinds, TimerFields
      <4> QED BY <2>4, <2>5, <3>2, <3>4, <4>1, <4>2
    <3>6. Schedules(s, r, b, at)
      <4>1. r.index = s.index /\ ~r.panic
        BY <1>1, <2>4, <2>5, <3>2, <3>3 DEF Rewrites
      <4>2. \A c \in Started(s) : r.entries[c] = marked.entries[c]
        BY <2>5, <3>2, <3>3
      <4>3. \A c \in Started(s) \ {b} : r.entries[c] = s.entries[c]
        BY <2>4, <4>2 DEF Rewrites, Started
      <4>4. r.entries[b] = e
        BY <1>11, <2>4, <4>2 DEF Rewrites
      <4> QED BY <1>11, <2>3, <3>2, <3>3, <3>5, <4>1, <4>3, <4>4 DEF Schedules
    <3> QED BY <2>1, <3>6 DEF r
  <2> QED BY <1>7, <2>10, <2>11
<1> QED BY <1>6, <1>9, <1>10, <1>11

LEMMA ScheduleKeeps ==
    ASSUME NEW s, NEW h, Good(s, h, ctx), Quiet(s), NEW at \in Named(ctx), at > ctx,
           NEW r, NEW m \in Versions(s), Schedules(s, r, m, at)
    PROVE  Good(r, h, ctx) /\ SamePast(s, r, ctx)
<1>1. /\ s \in Store /\ h \in [Targets -> Nat] /\ ctx \in Blocks /\ ctx \in Nat
      /\ Versions(s) \in SUBSET Targets
      /\ \A c \in Versions(s) : c \in Nat /\ (c \in Waiting(s) <=> c > ctx) /\ (c \in Started(s) <=> c <= ctx)
  BY QuietFacts
<1>2. at \in Targets /\ at \in Nat /\ Planned(at, ctx) /\ \A c \in Versions(s) : c <= at - 1 <=> c \in Started(s)
  BY OneBlockAhead
<1>3. /\ r \in Store /\ ~r.panic /\ r.index = s.index /\ Versions(r) = Started(s)
      /\ m \in Started(s) /\ s.entries[m].latest
      /\ r.entries[m].latest /\ r.entries[m].deleteAt = at /\ r.entries[m].refcount = s.entries[m].refcount
      /\ r.entries[m].staleAt = s.entries[m].staleAt
      /\ \A c \in Started(s) \ {m} : r.entries[c] = s.entries[c]
      /\ \A x : x \in r.timers <=> x = TimerOf(at, Delete, m) \/ (x \in s.timers /\ x.kind = Stale)
  BY DEF Schedules
<1>4. Waiting(r) = {} /\ Started(r) = Started(s) /\ Started(s) \subseteq Versions(s)
  <2>1. \A c : TimerOf(c, Future, c) \notin r.timers
    BY <1>3, Kinds, TimerFields
  <2> QED BY <1>3, <2>1 DEF Waiting, Started
<1>5. /\ \A c \in Started(s) : c <= m
      /\ \A c \in Versions(s) : s.entries[c].latest => c = m
  BY <1>3, OneLatest
<1>6. \A c \in Started(s) : /\ r.entries[c].latest = s.entries[c].latest
                            /\ r.entries[c].refcount = s.entries[c].refcount
                            /\ r.entries[c].staleAt = s.entries[c].staleAt
  <2>1. r.entries[m].latest \in BOOLEAN /\ s.entries[m].latest \in BOOLEAN
    BY <1>3, StoreFields, EntryFields, EntryOf
  <2>2. r.entries[m].latest = s.entries[m].latest
    BY <1>3, <2>1
  <2> QED BY <1>3, <2>2
<1>7. Shape(r, h, ctx)
  BY <1>1, <1>3 DEF Shape
<1>8. Plan(r, ctx)
  <2>1. \A x \in r.timers : x.kind # Stale => x = TimerOf(at, Delete, m)
    BY <1>3
  <2>2. LET x == TimerOf(at, Delete, m) IN x.at = at /\ x.kind = Delete /\ x.block = m
    BY TimerFields
  <2>3. \A x \in r.timers : x.at >= ctx
    <3>1. at >= ctx
      BY <1>1, <1>2
    <3> QED BY <1>3, <2>2, <3>1 DEF Good, Plan
  <2>4. \A x, y \in r.timers : x.kind # Stale /\ y.kind # Stale => x = y
    BY <2>1
  <2>5. \A x \in r.timers : x.kind # Stale => x.at \in Targets /\ Planned(x.at, ctx)
    BY <1>2, <2>1, <2>2
  <2>6. \A x \in r.timers : x.kind # Future
    BY <2>1, <2>2, Kinds
  <2>7. \A x \in r.timers : x.kind = Delete =>
         x.block \in Versions(r) /\ r.entries[x.block].latest /\ r.entries[x.block].deleteAt = x.at
    BY <1>3, <2>1, <2>2, Kinds
  <2> QED BY <2>3, <2>4, <2>5, <2>6, <2>7 DEF Plan
<1>9. Fresh(r, h, ctx)
  BY <1>4 DEF Good, Fresh
<1>10. Newest(r, ctx)
  <2>1. ASSUME NEW c \in Started(s), \A d \in Started(s) : d <= c PROVE c = m
    <3>1. m <= c /\ c <= m /\ c \in Nat /\ m \in Nat
      BY <1>1, <1>3, <1>4, <1>5, <2>1
    <3> QED BY <3>1
  <2> QED BY <1>3, <1>4, <1>5, <1>6, <2>1 DEF Newest
<1>11. Deletes(r, ctx)
  <2>1. ASSUME NEW c \in Started(s) \ {m}
        PROVE  /\ s.entries[c].deleteAt \in Targets \cup {Never} /\ s.entries[c].deleteAt > c
               /\ ~s.entries[c].latest /\ (s.entries[c].deleteAt # Never => s.entries[c].deleteAt <= ctx)
    <3>1. ~s.entries[c].latest /\ c \in Versions(s)
      BY <1>4, <1>5
    <3> QED BY <3>1 DEF Good, Deletes
  <2>2. at > m
    BY <1>1, <1>2, <1>3
  <2>3. TimerOf(at, Delete, m) \in r.timers
    BY <1>3
  <2>4. ASSUME NEW c \in Versions(r)
        PROVE  LET e == r.entries[c] IN
                 /\ e.deleteAt \in Targets \cup {Never} /\ e.deleteAt > c
                 /\ e.deleteAt # Never =>
                      IF e.latest THEN TimerOf(e.deleteAt, Delete, c) \in r.timers
                      ELSE e.deleteAt <= ctx
    <3>1. CASE c = m
      BY <1>2, <1>3, <2>2, <2>3, <3>1
    <3>2. CASE c # m
      BY <1>3, <2>1, <3>2
    <3> QED BY <3>1, <3>2
  <2> QED BY <2>4 DEF Deletes
<1>12. Counted(r, h)
  <2>1. \A c \in Started(s) : c \notin Waiting(s) /\ c \in Versions(s)
    BY DEF Started
  <2>2. \A c \in Targets : h[c] > 0 => c \in Started(s)
    BY <1>1 DEF Good, Counted, Fresh, Started
  <2> QED BY <1>3, <1>4, <1>6, <2>1, <2>2 DEF Good, Counted
<1>13. Indexed(r)
  BY <1>3, <1>4 DEF Good, Indexed
<1>14. Scanned(r, ctx)
  <2>1. \A c \in Versions(r) : r.entries[c].refcount = 0 /\ r.entries[c].staleAt > ctx =>
          TimerOf(r.entries[c].staleAt, Stale, c) \in r.timers
    <3>1. \A a, c : TimerOf(a, Stale, c) \in s.timers => TimerOf(a, Stale, c) \in r.timers
      BY <1>3, TimerFields
    <3> QED BY <1>3, <1>4, <1>6, <3>1 DEF Good, Scanned
  <2>2. ~ \E x \in s.timers : x.kind = Stale /\ x.at <= ctx
    <3>1. \A x \in s.timers : x.at \in Nat /\ x.at > ctx
      BY <1>1, StoreFields, TimerFields DEF Quiet
    <3> QED BY <1>1, <3>1
  <2>3. ASSUME NEW c \in Versions(r), \A d \in Versions(r) : c <= d PROVE ~IsStaleBy(r.entries[c], ctx)
    <3>1. c \in Started(s) /\ c \in Versions(s) /\ c <= ctx
      BY <1>1, <1>3, <1>4, <2>3
    <3>2. ASSUME NEW d \in Versions(s) PROVE c <= d
      <4>1. CASE d \in Started(s)
        BY <1>3, <2>3, <4>1
      <4>2. CASE d \notin Started(s)
        BY <1>1, <3>1, <4>2
      <4> QED BY <4>1, <4>2
    <3>3. ~IsStaleBy(s.entries[c], ctx)
      BY <2>2, <3>1, <3>2 DEF Good, Scanned
    <3> QED BY <1>6, <3>1, <3>3 DEF IsStaleBy
  <2> QED BY <2>1, <2>3 DEF Scanned
<1>15. SamePast(s, r, ctx)
  <2>1. \A c \in Versions(s) : c < ctx => c \in Started(s)
    BY <1>1
  <2>2. \A c \in Started(s) : IsStaleBy(r.entries[c], ctx) <=> IsStaleBy(s.entries[c], ctx)
    BY <1>6 DEF IsStaleBy
  <2>3. ASSUME NEW c \in Started(s), NEW x \in Blocks, x < ctx
        PROVE  IsDeletedBy(r.entries[c], x) <=> IsDeletedBy(s.entries[c], x)
    <3>1. CASE c = m
      <4>1. s.entries[m].deleteAt \in Nat /\ s.entries[m].deleteAt > ctx /\ x \in Nat
        BY <1>1, <1>3, EntryOf, Bounds, LatestNotDeleted
      <4> QED BY <1>1, <1>2, <1>3, <2>3, <3>1, <4>1 DEF IsDeletedBy
    <3>2. CASE c # m
      BY <1>3, <3>2
    <3> QED BY <3>1, <3>2
  <2> QED BY <1>3, <1>4, <2>1, <2>2, <2>3 DEF SamePast
<1> QED BY <1>7, <1>8, <1>9, <1>10, <1>11, <1>12, <1>13, <1>14, <1>15 DEF Good

LEMMA DiscardKeeps ==
    ASSUME NEW s, NEW h, Good(s, h, ctx), Quiet(s), NEW r, Discards(s, r)
    PROVE  Good(r, h, ctx) /\ SamePast(s, r, ctx)
<1>1. /\ r \in Store /\ ~r.panic /\ r.index = "absent" /\ Started(s) = {} /\ Versions(r) = {}
      /\ \A x : x \in r.timers <=> x \in s.timers /\ x.kind = Stale
  BY DEF Discards
<1>2. h \in [Targets -> Nat] /\ ctx \in Blocks
  BY DEF Good, Shape
<1>3. Waiting(r) = {} /\ Started(r) = {}
  BY <1>1 DEF Waiting, Started
<1>4. ASSUME NEW b \in Targets PROVE ~(h[b] > 0)
  <2>1. SUFFICES ASSUME h[b] > 0 PROVE FALSE
    OBVIOUS
  <2>2. b \in Waiting(s)
    BY <1>1, <2>1 DEF Good, Counted, Started
  <2>3. h[b] = 0
    BY <2>2 DEF Good, Fresh
  <2> QED BY <2>1, <2>3
<1>5. Shape(r, h, ctx) /\ Fresh(r, h, ctx) /\ Newest(r, ctx) /\ Deletes(r, ctx)
  BY <1>1, <1>2, <1>3 DEF Shape, Fresh, Newest, Deletes
<1>6. Plan(r, ctx)
  BY <1>1, Kinds DEF Good, Plan
<1>7. Counted(r, h) /\ Indexed(r) /\ Scanned(r, ctx)
  BY <1>1, <1>4 DEF Counted, Indexed, Scanned
<1>8. SamePast(s, r, ctx)
  <2>1. \A c \in Versions(s) : ~(c < ctx)
    BY <1>1, QuietFacts
  <2> QED BY <1>1, <2>1 DEF SamePast
<1> QED BY <1>5, <1>6, <1>7, <1>8 DEF Good

\* r is s with version x to come, announced by a timer.
Announces(s, r, x) ==
    /\ r \in Store /\ ~r.panic /\ r.index = "live"
    /\ Versions(r) = Versions(s) \cup {x} /\ x \notin Versions(s)
    /\ ~r.entries[x].latest /\ r.entries[x].deleteAt = Never /\ r.entries[x].refcount = 1
    /\ \A c \in Versions(s) :
         /\ r.entries[c].latest = s.entries[c].latest /\ r.entries[c].deleteAt = s.entries[c].deleteAt
         /\ r.entries[c].refcount = s.entries[c].refcount /\ r.entries[c].staleAt = s.entries[c].staleAt
    /\ r.timers = s.timers \cup {TimerOf(x, Future, x)}
    /\ \A t \in s.timers : t.kind = Stale

\* r is s with version x as its latest, and with the delete that was pending.
Starts(s, r, x) ==
    /\ r \in Store /\ ~r.panic /\ r.index = "live"
    /\ Versions(r) = Versions(s) \cup {x} /\ x \notin Versions(s)
    /\ r.entries[x].latest /\ r.entries[x].refcount = 1
    /\ r.entries[x].deleteAt \in Targets \cup {Never} /\ r.entries[x].deleteAt > x
    /\ \A c \in Versions(s) :
         /\ ~r.entries[c].latest
         /\ s.entries[c].latest => /\ r.entries[c].deleteAt = Never /\ ~IsStaleBy(r.entries[c], ctx)
                                   /\ r.entries[c].refcount = s.entries[c].refcount - 1
         /\ ~s.entries[c].latest => r.entries[c] = s.entries[c]
    /\ \A t \in r.timers :
         \/ t \in s.timers /\ t.kind # Delete
         \/ t.kind = Stale /\ t.at > ctx
         \/ t = TimerOf(r.entries[x].deleteAt, Delete, x) /\ r.entries[x].deleteAt # Never
    /\ r.entries[x].deleteAt # Never =>
         /\ TimerOf(r.entries[x].deleteAt, Delete, x) \in r.timers
         /\ \E t \in s.timers : t.kind = Delete /\ t.at = r.entries[x].deleteAt
    /\ \A t \in s.timers : t.kind # Delete => t \in r.timers
    /\ Scanned(r, ctx)

NewVersion(d, l, at) == [staleAt |-> Never, deleteAt |-> at, latest |-> l, refcount |-> 1, data |-> d]

LEMMA NewVersionFields ==
    ASSUME NEW d \in Data, NEW l \in BOOLEAN, NEW at \in Nat
    PROVE  LET e == NewVersion(d, l, at)
           IN  e \in Entries(Data) /\ e.latest = l /\ e.deleteAt = at /\ e.refcount = 1
<1>1. Never \in Nat /\ 1 \in Nat
  BY Bounds
<1> QED BY <1>1 DEF NewVersion, Entries

\* Adding a version that is not stale does not disturb the scan.
LEMMA AddScanned ==
    ASSUME NEW s \in Store, ctx \in Nat, Scanned(s, ctx), NEW r, NEW e, NEW x \in Targets \ Versions(s),
           Rewrites(s, r, x, e), e.refcount = 1, r.timers = s.timers
    PROVE  Scanned(r, ctx)
<1>1. /\ Versions(r) = Versions(s) \cup {x} /\ r.entries[x].refcount = 1
      /\ \A c \in Versions(s) : r.entries[c] = s.entries[c] /\ c # x
  BY DEF Rewrites
<1> QED BY <1>1 DEF Scanned, IsStaleBy

\* The first version, or the first after a deleted one.
LEMMA SupersedeFirst ==
    ASSUME NEW s, NEW h, Good(s, h, ctx), Quiet(s), NEW x \in Targets, x >= ctx, x \notin Versions(s),
           NEW d \in Data, NEW prev, prev = NoBlock \/ prev \in Versions(s),
           \A c \in Versions(s) : ~s.entries[c].latest,
           x > ctx => \A t \in s.timers : t.kind = Stale
    PROVE  LET r == Supersede(s, x, d, prev, TRUE)
           IN  IF x > ctx THEN Announces(s, r, x) ELSE Starts(s, r, x)
<1> DEFINE v == SetIndex(s, "live")
           l == x <= ctx
           e == NewVersion(d, l, Never)
           w == IF x > ctx THEN AddTimer(v, x, Future, x) ELSE v
           r == SetEntry(w, x, e)
<1>1. s \in Store /\ ~s.panic /\ ctx \in Nat /\ x \in Nat /\ Never \in Nat /\ x < Never
  BY QuietFacts, Bounds
<1>2. v \in Store /\ v.index = "live" /\ v.entries = s.entries /\ v.timers = s.timers /\ v.panic = s.panic
  BY <1>1, StoreIndex
<1>3. e \in Entries(Data) /\ e.latest = l /\ e.deleteAt = Never /\ e.refcount = 1
  <2>1. l \in BOOLEAN
    OBVIOUS
  <2> HIDE DEF l
  <2> QED BY <1>1, <2>1, NewVersionFields
<1>4. Supersede(s, x, d, prev, TRUE) = r
  <2>1. ~(prev # NoBlock /\ v.entries[prev].latest)
    BY <1>2
  <2>2. Supersede(s, x, d, prev, TRUE) =
          SetEntry(IF x > ctx THEN AddTimer(v, x, Future, x)
                    ELSE IF prev # NoBlock /\ v.entries[prev].latest
                    THEN PutEntry(v, prev, [v.entries[prev] EXCEPT !.latest = FALSE])
                    ELSE v, x, e)
    BY DEF Supersede, NewVersion
  <2> HIDE DEF v, e
  <2> QED BY <2>1, <2>2
<1> HIDE DEF v, e, l
<1>5. /\ w \in Store /\ w.entries = s.entries /\ w.index = "live" /\ w.panic = s.panic
      /\ w.timers = IF x > ctx THEN s.timers \cup {TimerOf(x, Future, x)} ELSE s.timers
  <2>1. CASE x > ctx
    <3>1. LET q == AddTimer(v, x, Future, x)
          IN  /\ q \in Store /\ q.timers = v.timers \cup {TimerOf(x, Future, x)}
              /\ q.entries = v.entries /\ q.index = v.index /\ q.panic = v.panic
      BY <1>1, <1>2, <2>1, AddTimerIs
    <3> QED BY <1>2, <2>1, <3>1
  <2>2. CASE ~(x > ctx)
    BY <1>2, <2>2
  <2> QED BY <2>1, <2>2
<1> HIDE DEF w
<1>6. Rewrites(w, r, x, e) /\ r.timers = w.timers /\ r.index = w.index
  BY <1>3, <1>5, SetEntryIs
<1> HIDE DEF r
<1>7. /\ Versions(w) = Versions(s) /\ Versions(r) = Versions(s) \cup {x} /\ r \in Store /\ ~r.panic
      /\ r.entries[x] = e /\ \A c \in Versions(s) : r.entries[c] = s.entries[c]
  BY <1>1, <1>5, <1>6 DEF Rewrites, Versions
<1>8. CASE x > ctx
  <2>1. ~l
    BY <1>1, <1>8 DEF l
  <2>2. Announces(s, r, x)
    BY <1>3, <1>5, <1>6, <1>7, <1>8, <2>1 DEF Announces
  <2> QED BY <1>4, <1>8, <2>2
<1>9. CASE ~(x > ctx)
  <2>1. l
    BY <1>1, <1>9 DEF l
  <2>2. Scanned(r, ctx)
    <3>1. Scanned(w, ctx)
      BY <1>5, <1>7, <1>9 DEF Good, Scanned
    <3> QED BY <1>1, <1>3, <1>5, <1>6, <1>7, <3>1, AddScanned
  <2>3. \A t \in s.timers : t.kind # Delete
    BY DEF Good, Plan
  <2>4. Starts(s, r, x)
    BY <1>1, <1>3, <1>5, <1>6, <1>7, <1>9, <2>1, <2>2, <2>3 DEF Starts
  <2> QED BY <1>4, <1>9, <2>4
<1> QED BY <1>8, <1>9

\* A version to come after the latest one, which no delete awaits.
LEMMA SupersedeAhead ==
    ASSUME NEW s, NEW h, Good(s, h, ctx), Quiet(s), NEW x \in Targets, x > ctx, x \notin Versions(s),
           NEW d \in Data, NEW m \in Versions(s), s.entries[m].latest, s.entries[m].deleteAt = Never,
           \A t \in s.timers : t.kind = Stale
    PROVE  Announces(s, Supersede(s, x, d, m, FALSE), x)
<1> DEFINE p == [s.entries[m] EXCEPT !.deleteAt = Never]
           v == SetEntry(s, m, p)
           l == x <= ctx
           e == NewVersion(d, l, Never)
           w == AddTimer(v, x, Future, x)
           r == SetEntry(w, x, e)
<1>1. /\ s \in Store /\ ~s.panic /\ ctx \in Nat /\ x \in Nat /\ Never \in Nat /\ x < Never
      /\ m \in Targets /\ s.entries[m] \in Entries(Data)
  BY QuietFacts, Bounds, EntryOf
<1>2. /\ p \in Entries(Data) /\ p.latest = s.entries[m].latest /\ p.deleteAt = Never
      /\ p.refcount = s.entries[m].refcount /\ p.staleAt = s.entries[m].staleAt
  BY <1>1, PlannedEntry
<1>3. e \in Entries(Data) /\ ~e.latest /\ e.deleteAt = Never /\ e.refcount = 1
  <2>1. l = FALSE
    BY <1>1
  <2> HIDE DEF l
  <2> QED BY <1>1, <2>1, NewVersionFields
<1>4. Supersede(s, x, d, m, FALSE) = r
  BY <1>1 DEF Supersede, NewVersion
<1> HIDE DEF p, e, l
<1>5. Rewrites(s, v, m, p) /\ v.timers = s.timers /\ v.index = s.index
  BY <1>1, <1>2, SetEntryIs
<1> HIDE DEF v
<1>6. /\ w \in Store /\ w.entries = v.entries /\ w.index = v.index /\ w.panic = v.panic
      /\ w.timers = v.timers \cup {TimerOf(x, Future, x)}
  <2>1. v \in Store
    BY <1>5 DEF Rewrites
  <2>2. LET q == AddTimer(v, x, Future, x)
        IN  /\ q \in Store /\ q.timers = v.timers \cup {TimerOf(x, Future, x)}
            /\ q.entries = v.entries /\ q.index = v.index /\ q.panic = v.panic
    <3> HIDE DEF w, r
    <3> QED BY <1>1, <2>1, AddFuture
  <2> QED BY <2>2
<1> HIDE DEF w
<1>7. Rewrites(w, r, x, e) /\ r.timers = w.timers /\ r.index = w.index
  BY <1>3, <1>6, SetEntryIs
<1> HIDE DEF r
<1>8. Versions(v) = Versions(s) /\ Versions(w) = Versions(s)
  BY <1>5, <1>6 DEF Rewrites, Versions
<1>9. \A c \in Versions(s) :
        /\ v.entries[c].latest = s.entries[c].latest /\ v.entries[c].deleteAt = s.entries[c].deleteAt
        /\ v.entries[c].refcount = s.entries[c].refcount /\ v.entries[c].staleAt = s.entries[c].staleAt
  BY <1>2, <1>5 DEF Rewrites
<1>10. /\ r \in Store /\ ~r.panic /\ Versions(r) = Versions(s) \cup {x} /\ r.entries[x] = e
       /\ \A c \in Versions(s) : r.entries[c] = v.entries[c]
       /\ r.timers = s.timers \cup {TimerOf(x, Future, x)} /\ r.index = s.index
  BY <1>1, <1>5, <1>6, <1>7, <1>8 DEF Rewrites
<1>11. s.index = "live"
  BY DEF Good, Indexed
<1>12. Announces(s, r, x)
  BY <1>3, <1>9, <1>10, <1>11 DEF Announces
<1> QED BY <1>4, <1>12

\* A version that starts now after the latest one, whose delete it takes over.
LEMMA SupersedeNow ==
    ASSUME NEW s, NEW h, Good(s, h, ctx), Quiet(s), NEW x \in Targets, x = ctx, x \notin Versions(s),
           NEW d \in Data, NEW m \in Versions(s), s.entries[m].latest
    PROVE  Starts(s, Supersede(s, x, d, m, FALSE), x)
<1> DEFINE at == s.entries[m].deleteAt
           p == [s.entries[m] EXCEPT !.deleteAt = Never]
           v == SetEntry(s, m, p)
           f == [v.entries[m] EXCEPT !.latest = FALSE]
           w == PutEntry(v, m, f)
           y == IF at = Never THEN w ELSE AddTimer(DelTimer(w, at, Delete, m), at, Delete, x)
           l == x <= ctx
           e == NewVersion(d, l, at)
           r == SetEntry(y, x, e)
<1>1. /\ s \in Store /\ ~s.panic /\ ctx \in Nat /\ ctx \in Blocks /\ Never \in Nat /\ x < Never
      /\ m \in Targets /\ m # NoBlock /\ s.entries[m] \in Entries(Data) /\ at \in Nat /\ h[m] \in Nat
  BY QuietFacts, Bounds, EntryOf
<1>2. /\ p \in Entries(Data) /\ p.latest = s.entries[m].latest /\ p.deleteAt = Never
      /\ p.refcount = s.entries[m].refcount /\ p.staleAt = s.entries[m].staleAt
  BY <1>1, PlannedEntry
<1>3. e \in Entries(Data) /\ e.latest /\ e.deleteAt = at /\ e.refcount = 1
  <2>1. l = TRUE
    BY <1>1
  <2> HIDE DEF l, at
  <2> QED BY <1>1, <2>1, NewVersionFields
<1>4. /\ m <= ctx /\ s.entries[m].refcount = h[m] + 1
      /\ \A c \in Versions(s) : s.entries[c].latest => c = m
  BY OneLatest
<1>5. Rewrites(s, v, m, p) /\ v.timers = s.timers /\ v.index = s.index
  <2> HIDE DEF p
  <2> QED BY <1>1, <1>2, SetEntryIs
<1>6. Supersede(s, x, d, m, FALSE) = r
  <2>1. v.entries[m].latest /\ ~(x > ctx)
    <3> HIDE DEF v, p
    <3>1. v.entries[m] = p
      BY <1>5 DEF Rewrites
    <3>2. ~(x > ctx)
      BY <1>1
    <3> QED BY <1>2, <3>1, <3>2
  <2>2. Supersede(s, x, d, m, FALSE) =
          LET started == IF x > ctx THEN AddTimer(v, x, Future, x)
                         ELSE IF m # NoBlock /\ v.entries[m].latest THEN w ELSE v
          IN  SetEntry(IF at = Never THEN started
                       ELSE AddTimer(DelTimer(started, at, Delete, m), at, Delete, x), x, e)
    BY DEF Supersede, NewVersion
  <2> HIDE DEF v, e, w, at
  <2> QED BY <1>1, <2>1, <2>2
<1> HIDE DEF p, v, l, e, at
<1>7. Versions(v) = Versions(s) /\ v \in Store /\ v.panic = s.panic /\ v.entries[m] = p
      /\ \A c \in Versions(s) \ {m} : v.entries[c] = s.entries[c]
  BY <1>5 DEF Rewrites
<1>8. f \in Entries(Data) /\ f.latest = FALSE /\ f.deleteAt = Never /\ f.refcount = s.entries[m].refcount
  <2>1. LET q == [p EXCEPT !.latest = FALSE]
        IN  /\ q \in Entries(Data) /\ q.latest = FALSE /\ q.deleteAt = p.deleteAt
            /\ q.refcount = p.refcount /\ q.staleAt = p.staleAt
    BY <1>2, UnmarkedEntry
  <2> QED BY <1>2, <1>7, <2>1
<1> HIDE DEF f
<1>9. Releases(v, w, m, f)
  <2>1. f.refcount > 0
    BY <1>1, <1>4, <1>8
  <2> QED BY <1>1, <1>4, <1>7, <1>8, <2>1, PutEntryIs
<1>10. Scanned(w, ctx)
  <2>1. \A c \in Versions(s) : v.entries[c].refcount = s.entries[c].refcount /\ v.entries[c].staleAt = s.entries[c].staleAt
    BY <1>2, <1>7
  <2>2. Scanned(v, ctx)
    BY <1>5, <1>7, <2>1 DEF Good, Scanned, IsStaleBy
  <2> HIDE DEF w
  <2> QED BY <1>1, <1>7, <1>9, <2>2, ReleaseScanned
<1> HIDE DEF w
<1>11. /\ w \in Store /\ ~w.panic /\ w.index = "live" /\ Versions(w) = Versions(s)
       /\ ~w.entries[m].latest /\ w.entries[m].deleteAt = Never
       /\ w.entries[m].refcount = s.entries[m].refcount - 1 /\ ~IsStaleBy(w.entries[m], ctx)
       /\ \A c \in Versions(s) \ {m} : w.entries[c] = s.entries[c]
       /\ s.timers \subseteq w.timers /\ \A t \in w.timers \ s.timers : t.kind = Stale /\ t.at > ctx
  <2>1. s.index = "live"
    BY DEF Good, Indexed
  <2>2. ~IsStaleBy(w.entries[m], ctx)
    BY <1>1, <1>7, <1>9, ReleaseFresh
  <2> QED BY <1>1, <1>5, <1>7, <1>8, <1>9, <2>1, <2>2 DEF Releases
\* The pending delete of m, if any, becomes one of x.
<1>12. /\ at \in Targets \cup {Never} /\ at > x
       /\ at # Never => TimerOf(at, Delete, m) \in s.timers
  <2>1. at \in Targets \cup {Never}
    BY DEF Good, Deletes, at
  <2>2. at # Never => TimerOf(at, Delete, m) \in s.timers
    BY DEF Good, Deletes, at
  <2>3. at # Never => at > ctx
    BY <2>2, TimerFields DEF Quiet
  <2>4. Never > x
    BY <1>1, Bounds
  <2> QED BY <2>1, <2>2, <2>3, <2>4
<1>13. \A t \in s.timers : t.kind = Delete <=> at # Never /\ t = TimerOf(at, Delete, m)
  <2>1. ASSUME NEW t \in s.timers, t.kind = Delete PROVE at # Never /\ t = TimerOf(at, Delete, m)
    <3>1. t.block \in Versions(s) /\ s.entries[t.block].latest /\ s.entries[t.block].deleteAt = t.at
      BY <2>1 DEF Good, Plan
    <3>2. t.block = m
      BY <1>4, <3>1
    <3>3. t = TimerOf(t.at, Delete, m) /\ t.at \in Targets
      BY <1>1, <2>1, <3>2, Kinds, StoreFields, TimerFields DEF Good, Plan
    <3>4. at = t.at
      BY <3>1, <3>2 DEF at
    <3> QED BY <3>3, <3>4, Bounds
  <2> QED BY <2>1, TimerFields
<1>14. /\ y \in Store /\ ~y.panic /\ y.index = "live" /\ y.entries = w.entries
       /\ \A t : t \in y.timers <=>
            (t \in w.timers /\ t.kind # Delete) \/ (at # Never /\ t = TimerOf(at, Delete, x))
  <2>1. CASE at = Never
    <3>1. y = w
      BY <2>1
    <3>2. \A t \in w.timers : t.kind # Delete
      BY <1>11, <1>13, <2>1, Kinds
    <3> QED BY <1>11, <2>1, <3>1, <3>2
  <2>2. CASE at # Never
    <3> DEFINE t0 == TimerOf(at, Delete, m)
               q == DelTimer(w, at, Delete, m)
    <3>1. t0 \in w.timers /\ t0.at = at /\ t0.kind = Delete /\ t0.block = m
      BY <1>11, <1>12, <2>2, TimerFields
    <3>2. /\ q \in Store /\ q.timers = w.timers \ {t0}
          /\ q.entries = w.entries /\ q.index = w.index /\ q.panic = w.panic
      <4> HIDE DEF t0
      <4>1. /\ LET z == [w EXCEPT !.timers = @ \ {t0}]
               IN  /\ z \in Store /\ z.timers = w.timers \ {t0}
                   /\ z.entries = w.entries /\ z.index = w.index /\ z.panic = w.panic
            /\ DelTimer(w, t0.at, t0.kind, t0.block) = [w EXCEPT !.timers = @ \ {t0}]
        BY <1>11, <3>1, DelTimerIs
      <4> QED BY <3>1, <4>1
    <3> HIDE DEF q
    <3>3. y = AddTimer(q, at, Delete, x)
      BY <2>2 DEF q
    <3>4. LET z == AddTimer(q, at, Delete, x)
          IN  /\ z \in Store /\ z.timers = q.timers \cup {TimerOf(at, Delete, x)}
              /\ z.entries = q.entries /\ z.index = q.index /\ z.panic = q.panic
      <4>1. at \in Nat /\ at > ctx
        BY <1>1, <1>12
      <4>2. q \in Store
        BY <3>2
      <4> HIDE DEF y, t0, r
      <4> QED BY <1>1, <4>1, <4>2, AddDelete
    <3>5. \A t \in w.timers : t.kind = Delete => t = t0
      BY <1>11, <1>13, Kinds
    <3>6. t0 # TimerOf(at, Delete, x) \/ t0 = TimerOf(at, Delete, x)
      OBVIOUS
    <3>7. \A t : t \in y.timers <=> t \in w.timers \ {t0} \/ t = TimerOf(at, Delete, x)
      BY <3>2, <3>3, <3>4
    <3>8. \A t \in w.timers : t.kind # Delete <=> t # t0
      BY <3>1, <3>5
    <3> QED BY <1>11, <2>2, <3>2, <3>3, <3>4, <3>7, <3>8
  <2> QED BY <2>1, <2>2
<1> HIDE DEF y
<1>15. Rewrites(y, r, x, e) /\ r.timers = y.timers /\ r.index = y.index
  BY <1>3, <1>14, SetEntryIs
<1> HIDE DEF r
<1>16. /\ r \in Store /\ ~r.panic /\ r.index = "live" /\ Versions(r) = Versions(s) \cup {x}
       /\ r.entries[x] = e /\ \A c \in Versions(s) : r.entries[c] = w.entries[c]
       /\ Versions(y) = Versions(s)
  BY <1>11, <1>14, <1>15 DEF Rewrites, Versions
<1>17. Scanned(r, ctx)
  <2>1. Scanned(y, ctx)
    <3>1. \A a, c : TimerOf(a, Stale, c) \in w.timers => TimerOf(a, Stale, c) \in y.timers
      BY <1>14, Kinds, TimerFields
    <3>2. \A t \in w.timers : t.kind = Stale => t \in y.timers
      BY <1>14, Kinds
    <3> QED BY <1>10, <1>11, <1>14, <1>16, <3>1, <3>2 DEF Scanned
  <2> QED BY <1>1, <1>3, <1>14, <1>15, <1>16, <2>1, AddScanned
<1>18. Starts(s, r, x)
  <2>1. \A c \in Versions(s) :
         /\ ~r.entries[c].latest
         /\ s.entries[c].latest => /\ r.entries[c].deleteAt = Never /\ ~IsStaleBy(r.entries[c], ctx)
                                   /\ r.entries[c].refcount = s.entries[c].refcount - 1
         /\ ~s.entries[c].latest => r.entries[c] = s.entries[c]
    BY <1>4, <1>11, <1>16
  <2>2. \A t \in r.timers :
         \/ t \in s.timers /\ t.kind # Delete
         \/ t.kind = Stale /\ t.at > ctx
         \/ t = TimerOf(at, Delete, x) /\ at # Never
    BY <1>11, <1>14, <1>15
  <2>3. at # Never => /\ TimerOf(at, Delete, x) \in r.timers
                      /\ \E t \in s.timers : t.kind = Delete /\ t.at = at
    BY <1>12, <1>14, <1>15, TimerFields
  <2>4. \A t \in s.timers : t.kind # Delete => t \in r.timers
    BY <1>11, <1>14, <1>15
  <2>5. r.entries[x].deleteAt = at /\ r.entries[x].latest /\ r.entries[x].refcount = 1
    BY <1>3, <1>16
  <2> QED BY <1>12, <1>16, <1>17, <2>1, <2>2, <2>3, <2>4, <2>5 DEF Starts
<1> QED BY <1>6, <1>18

LEMMA AppendIs ==
    ASSUME NEW s, NEW h, Good(s, h, ctx), Quiet(s), NEW x \in AppendBlocks[ctx], NEW d \in Data
    PROVE  LET r == AppendEntry(s, x, d)
           IN  \/ r = s
               \/ x \in Versions(s) /\ r = ModifyEntry(s, x, d)
               \/ x > ctx /\ Announces(s, r, x)
               \/ x = ctx /\ Starts(s, r, x)
<1>1. /\ s \in Store /\ ~s.panic /\ ctx \in Nat /\ ctx \in Blocks /\ ctx < Never
      /\ Versions(s) \in SUBSET Targets /\ Started(s) \in SUBSET Targets
      /\ \A c \in Versions(s) : c \in Nat /\ (c \in Waiting(s) <=> c > ctx) /\ (c \in Started(s) <=> c <= ctx)
  BY QuietFacts
<1>2. x \in Named(ctx) /\ x \in Targets /\ x \in Nat /\ x >= ctx /\ x > 0 /\ x < Never
  <2>1. x \in Named(ctx) /\ x \in Targets
    BY <1>1, UsersAssumption DEF Named
  <2> QED BY <1>1, <2>1, NextEpochAssumption, Bounds
<1> DEFINE prev == Nearest(s, x)
           first == IsFirst(s, x)
<1>3. AppendEntry(s, x, d) =
        IF ~AppendSucceeds(s, x) THEN s
        ELSE IF ~first /\ x = prev THEN ModifyEntry(s, x, d)
        ELSE Supersede(s, x, d, prev, first)
  BY DEF AppendEntry
<1>4. first = (prev # NoBlock => IsDeletedBy(s.entries[prev], ctx))
  BY DEF IsFirst
<1>5. AppendSucceeds(s, x) /\ ~first => (x # prev => ~IsDeletedBy(s.entries[prev], x))
  BY DEF AppendSucceeds
<1>6. CASE x > ctx /\ x \in Versions(s)
  <2>1. prev = x /\ ~first
    <3>1. x \in Waiting(s) /\ \A c \in Versions(s) : c <= x => c <= x
      BY <1>1, <1>6
    <3>2. s.entries[x].deleteAt = Never /\ h[x] = 0
      BY <3>1 DEF Good, Fresh
    <3>3. s.entries[x].refcount = h[x] + 1
      BY <1>6, <3>1 DEF Good, Counted
    <3>4. ~IsStaleBy(s.entries[x], ctx) /\ ~IsDeletedBy(s.entries[x], ctx)
      BY <1>1, <3>2, <3>3, Bounds DEF IsStaleBy, IsDeletedBy
    <3>5. x <= x
      BY <1>2
    <3>6. prev = x
      BY <1>1, <1>2, <1>6, <3>4, <3>5, NearestMax
    <3>7. x # NoBlock
      BY <1>2, Bounds
    <3> HIDE DEF prev, first
    <3> QED BY <1>4, <3>4, <3>6, <3>7
  <2> HIDE DEF prev, first
  <2> QED BY <1>3, <1>6, <2>1
<1>7. CASE ~(x > ctx /\ x \in Versions(s))
  <2>1. \A c \in Versions(s) : c <= x <=> c \in Started(s)
    <3>1. CASE x > ctx
      <4>1. \A c \in Versions(s) : c <= x /\ (c >= x <=> c \in Waiting(s))
        BY <1>2, <3>1, OneBlockAhead
      <4>2. \A c \in Versions(s) : c # x
        BY <1>7, <3>1
      <4> QED BY <1>1, <1>2, <4>1, <4>2 DEF Started
    <3>2. CASE ~(x > ctx)
      <4>1. x = ctx
        BY <1>1, <1>2, <3>2
      <4> QED BY <1>1, <4>1
    <3> QED BY <3>1, <3>2
  <2>2. \/ Started(s) = {} /\ prev = NoBlock
        \/ /\ prev \in Started(s) /\ \A c \in Started(s) : c <= prev
           /\ \/ s.entries[prev].latest
              \/ /\ s.entries[prev].deleteAt <= ctx
                 /\ \A c \in Versions(s) : ~s.entries[c].latest
    BY <1>2, <2>1, NearestStarted
  <2> HIDE DEF prev, first
  <2>3. prev \in Started(s) => prev \in Versions(s) /\ prev # NoBlock
    BY <1>1, Bounds DEF Started
  \* With no latest version the new one is the first.
  <2>4. CASE \A c \in Versions(s) : ~s.entries[c].latest
    <3>1. first = TRUE /\ (prev = NoBlock \/ prev \in Versions(s))
      BY <1>4, <2>2, <2>3, <2>4 DEF IsDeletedBy
    <3>2. CASE x \in Versions(s)
      <4>1. x = ctx /\ x \in Started(s) /\ \A c \in Started(s) : c <= x
        BY <1>1, <1>2, <1>7, <3>2 DEF Started
      <4>2. s.entries[x].deleteAt <= ctx
        BY <2>4, <3>2, <4>1 DEF Good, Newest
      <4>3. s.entries[x].deleteAt > ctx /\ s.entries[x].deleteAt \in Nat
        BY <3>2, <4>1, EntryOf DEF Good, Deletes
      <4> QED BY <1>1, <4>2, <4>3
    <3>3. CASE x \notin Versions(s)
      <4>1. ASSUME x > ctx, NEW t \in s.timers PROVE t.kind = Stale
        <5>1. SUFFICES ASSUME t.kind # Stale PROVE FALSE
          OBVIOUS
        <5>2. t \in Timer /\ t.kind \in {Future, Delete, Stale}
          BY <1>1, StoreFields, TimerFields
        <5>3. t.kind # Delete
          BY <2>4 DEF Good, Plan
        <5>4. t.kind = Future /\ t.block \in Versions(s) /\ t.at = t.block
          BY <5>1, <5>2, <5>3 DEF Good, Plan
        <5>5. t.at = x
          BY <1>2, <4>1, <5>1, OneBlockAhead
        <5> QED BY <3>3, <5>4, <5>5
      <4>2. LET r == Supersede(s, x, d, prev, TRUE)
            IN  IF x > ctx THEN Announces(s, r, x) ELSE Starts(s, r, x)
        BY <1>2, <2>4, <3>1, <3>3, <4>1, SupersedeFirst
      <4>3. AppendEntry(s, x, d) = s \/ AppendEntry(s, x, d) = Supersede(s, x, d, prev, TRUE)
        BY <1>3, <3>1
      <4>4. ~(x > ctx) => x = ctx
        BY <1>1, <1>2
      <4> QED BY <4>2, <4>3, <4>4
    <3> QED BY <3>2, <3>3
  \* Otherwise it follows the latest.
  <2>5. CASE ~ \A c \in Versions(s) : ~s.entries[c].latest
    <3>1. prev \in Versions(s) /\ prev # NoBlock /\ prev \in Started(s) /\ s.entries[prev].latest
      <4>1. PICK c \in Versions(s) : s.entries[c].latest
        BY <2>5
      <4>2. c \in Started(s)
        BY <4>1, OneLatest
      <4> QED BY <2>2, <2>3, <2>5, <4>2
    <3>2. /\ s.entries[prev].deleteAt \in Targets \cup {Never} /\ s.entries[prev].deleteAt \in Nat
          /\ (s.entries[prev].deleteAt # Never => TimerOf(s.entries[prev].deleteAt, Delete, prev) \in s.timers)
      BY <3>1, EntryOf DEF Good, Deletes
    <3>3. s.entries[prev].deleteAt # Never => s.entries[prev].deleteAt > ctx
      BY <3>2, TimerFields DEF Quiet
    <3>4. ~IsDeletedBy(s.entries[prev], ctx)
      BY <1>1, <3>2, <3>3, Bounds DEF IsDeletedBy
    <3>5. first = FALSE
      BY <1>4, <3>1, <3>4
    <3>6. CASE x \in Versions(s)
      <4>1. x = ctx /\ x \in Started(s)
        BY <1>1, <1>2, <1>7, <3>6
      <4>2. x <= prev /\ prev <= ctx /\ prev \in Nat
        BY <1>1, <2>2, <3>1, <4>1, OneLatest
      <4>3. x = prev
        BY <1>1, <4>1, <4>2
      <4> QED BY <1>3, <3>5, <3>6, <4>3
    <3>7. CASE x \notin Versions(s) /\ x > ctx
      <4>1. CASE ~AppendSucceeds(s, x)
        BY <1>3, <4>1
      <4>2. CASE AppendSucceeds(s, x)
        <5>1. ~IsDeletedBy(s.entries[prev], x)
          BY <1>5, <3>1, <3>5, <3>7, <4>2
        <5>2. \A t \in s.timers : t.kind # Stale => t.at = x
          BY <1>2, <3>7, OneBlockAhead
        <5>3. s.entries[prev].deleteAt = Never
          <6>1. SUFFICES ASSUME s.entries[prev].deleteAt # Never PROVE FALSE
            OBVIOUS
          <6>2. s.entries[prev].deleteAt = x
            BY <3>2, <5>2, <6>1, Kinds, TimerFields
          <6>3. x <= x
            BY <1>2
          <6> QED BY <5>1, <6>2, <6>3 DEF IsDeletedBy
        <5>4. ASSUME NEW t \in s.timers PROVE t.kind = Stale
          <6>1. SUFFICES ASSUME t.kind # Stale PROVE FALSE
            OBVIOUS
          <6>2. t \in Timer /\ t.kind \in {Future, Delete, Stale}
            BY <1>1, StoreFields, TimerFields
          <6>3. t.at = x
            BY <5>2, <6>1
          <6>4. CASE t.kind = Future
            BY <3>7, <6>3, <6>4 DEF Good, Plan
          <6>5. CASE t.kind = Delete
            <7>1. t.block \in Versions(s) /\ s.entries[t.block].latest /\ s.entries[t.block].deleteAt = t.at
              BY <6>5 DEF Good, Plan
            <7>2. t.block = prev
              BY <3>1, <7>1, OneLatest
            <7> QED BY <1>2, <5>3, <6>3, <7>1, <7>2
          <6> QED BY <6>1, <6>2, <6>4, <6>5
        <5>5. Announces(s, Supersede(s, x, d, prev, FALSE), x)
          BY <1>2, <3>1, <3>7, <5>3, <5>4, SupersedeAhead
        <5>6. AppendEntry(s, x, d) = Supersede(s, x, d, prev, FALSE)
          BY <1>3, <3>1, <3>5, <3>7, <4>2
        <5> QED BY <3>7, <5>5, <5>6
      <4> QED BY <4>1, <4>2
    <3>8. CASE x \notin Versions(s) /\ ~(x > ctx)
      <4>1. x = ctx
        BY <1>1, <1>2, <3>8
      <4>2. Starts(s, Supersede(s, x, d, prev, FALSE), x)
        BY <1>2, <3>1, <3>8, <4>1, SupersedeNow
      <4>3. AppendEntry(s, x, d) = s \/ AppendEntry(s, x, d) = Supersede(s, x, d, prev, FALSE)
        BY <1>3, <3>1, <3>5, <3>8
      <4> QED BY <4>1, <4>2, <4>3
    <3> QED BY <3>6, <3>7, <3>8
  <2> QED BY <2>4, <2>5
<1> QED BY <1>6, <1>7

LEMMA AnnounceKeeps ==
    ASSUME NEW s, NEW h, Good(s, h, ctx), Quiet(s), NEW x \in Named(ctx), x > ctx,
           NEW r, Announces(s, r, x)
    PROVE  Good(r, h, ctx) /\ SamePast(s, r, ctx)
<1>1. /\ s \in Store /\ h \in [Targets -> Nat] /\ ctx \in Blocks /\ ctx \in Nat
      /\ Versions(s) \in SUBSET Targets
      /\ \A c \in Versions(s) : c \in Nat /\ (c \in Waiting(s) <=> c > ctx) /\ (c \in Started(s) <=> c <= ctx)
  BY QuietFacts
<1>2. x \in Targets /\ x \in Nat /\ Planned(x, ctx)
  BY OneBlockAhead
<1>3. /\ r \in Store /\ ~r.panic /\ r.index = "live"
      /\ Versions(r) = Versions(s) \cup {x} /\ x \notin Versions(s)
      /\ ~r.entries[x].latest /\ r.entries[x].deleteAt = Never /\ r.entries[x].refcount = 1
      /\ \A c \in Versions(s) :
           /\ r.entries[c].latest = s.entries[c].latest /\ r.entries[c].deleteAt = s.entries[c].deleteAt
           /\ r.entries[c].refcount = s.entries[c].refcount /\ r.entries[c].staleAt = s.entries[c].staleAt
      /\ r.timers = s.timers \cup {TimerOf(x, Future, x)}
      /\ \A t \in s.timers : t.kind = Stale
  BY DEF Announces
<1>4. LET t == TimerOf(x, Future, x) IN t.at = x /\ t.kind = Future /\ t.block = x
  BY TimerFields
<1>5. Waiting(s) = {} /\ Started(s) = Versions(s)
  <2>1. Waiting(s) = {}
    BY <1>3, Kinds, TimerFields DEF Waiting
  <2> QED BY <2>1 DEF Started
<1>6. Waiting(r) = {x} /\ Started(r) = Versions(s)
  <2>1. \A c : TimerOf(c, Future, c) \notin s.timers
    BY <1>3, Kinds, TimerFields
  <2>2. \A c : TimerOf(c, Future, c) = TimerOf(x, Future, x) => c = x
    BY TimerFields
  <2>3. \A c : TimerOf(c, Future, c) \in r.timers <=> c = x
    BY <1>3, <2>1, <2>2
  <2>4. Waiting(r) = {x}
    BY <1>3, <2>3 DEF Waiting
  <2> QED BY <1>3, <2>4 DEF Started
<1>7. h[x] = 0
  BY <1>1, <1>2, <1>3 DEF Good, Counted
<1>8. Shape(r, h, ctx)
  BY <1>1, <1>3 DEF Shape
<1>9. Plan(r, ctx)
  <2>1. \A t \in r.timers : t.kind # Stale => t = TimerOf(x, Future, x)
    BY <1>3
  <2>2. \A t \in r.timers : t.at >= ctx
    <3>1. x >= ctx
      BY <1>1, <1>2
    <3> QED BY <1>3, <1>4, <3>1 DEF Good, Plan
  <2>3. \A t, u \in r.timers : t.kind # Stale /\ u.kind # Stale => t = u
    BY <2>1
  <2>4. \A t \in r.timers : t.kind # Stale => t.at \in Targets /\ Planned(t.at, ctx)
    BY <1>2, <1>4, <2>1
  <2>5. \A t \in r.timers : t.kind = Future => t.block \in Versions(r) /\ t.at = t.block
    BY <1>3, <1>4, <2>1, Kinds
  <2>6. \A t \in r.timers : t.kind # Delete
    BY <1>4, <2>1, Kinds
  <2> QED BY <2>2, <2>3, <2>4, <2>5, <2>6 DEF Plan
<1>10. Fresh(r, h, ctx)
  BY <1>3, <1>5, <1>6, <1>7 DEF Good, Fresh
<1>11. Newest(r, ctx)
  BY <1>3, <1>5, <1>6 DEF Good, Newest
<1>12. Deletes(r, ctx)
  <2>1. \A c \in Versions(s) : s.entries[c].latest => s.entries[c].deleteAt = Never
    BY <1>3, Kinds, TimerFields DEF Good, Deletes
  <2>2. ASSUME NEW c \in Versions(r)
        PROVE  LET e == r.entries[c] IN
                 /\ e.deleteAt \in Targets \cup {Never} /\ e.deleteAt > c
                 /\ e.deleteAt # Never =>
                      IF e.latest THEN TimerOf(e.deleteAt, Delete, c) \in r.timers
                      ELSE e.deleteAt <= ctx
    <3>1. CASE c = x
      BY <1>2, <1>3, <3>1, Bounds
    <3>2. CASE c # x
      BY <1>3, <2>1, <3>2 DEF Good, Deletes
    <3> QED BY <3>1, <3>2
  <2> QED BY <2>2 DEF Deletes
<1>13. Counted(r, h)
  <2>1. ASSUME NEW c \in Versions(r)
        PROVE  r.entries[c].refcount = h[c] + (IF r.entries[c].latest \/ c \in Waiting(r) THEN 1 ELSE 0)
    <3>1. CASE c = x
      BY <1>3, <1>6, <1>7, <3>1
    <3>2. CASE c # x
      <4>1. c \in Versions(s) /\ c \notin Waiting(r) /\ c \notin Waiting(s)
        BY <1>3, <1>5, <1>6, <3>2
      <4> QED BY <1>3, <4>1 DEF Good, Counted
    <3> QED BY <3>1, <3>2
  <2> QED BY <1>3, <2>1 DEF Good, Counted
<1>14. Indexed(r)
  BY <1>3, <1>6 DEF Indexed
<1>15. Scanned(r, ctx)
  <2>1. \A c \in Versions(r) : r.entries[c].refcount = 0 /\ r.entries[c].staleAt > ctx =>
          TimerOf(r.entries[c].staleAt, Stale, c) \in r.timers
    BY <1>3 DEF Good, Scanned
  <2>2. ~ \E t \in s.timers : t.kind = Stale /\ t.at <= ctx
    <3>1. \A t \in s.timers : t.at \in Nat /\ t.at > ctx
      BY <1>1, StoreFields, TimerFields DEF Quiet
    <3> QED BY <1>1, <3>1
  <2>3. ASSUME NEW c \in Versions(r), \A d \in Versions(r) : c <= d PROVE ~IsStaleBy(r.entries[c], ctx)
    <3>1. CASE c = x
      BY <1>3, <3>1 DEF IsStaleBy
    <3>2. CASE c # x
      <4>1. c \in Versions(s) /\ \A d \in Versions(s) : c <= d
        BY <1>3, <2>3, <3>2
      <4>2. ~IsStaleBy(s.entries[c], ctx)
        BY <2>2, <4>1 DEF Good, Scanned
      <4> QED BY <1>3, <4>1, <4>2 DEF IsStaleBy
    <3> QED BY <3>1, <3>2
  <2> QED BY <2>1, <2>3 DEF Scanned
<1>16. SamePast(s, r, ctx)
  <2>1. ~(x < ctx)
    BY <1>1, <1>2
  <2> QED BY <1>3, <2>1 DEF SamePast, IsStaleBy, IsDeletedBy
<1> QED BY <1>8, <1>9, <1>10, <1>11, <1>12, <1>13, <1>14, <1>15, <1>16 DEF Good

LEMMA StartKeeps ==
    ASSUME NEW s, NEW h, Good(s, h, ctx), Quiet(s), NEW x \in Targets, x = ctx, NEW r, Starts(s, r, x)
    PROVE  Good(r, h, ctx) /\ SamePast(s, r, ctx)
<1> DEFINE at == r.entries[x].deleteAt
           mine == TimerOf(at, Delete, x)
<1>1. /\ s \in Store /\ h \in [Targets -> Nat] /\ ctx \in Blocks /\ ctx \in Nat
      /\ Versions(s) \in SUBSET Targets /\ Started(s) \subseteq Versions(s)
      /\ \A c \in Versions(s) : c \in Nat /\ (c \in Waiting(s) <=> c > ctx) /\ (c \in Started(s) <=> c <= ctx)
  BY QuietFacts DEF Started
<1>2. /\ r \in Store /\ ~r.panic /\ r.index = "live"
      /\ Versions(r) = Versions(s) \cup {x} /\ x \notin Versions(s)
      /\ r.entries[x].latest /\ r.entries[x].refcount = 1
      /\ at \in Targets \cup {Never} /\ at > x
      /\ \A c \in Versions(s) :
           /\ ~r.entries[c].latest
           /\ s.entries[c].latest => r.entries[c].deleteAt = Never /\ r.entries[c].refcount = s.entries[c].refcount - 1
           /\ ~s.entries[c].latest => r.entries[c] = s.entries[c]
  BY DEF Starts
<1>3. /\ \A t \in r.timers :
           \/ t \in s.timers /\ t.kind # Delete
           \/ t.kind = Stale /\ t.at > ctx
           \/ t = mine /\ at # Never
      /\ at # Never => mine \in r.timers /\ \E t \in s.timers : t.kind = Delete /\ t.at = at
      /\ \A t \in s.timers : t.kind # Delete => t \in r.timers
      /\ Scanned(r, ctx)
  BY DEF Starts
<1>4. mine.at = at /\ mine.kind = Delete /\ mine.block = x
  BY TimerFields
<1> HIDE DEF at, mine
<1>5. at = r.entries[x].deleteAt /\ mine = TimerOf(at, Delete, x)
  BY DEF at, mine
<1>6. \A c : TimerOf(c, Future, c) \in r.timers <=> TimerOf(c, Future, c) \in s.timers
  BY <1>3, <1>4, Kinds, TimerFields
<1>7. Waiting(r) = Waiting(s) /\ Started(r) = Started(s) \cup {x}
  <2>1. x \notin Waiting(r)
    <3>1. TimerOf(x, Future, x) \notin s.timers
      <4>1. TimerOf(x, Future, x).at = ctx /\ ~(ctx > ctx)
        BY <1>1, TimerFields
      <4> QED BY <4>1 DEF Quiet
    <3> QED BY <1>6, <3>1 DEF Waiting
  <2>2. Waiting(r) = Waiting(s)
    BY <1>2, <1>6, <2>1 DEF Waiting
  <2> QED BY <1>2, <2>1, <2>2 DEF Started
<1>8. h[x] = 0 /\ \A c \in Started(s) : c <= x
  BY <1>1, <1>2 DEF Good, Counted
<1>9. Shape(r, h, ctx)
  BY <1>1, <1>2 DEF Shape
<1>10. Plan(r, ctx)
  \* The delete of x stands for the one that was pending.
  <2>0. at # Never => \E t \in s.timers : t.kind = Delete /\ t.at = at
    BY <1>3
  <2>1. at # Never => /\ at \in Targets /\ Planned(at, ctx) /\ at >= ctx
                      /\ \A t \in s.timers : t.kind # Stale => t.kind = Delete
    <3>1. SUFFICES ASSUME at # Never
          PROVE  /\ at \in Targets /\ Planned(at, ctx) /\ at >= ctx
                 /\ \A t \in s.timers : t.kind # Stale => t.kind = Delete
      OBVIOUS
    <3>2. PICK t \in s.timers : t.kind = Delete /\ t.at = at
      BY <2>0, <3>1
    <3>3. at \in Targets /\ Planned(at, ctx) /\ at >= ctx
      BY <3>2, Kinds DEF Good, Plan
    <3>4. \A u \in s.timers : u.kind # Stale => u = t
      BY <3>2, Kinds DEF Good, Plan
    <3> QED BY <3>2, <3>3, <3>4
  <2>2. \A t \in r.timers : t.kind # Stale => (t \in s.timers /\ t.kind = Future) \/ (t = mine /\ at # Never)
    <3>1. \A t \in r.timers : t.kind \in {Future, Delete, Stale}
      BY <1>2, StoreFields, TimerFields
    <3> QED BY <1>3, <3>1
  <2>3. \A t \in r.timers : t.at >= ctx
    <3>1. \A t \in r.timers : t.at \in Nat
      BY <1>2, StoreFields, TimerFields
    <3> QED BY <1>1, <1>3, <1>4, <2>1, <3>1 DEF Good, Plan
  <2>4. ASSUME NEW t \in r.timers, NEW u \in r.timers, t.kind # Stale, u.kind # Stale PROVE t = u
    <3>1. CASE at = Never
      BY <2>2, <2>4, <3>1 DEF Good, Plan
    <3>2. CASE at # Never
      BY <2>1, <2>2, <2>4, <3>2, Kinds
    <3> QED BY <3>1, <3>2
  <2>5. \A t \in r.timers : t.kind # Stale => t.at \in Targets /\ Planned(t.at, ctx)
    BY <1>4, <2>1, <2>2 DEF Good, Plan
  <2>6. \A t \in r.timers : t.kind = Future => t.block \in Versions(r) /\ t.at = t.block
    BY <1>2, <1>4, <2>2, Kinds DEF Good, Plan
  <2>7. \A t \in r.timers : t.kind = Delete =>
         t.block \in Versions(r) /\ r.entries[t.block].latest /\ r.entries[t.block].deleteAt = t.at
    BY <1>2, <1>4, <1>5, <2>2, Kinds
  <2> QED BY <2>3, <2>4, <2>5, <2>6, <2>7 DEF Plan
<1>11. Fresh(r, h, ctx)
  <2>1. \A c \in Waiting(s) : c \in Versions(s) /\ ~s.entries[c].latest /\ s.entries[c].deleteAt = Never /\ h[c] = 0
    BY DEF Good, Fresh, Waiting
  <2>2. \A c \in Started(r) : c <= ctx
    BY <1>1, <1>7, <1>8
  <2> QED BY <1>2, <1>7, <2>1, <2>2 DEF Fresh
<1>12. Newest(r, ctx)
  <2>1. x \in Started(r) /\ \A c \in Started(r) : c <= x
    BY <1>1, <1>7, <1>8
  <2>2. ASSUME NEW c \in Started(r), \A e \in Started(r) : e <= c PROVE c = x
    <3>1. x <= c /\ c <= x /\ c \in Nat /\ x \in Nat
      BY <1>1, <1>7, <2>1, <2>2
    <3> QED BY <3>1
  <2> QED BY <1>2, <2>1, <2>2 DEF Newest
<1>13. Deletes(r, ctx)
  <2>2. ASSUME NEW c \in Versions(r)
        PROVE  LET e == r.entries[c] IN
                 /\ e.deleteAt \in Targets \cup {Never} /\ e.deleteAt > c
                 /\ e.deleteAt # Never =>
                      IF e.latest THEN TimerOf(e.deleteAt, Delete, c) \in r.timers
                      ELSE e.deleteAt <= ctx
    <3>1. CASE c = x
      BY <1>2, <1>3, <1>5, <3>1
    <3>2. CASE c # x /\ s.entries[c].latest
      <4>1. r.entries[c].deleteAt = Never /\ Never > c
        BY <1>1, <1>2, <3>2, Bounds
      <4> QED BY <4>1
    <3>3. CASE c # x /\ ~s.entries[c].latest
      <4>1. r.entries[c] = s.entries[c] /\ c \in Versions(s)
        BY <1>2, <3>3
      <4> QED BY <3>3, <4>1 DEF Good, Deletes
    <3> QED BY <3>1, <3>2, <3>3
  <2> QED BY <2>2 DEF Deletes
<1>14. Counted(r, h)
  <2>1. ASSUME NEW c \in Versions(r)
        PROVE  r.entries[c].refcount = h[c] + (IF r.entries[c].latest \/ c \in Waiting(r) THEN 1 ELSE 0)
    <3>1. CASE c = x
      BY <1>2, <1>8, <3>1
    <3>2. CASE c # x
      <4>1. c \in Versions(s) /\ ~r.entries[c].latest /\ h[c] \in Nat
        BY <1>2, <3>2, EntryOf
      <4>2. s.entries[c].refcount = h[c] + (IF s.entries[c].latest \/ c \in Waiting(s) THEN 1 ELSE 0)
        BY <4>1 DEF Good, Counted
      <4>3. CASE s.entries[c].latest
        <5>1. c \notin Waiting(s) /\ s.entries[c].refcount = h[c] + 1
          BY <4>1, <4>3, OneLatest
        <5> QED BY <1>2, <1>7, <4>1, <4>3, <5>1
      <4>4. CASE ~s.entries[c].latest
        BY <1>2, <1>7, <4>1, <4>2, <4>4
      <4> QED BY <4>3, <4>4
    <3> QED BY <3>1, <3>2
  <2> QED BY <1>2, <2>1 DEF Good, Counted
<1>15. Indexed(r)
  BY <1>2 DEF Indexed
<1>16. SamePast(s, r, ctx)
  <2>1. ~(x < ctx)
    BY <1>1
  <2>2. ASSUME NEW c \in Versions(s), s.entries[c].latest
        PROVE  /\ ~IsStaleBy(s.entries[c], ctx) /\ ~IsStaleBy(r.entries[c], ctx)
               /\ \A y \in Blocks : y < ctx => ~IsDeletedBy(s.entries[c], y) /\ ~IsDeletedBy(r.entries[c], y)
    <3>1. s.entries[c].refcount = h[c] + 1 /\ h[c] \in Nat /\ s.entries[c].deleteAt \in Nat
      BY <2>2, OneLatest, EntryOf
    <3>2. s.entries[c].deleteAt > ctx
      BY <2>2, LatestNotDeleted
    <3>3. r.entries[c].deleteAt = Never /\ ~IsStaleBy(r.entries[c], ctx)
      BY <2>2 DEF Starts
    <3>4. \A y \in Blocks : y \in Nat /\ y < Never
      BY Bounds
    <3> QED BY <1>1, <3>1, <3>2, <3>3, <3>4, Bounds DEF IsStaleBy, IsDeletedBy
  <2> QED BY <1>2, <2>1, <2>2 DEF SamePast
<1> QED BY <1>3, <1>9, <1>10, <1>11, <1>12, <1>13, <1>14, <1>15, <1>16 DEF Good

-----------------------------------------------------------------------------
(* The past. *)

\* Find at block now: what a lookup for an earlier block gives.
FindAt(s, now, block) ==
    LET candidates == {b \in Versions(s) : b <= block}
    IN  IF candidates = {} THEN NoBlock
        ELSE IF \/ IsStaleBy(s.entries[Max(candidates)], now)
                \/ IsDeletedBy(s.entries[Max(candidates)], block)
             THEN NoBlock ELSE Max(candidates)

LEMMA FindIsFindAt ==
    ASSUME NEW s \in Store, NEW block \in Blocks
    PROVE  Find(s, block) = FindAt(s, ctx, block)
<1> DEFINE S == {b \in Versions(s) : b <= block}
<1>1. CASE S = {}
  BY <1>1 DEF Find, FindAt, Nearest
<1>2. CASE S # {}
  <2>1. S \in SUBSET Targets
    BY StoreFields
  <2>2. Max(S) \in S
    <3> HIDE DEF S
    <3>1. PICK m \in S : \A c \in S : c <= m
      BY <1>2, <2>1, NewestOf
    <3>2. \A c \in S : m >= c
      BY <2>1, <3>1, Bounds
    <3> QED BY <3>2 DEF Max
  <2>3. Max(S) # NoBlock
    BY <2>1, <2>2, Bounds
  <2> DEFINE m == Max(S)
  <2>4. Nearest(s, block) = IF IsStaleBy(s.entries[m], ctx) /\ ~IsDeletedBy(s.entries[m], block) THEN NoBlock ELSE m
    BY <1>2 DEF Nearest
  <2>5. FindAt(s, ctx, block) =
          IF IsStaleBy(s.entries[m], ctx) \/ IsDeletedBy(s.entries[m], block) THEN NoBlock ELSE m
    BY <1>2 DEF FindAt
  <2> HIDE DEF m
  <2>6. m # NoBlock
    BY <2>3 DEF m
  <2> QED BY <2>4, <2>5, <2>6 DEF Find
<1> QED BY <1>1, <1>2

\* The nearest version no later than a block, where there is one.
LEMMA FindAtMax ==
    ASSUME NEW s \in Store, NEW now, NEW block \in Blocks, NEW m \in Versions(s), m <= block,
           \A c \in Versions(s) : c <= block => c <= m
    PROVE  FindAt(s, now, block) =
             IF IsStaleBy(s.entries[m], now) \/ IsDeletedBy(s.entries[m], block) THEN NoBlock ELSE m
<1> DEFINE S == {b \in Versions(s) : b <= block}
<1>1. \A c \in S : c \in Int /\ m >= c
  BY StoreFields, Bounds
<1>2. m \in S
  OBVIOUS
<1> HIDE DEF S
<1>3. Max(S) = m
  BY <1>1, <1>2 DEF Max
<1>4. S # {}
  BY <1>2
<1> QED BY <1>3, <1>4 DEF FindAt, S

LEMMA FindAtNone ==
    ASSUME NEW s \in Store, NEW now, NEW block \in Blocks, \A c \in Versions(s) : ~(c <= block)
    PROVE  FindAt(s, now, block) = NoBlock
<1>1. {b \in Versions(s) : b <= block} = {}
  OBVIOUS
<1> QED BY <1>1 DEF FindAt

LEMMA NearestExists ==
    ASSUME NEW s \in Store, NEW block \in Blocks
    PROVE  \/ \A c \in Versions(s) : ~(c <= block)
           \/ \E m \in Versions(s) : m <= block /\ \A c \in Versions(s) : c <= block => c <= m
<1> DEFINE W == {c \in Versions(s) : c <= block}
<1>1. W \in SUBSET Targets
  BY StoreFields
<1>2. CASE W = {}
  BY <1>2
<1>3. CASE W # {}
  <2>1. PICK m \in W : \A c \in W : c <= m
    <3> HIDE DEF W
    <3> QED BY <1>1, <1>3, NewestOf
  <2> QED BY <2>1
<1> QED BY <1>2, <1>3

LEMMA SamePastFinds ==
    ASSUME NEW s \in Store, NEW r \in Store, NEW now \in Blocks, NEW block \in Blocks, block < now,
           SamePast(s, r, now)
    PROVE  FindAt(r, now, block) = FindAt(s, now, block)
<1>0. /\ Versions(s) \in SUBSET Targets /\ Versions(r) \in SUBSET Targets
      /\ \A c \in Targets : c \in Nat /\ now \in Nat /\ block \in Nat
  BY StoreFields, Bounds
<1>1. \A c \in Versions(s) \cup Versions(r) : c <= block => c < now /\ c \in Versions(s) /\ c \in Versions(r)
  <2>1. \A c \in Versions(s) \cup Versions(r) : c <= block => c < now
    BY <1>0
  <2> QED BY <2>1 DEF SamePast
<1>2. CASE \A c \in Versions(s) : ~(c <= block)
  <2>1. \A c \in Versions(r) : ~(c <= block)
    BY <1>1, <1>2
  <2> QED BY <1>2, <2>1, FindAtNone
<1>3. CASE \E m \in Versions(s) : m <= block /\ \A c \in Versions(s) : c <= block => c <= m
  <2>1. PICK m \in Versions(s) : m <= block /\ \A c \in Versions(s) : c <= block => c <= m
    BY <1>3
  <2>2. m \in Versions(r) /\ \A c \in Versions(r) : c <= block => c <= m
    BY <1>1, <2>1
  <2>3. /\ IsStaleBy(r.entries[m], now) <=> IsStaleBy(s.entries[m], now)
        /\ IsDeletedBy(r.entries[m], block) <=> IsDeletedBy(s.entries[m], block)
    BY <1>1, <2>1 DEF SamePast
  <2>4. FindAt(s, now, block) =
          IF IsStaleBy(s.entries[m], now) \/ IsDeletedBy(s.entries[m], block) THEN NoBlock ELSE m
    BY <2>1, FindAtMax
  <2>5. FindAt(r, now, block) =
          IF IsStaleBy(r.entries[m], now) \/ IsDeletedBy(r.entries[m], block) THEN NoBlock ELSE m
    BY <2>1, <2>2, FindAtMax
  <2> QED BY <2>3, <2>4, <2>5
<1> QED BY <1>2, <1>3, NearestExists

\* A block later more versions are stale.
LEMMA LaterFinds ==
    ASSUME NEW s \in Store, NEW now \in Nat, NEW block \in Blocks
    PROVE  FindAt(s, now + 1, block) \in {FindAt(s, now, block), NoBlock}
<1>1. CASE \A c \in Versions(s) : ~(c <= block)
  BY <1>1, FindAtNone
<1>2. CASE \E m \in Versions(s) : m <= block /\ \A c \in Versions(s) : c <= block => c <= m
  <2>1. PICK m \in Versions(s) : m <= block /\ \A c \in Versions(s) : c <= block => c <= m
    BY <1>2
  <2>2. s.entries[m].staleAt \in Nat
    BY StoreFields, EntryFields
  <2>3. IsStaleBy(s.entries[m], now) => IsStaleBy(s.entries[m], now + 1)
    BY <2>2 DEF IsStaleBy
  <2>4. FindAt(s, now, block) =
          IF IsStaleBy(s.entries[m], now) \/ IsDeletedBy(s.entries[m], block) THEN NoBlock ELSE m
    BY <2>1, FindAtMax
  <2>5. FindAt(s, now + 1, block) =
          IF IsStaleBy(s.entries[m], now + 1) \/ IsDeletedBy(s.entries[m], block) THEN NoBlock ELSE m
    BY <2>1, FindAtMax
  <2> QED BY <2>3, <2>4, <2>5
<1> QED BY <1>1, <1>2, NearestExists

\* A scan uncovers no older version: what it removes was preceded, if at all, by
\* a stale version.
LEMMA ScanFinds ==
    ASSUME NEW s \in Store, NEW r \in Store, ctx \in Nat, NEW block \in Blocks,
           Versions(r) = {b \in Versions(s) : ~Removable(s, b)},
           \A c \in Versions(r) : r.entries[c] = s.entries[c]
    PROVE  FindAt(r, ctx, block) \in {FindAt(s, ctx, block), NoBlock}
<1>0. Versions(s) \in SUBSET Targets /\ \A c \in Targets : c \in Nat /\ block \in Nat
  BY StoreFields, Bounds
<1>1. CASE \A c \in Versions(r) : ~(c <= block)
  BY <1>1, FindAtNone
<1>2. CASE \E m \in Versions(r) : m <= block /\ \A c \in Versions(r) : c <= block => c <= m
  <2>1. PICK m \in Versions(r) : m <= block /\ \A c \in Versions(r) : c <= block => c <= m
    BY <1>2
  <2>2. FindAt(r, ctx, block) =
          IF IsStaleBy(s.entries[m], ctx) \/ IsDeletedBy(s.entries[m], block) THEN NoBlock ELSE m
    BY <2>1, FindAtMax
  <2>3. m \in Versions(s)
    OBVIOUS
  <2> DEFINE W == {c \in Versions(s) : m < c /\ c <= block}
  <2>4. CASE W = {}
    <3>1. \A c \in Versions(s) : c <= block => c <= m
      BY <1>0, <2>3, <2>4
    <3>2. FindAt(s, ctx, block) =
            IF IsStaleBy(s.entries[m], ctx) \/ IsDeletedBy(s.entries[m], block) THEN NoBlock ELSE m
      BY <2>1, <2>3, <3>1, FindAtMax
    <3> QED BY <2>2, <3>2
  <2>5. CASE W # {}
    <3>1. W \in SUBSET Targets
      BY <1>0
    <3>2. PICK z \in W : \A c \in W : z <= c
      <4> HIDE DEF W
      <4> QED BY <2>5, <3>1, OldestOf
    <3>3. Removable(s, z) /\ z \in Versions(s) /\ m < z
      <4>1. z \in Versions(s) /\ m < z /\ z <= block
        BY <3>2
      <4>2. z \notin Versions(r)
        BY <1>0, <2>1, <2>3, <4>1
      <4> QED BY <4>1, <4>2
    <3> DEFINE older == {c \in Versions(s) : c < z}
    <3>4. \A c \in older : c \in Int /\ m >= c
      <4>1. ASSUME NEW c \in older PROVE c \in Int /\ m >= c
        <5>1. c \in Versions(s) /\ c < z /\ c \in Int /\ m \in Int /\ z \in Int /\ block \in Int
          BY <1>0, <2>3, <3>3
        <5>2. ~(z <= c)
          BY <5>1
        <5>3. c \notin W
          BY <3>2, <5>2
        <5>4. c <= block
          BY <3>2, <5>1
        <5> QED BY <5>1, <5>3, <5>4
      <4> QED BY <4>1
    <3>5. m \in older
      BY <2>3, <3>3
    <3>6. older # {} => Max(older) \in StaleVersions(s)
      BY <3>3 DEF Removable
    <3> HIDE DEF older
    <3>7. Max(older) = m
      BY <3>4, <3>5 DEF Max
    <3>8. IsStaleBy(s.entries[m], ctx)
      BY <3>5, <3>6, <3>7 DEF StaleVersions
    <3> QED BY <2>2, <3>8
  <2> QED BY <2>4, <2>5
<1> QED BY <1>1, <1>2, NearestExists

-----------------------------------------------------------------------------
(* The specification. *)

Inv == Good(fs, held, ctx)

PastKept == \A b \in Blocks : b < ctx => FindAt(fs', ctx', b) \in {FindAt(fs, ctx, b), NoBlock}

LEMMA InitGood == Init => Inv
<1> SUFFICES ASSUME Init PROVE Inv
  OBVIOUS
<1>1. fs = EmptyStore /\ ctx = 1 /\ held = [b \in Targets |-> 0]
  BY DEF Init
<1>2. /\ EmptyStore.entries = <<>> /\ EmptyStore.index = "absent" /\ EmptyStore.timers = {}
      /\ EmptyStore.panic = FALSE
  BY DEF EmptyStore
<1>3. DOMAIN <<>> = {}
  OBVIOUS
<1>4. Versions(EmptyStore) = {}
  BY <1>2, <1>3 DEF Versions
<1>5. EmptyStore \in Store
  <2>1. <<>> \in [{} -> Entries(Data)]
    OBVIOUS
  <2>2. <<>> \in UNION {[V -> Entries(Data)] : V \in SUBSET Targets}
    BY <2>1
  <2> QED BY <2>2 DEF EmptyStore, Store
<1>6. ctx \in Blocks /\ held \in [Targets -> Nat] /\ \A b \in Targets : ~(held[b] > 0)
  BY <1>1, BlockAssumption DEF Blocks
<1>7. Waiting(fs) = {} /\ Started(fs) = {}
  BY <1>1, <1>4 DEF Waiting, Started
<1>8. Shape(fs, held, ctx) /\ Plan(fs, ctx) /\ Fresh(fs, held, ctx) /\ Newest(fs, ctx)
  BY <1>1, <1>2, <1>4, <1>5, <1>6, <1>7 DEF Shape, Plan, Fresh, Newest
<1>9. Deletes(fs, ctx) /\ Counted(fs, held) /\ Indexed(fs) /\ Scanned(fs, ctx)
  BY <1>1, <1>2, <1>4, <1>6, <1>7 DEF Deletes, Counted, Indexed, Scanned
<1> QED BY <1>8, <1>9 DEF Inv, Good

\* Between the operations of users no timer is due.
LEMMA RunsQuiet ==
    ASSUME Inv, UserRuns
    PROVE  Quiet(fs)
<1>1. fs \in Store /\ ctx \in Nat
  BY Bounds DEF Inv, Good, Shape
<1>2. \A t \in fs.timers : t.at \in Nat /\ ~(t.at <= ctx)
  BY <1>1, StoreFields, TimerFields DEF UserRuns, Due
<1> QED BY <1>1, <1>2 DEF Quiet

LEMMA AppendStep ==
    ASSUME Inv, NEW x \in AppendBlocks[ctx], NEW d \in Data, AppendVersion(x, d)
    PROVE  Good(fs', held', ctx) /\ SamePast(fs, fs', ctx) /\ ctx' = ctx
<1>1. Good(fs, held, ctx) /\ Quiet(fs)
  BY RunsQuiet DEF Inv, AppendVersion
<1>2. fs' = AppendEntry(fs, x, d) /\ held' = held /\ ctx' = ctx
  BY DEF AppendVersion
<1>3. \/ fs' = fs
      \/ x \in Versions(fs) /\ fs' = ModifyEntry(fs, x, d)
      \/ x > ctx /\ Announces(fs, fs', x)
      \/ x = ctx /\ Starts(fs, fs', x)
  BY <1>1, <1>2, AppendIs
<1>4. x \in Named(ctx) /\ x \in Targets
  BY <1>1, UsersAssumption DEF Named, Good, Shape
<1>5. CASE fs' = fs
  BY <1>1, <1>2, <1>5 DEF SamePast
<1>6. CASE x \in Versions(fs) /\ fs' = ModifyEntry(fs, x, d)
  BY <1>1, <1>2, <1>6, ModifyKeeps
<1>7. CASE x > ctx /\ Announces(fs, fs', x)
  BY <1>1, <1>2, <1>4, <1>7, AnnounceKeeps
<1>8. CASE x = ctx /\ Starts(fs, fs', x)
  BY <1>1, <1>2, <1>4, <1>8, StartKeeps
<1> QED BY <1>3, <1>5, <1>6, <1>7, <1>8

LEMMA DelStep ==
    ASSUME Inv, NEW at \in DeleteBlocks[ctx], Del(at)
    PROVE  Good(fs', held', ctx) /\ SamePast(fs, fs', ctx) /\ ctx' = ctx
<1>1. Good(fs, held, ctx) /\ Quiet(fs)
  BY RunsQuiet DEF Inv, Del
<1>2. fs' = DelEntry(fs, at) /\ held' = held /\ ctx' = ctx
  BY DEF Del
<1>3. at \in Named(ctx) /\ at > ctx
  BY <1>1, NextEpochAssumption DEF Named, Good, Shape
<1>4. fs' = fs \/ Discards(fs, fs') \/ \E m \in Versions(fs) : Schedules(fs, fs', m, at)
  BY <1>1, <1>2, <1>3, DelIs
<1>5. CASE fs' = fs
  BY <1>1, <1>2, <1>5 DEF SamePast
<1>6. CASE Discards(fs, fs')
  BY <1>1, <1>2, <1>6, DiscardKeeps
<1>7. CASE \E m \in Versions(fs) : Schedules(fs, fs', m, at)
  BY <1>1, <1>2, <1>3, <1>7, ScheduleKeeps
<1> QED BY <1>4, <1>5, <1>6, <1>7

LEMMA GetStep ==
    ASSUME Inv, Get
    PROVE  Good(fs', held', ctx) /\ SamePast(fs, fs', ctx) /\ ctx' = ctx
<1> DEFINE b == Find(fs, ctx)
<1>1. Good(fs, held, ctx) /\ Quiet(fs)
  BY RunsQuiet DEF Inv, Get
<1>2. /\ ctx \in Nat /\ \A c \in Versions(fs) : c <= ctx <=> c \in Started(fs)
      /\ Started(fs) \subseteq Versions(fs)
  BY <1>1, QuietFacts DEF Started
<1>3. b # NoBlock /\ held' = [held EXCEPT ![b] = @ + 1] /\ ctx' = ctx
  BY DEF Get
<1>4. fs' = SetEntry(fs, b, [fs.entries[b] EXCEPT !.refcount = @ + 1])
  BY <1>3 DEF Get, GetEntry
<1>5. b = Nearest(fs, ctx) /\ ~IsDeletedBy(fs.entries[b], ctx)
  BY <1>3 DEF Find
<1>6. b \in Versions(fs) /\ fs.entries[b].latest
  <2>1. \/ Started(fs) = {} /\ Nearest(fs, ctx) = NoBlock
        \/ /\ Nearest(fs, ctx) \in Started(fs) /\ \A c \in Started(fs) : c <= Nearest(fs, ctx)
           /\ \/ fs.entries[Nearest(fs, ctx)].latest
              \/ /\ fs.entries[Nearest(fs, ctx)].deleteAt <= ctx
                 /\ \A c \in Versions(fs) : ~fs.entries[c].latest
    BY <1>1, <1>2, NearestStarted
  <2> QED BY <1>2, <1>3, <1>5, <2>1 DEF IsDeletedBy
<1> HIDE DEF b
<1> QED BY <1>1, <1>3, <1>4, <1>6, GetKeeps

LEMMA PutStep ==
    ASSUME Inv, NEW b \in Targets, Put(b)
    PROVE  Good(fs', held', ctx) /\ SamePast(fs, fs', ctx) /\ ctx' = ctx
  BY PutKeeps DEF Inv, Put

LEMMA FireStep ==
    ASSUME Inv, NEW t \in Due(fs), FireTimer(t)
    PROVE  /\ Good(fs', held', ctx) /\ ctx' = ctx
           /\ \A b \in Blocks : b < ctx => FindAt(fs', ctx, b) \in {FindAt(fs, ctx, b), NoBlock}
<1> DEFINE u == [fs EXCEPT !.timers = @ \ {t}]
<1>1. Good(fs, held, ctx) /\ t \in fs.timers /\ t.at <= ctx
  BY DEF Inv, Due
<1>2. fs \in Store /\ ctx \in Blocks /\ ctx \in Nat
  BY <1>1, Bounds DEF Good, Shape
<1>3. t.kind \in {Future, Delete, Stale}
  BY <1>1, <1>2, StoreFields, TimerFields
<1>4. held' = held /\ ctx' = ctx /\ fs' = Fire(fs, t)
  BY DEF FireTimer
<1>5. CASE t.kind = Future
  <2>1. fs' = MatureEntry(u, t.block)
    BY <1>4, <1>5, Kinds DEF Fire
  <2>2. Takes(fs, fs', t.block, t)
    BY <1>1, <1>5, <2>1, TakesOver
  <2>3. Good(fs', held, ctx) /\ SamePast(fs, fs', ctx)
    BY <1>1, <1>5, <2>2, MatureKeeps
  <2>4. fs' \in Store
    BY <2>3 DEF Good, Shape
  <2> QED BY <1>2, <1>4, <2>3, <2>4, SamePastFinds
<1>6. CASE t.kind = Delete
  <2>1. fs' = DeleteMarked(u, t.block)
    BY <1>4, <1>6, Kinds DEF Fire
  <2>2. Good(fs', held, ctx) /\ SamePast(fs, fs', ctx)
    BY <1>1, <1>6, <2>1, DeleteKeeps
  <2>3. fs' \in Store
    BY <2>2 DEF Good, Shape
  <2> QED BY <1>2, <1>4, <2>2, <2>3, SamePastFinds
<1>7. CASE t.kind = Stale
  <2>1. fs' = DeleteStale(u)
    BY <1>4, <1>7, Kinds DEF Fire
  <2>2. Good(fs', held, ctx)
    BY <1>1, <1>7, <2>1, StaleKeeps
  <2>3. u \in Store /\ u.entries = fs.entries
    BY <1>1, <1>2, DelTimerIs
  <2> HIDE DEF u
  <2>4. /\ fs' \in Store /\ Versions(fs') = {b \in Versions(u) : ~Removable(u, b)}
        /\ \A c \in Versions(fs') : fs'.entries[c] = u.entries[c]
    BY <2>1, <2>3, DeleteStaleIs
  <2>5. \A b \in Blocks : FindAt(fs', ctx, b) \in {FindAt(u, ctx, b), NoBlock}
    BY <1>2, <2>3, <2>4, ScanFinds
  <2>6. \A b \in Blocks : FindAt(u, ctx, b) = FindAt(fs, ctx, b)
    BY <2>3 DEF FindAt, Versions
  <2> QED BY <1>4, <2>2, <2>5, <2>6
<1> QED BY <1>3, <1>5, <1>6, <1>7

LEMMA StepGood == Inv /\ [Next]_vars => Good(fs', held', ctx') /\ PastKept
<1> SUFFICES ASSUME Inv, [Next]_vars PROVE Good(fs', held', ctx') /\ PastKept
  OBVIOUS
<1>0. fs \in Store /\ ctx \in Blocks /\ ctx \in Nat
  BY Bounds DEF Inv, Good, Shape
<1>1. ASSUME Good(fs', held', ctx), SamePast(fs, fs', ctx), ctx' = ctx
      PROVE  Good(fs', held', ctx') /\ PastKept
  <2>1. fs' \in Store
    BY <1>1 DEF Good, Shape
  <2> QED BY <1>0, <1>1, <2>1, SamePastFinds DEF PastKept
<1>2. ASSUME NEW b \in AppendBlocks[ctx], NEW d \in Data, AppendVersion(b, d)
      PROVE  Good(fs', held', ctx') /\ PastKept
  BY <1>1, <1>2, AppendStep
<1>3. ASSUME NEW b \in Versions(fs), NEW d \in Data, Modify(b, d)
      PROVE  Good(fs', held', ctx') /\ PastKept
  <2>1. fs' = ModifyEntry(fs, b, d) /\ held' = held /\ ctx' = ctx
    BY <1>3 DEF Modify
  <2>2. Good(fs', held', ctx) /\ SamePast(fs, fs', ctx)
    BY <2>1, ModifyKeeps DEF Inv
  <2> QED BY <1>1, <2>1, <2>2
<1>4. ASSUME NEW b \in DeleteBlocks[ctx], Del(b)
      PROVE  Good(fs', held', ctx') /\ PastKept
  BY <1>1, <1>4, DelStep
<1>5. ASSUME Get PROVE Good(fs', held', ctx') /\ PastKept
  BY <1>1, <1>5, GetStep
<1>6. ASSUME NEW b \in Targets, Put(b) PROVE Good(fs', held', ctx') /\ PastKept
  BY <1>1, <1>6, PutStep
<1>7. ASSUME NEW t \in Due(fs), FireTimer(t) PROVE Good(fs', held', ctx') /\ PastKept
  BY <1>7, FireStep DEF PastKept
<1>8. ASSUME NewBlock PROVE Good(fs', held', ctx') /\ PastKept
  <2>1. fs' = fs /\ held' = held /\ ctx' = ctx + 1 /\ ctx < MaxBlock
    BY <1>8 DEF NewBlock
  <2>2. ctx + 1 \in Blocks
    BY <1>0, <2>1, BlockAssumption DEF Blocks
  <2>3. \A t \in fs.timers : t.at > ctx
    BY <1>8, RunsQuiet DEF NewBlock, Quiet
  <2>4. Good(fs, held, ctx + 1)
    BY <1>0, <2>2, <2>3, NewBlockKeeps DEF Inv
  <2>5. \A b \in Blocks : FindAt(fs, ctx + 1, b) \in {FindAt(fs, ctx, b), NoBlock}
    BY <1>0, LaterFinds
  <2> QED BY <2>1, <2>4, <2>5 DEF PastKept
<1>9. CASE UNCHANGED vars
  <2>1. fs' = fs /\ held' = held /\ ctx' = ctx
    BY <1>9 DEF vars
  <2> QED BY <2>1 DEF Inv, PastKept
<1> QED BY <1>2, <1>3, <1>4, <1>5, <1>6, <1>7, <1>8, <1>9 DEF Next

LEMMA InvAlways == Spec => []Inv
<1>1. Inv /\ [Next]_vars => Inv'
  BY StepGood DEF Inv
<1> QED BY InitGood, <1>1, PTL DEF Spec

\* None of the store's consistency panics is ever reached: an entry, a timer or a
\* reference the code looks up and needs is always there (putEntry, getEntry,
\* updateFutureEntry, deleteMarkedEntry, putFutureEntry).
THEOREM StoreNeverPanics == Spec => []NoPanic
<1>1. Inv => NoPanic
  BY DEF Inv, Good, Shape, NoPanic
<1> QED BY InvAlways, <1>1, PTL

\* Between two operations of users the reference count of a version is what its
\* users hold, and one more for the latest version and each future one; a version
\* somebody holds (GetEntry without its PutEntry) is still found at its own block.
THEOREM ReferencesKeepVersions == Spec => []References
<1>1. ASSUME Inv, Settled PROVE RefcountExact
  <2>1. Quiet(fs)
    BY <1>1, RunsQuiet DEF Settled
  <2>2. ASSUME NEW b \in Versions(fs)
        PROVE  fs.entries[b].refcount = held[b] + (IF fs.entries[b].latest \/ b > ctx THEN 1 ELSE 0)
    <3>1. b \in Waiting(fs) <=> b > ctx
      BY <1>1, <2>1, QuietFacts DEF Inv
    <3>2. fs.entries[b].refcount = held[b] + (IF fs.entries[b].latest \/ b \in Waiting(fs) THEN 1 ELSE 0)
      BY <1>1 DEF Inv, Good, Counted
    <3> QED BY <3>1, <3>2
  <2> QED BY <2>2 DEF RefcountExact
<1>2. ASSUME Inv, Settled PROVE HeldIsFound
  <2>1. ASSUME NEW b \in Targets, held[b] > 0 PROVE Find(fs, b) = b
    <3>1. b \in Versions(fs)
      BY <1>2, <2>1 DEF Inv, Good, Counted
    <3>2. /\ fs \in Store /\ b \in Nat /\ held[b] \in Nat
          /\ fs.entries[b].refcount \in Nat /\ fs.entries[b].deleteAt \in Nat
      BY <1>2, <3>1, EntryOf DEF Inv
    <3>3. fs.entries[b].refcount = held[b] + (IF fs.entries[b].latest \/ b \in Waiting(fs) THEN 1 ELSE 0)
      BY <1>2, <3>1 DEF Inv, Good, Counted
    <3>4. fs.entries[b].refcount # 0
      BY <2>1, <3>2, <3>3
    <3>5. ~IsStaleBy(fs.entries[b], ctx)
      BY <3>4 DEF IsStaleBy
    <3>6. fs.entries[b].deleteAt > b
      BY <1>2, <3>1 DEF Inv, Good, Deletes
    <3>7. ~IsDeletedBy(fs.entries[b], b)
      BY <3>2, <3>6 DEF IsDeletedBy
    <3>8. Nearest(fs, b) = b
      BY <3>1, <3>2, <3>5, NearestMax
    <3>9. b # NoBlock
      BY Bounds
    <3> QED BY <3>7, <3>8, <3>9 DEF Find
  <2> QED BY <2>1 DEF HeldIsFound
<1>3. Inv => References
  BY <1>1, <1>2 DEF References, RefcountExact, HeldIsFound
<1> QED BY InvAlways, <1>3, PTL

\* The state invariants listed at the head of fixationstore.go: one latest version,
\* the newest in effect; the pending delete and the future versions have exactly
\* their timers; the index is live exactly while a version is in effect or to come;
\* the scan for stale versions never leaves a stale one at the oldest place.
THEOREM StoreWellFormed == Spec => []WellFormed
<1>1. ASSUME Inv PROVE TypeOK
  <2>1. fs \in Store /\ ctx \in Blocks /\ held \in [Targets -> Nat]
    BY <1>1 DEF Inv, Good, Shape
  <2>2. /\ Versions(fs) \in SUBSET Targets /\ fs.entries \in [Versions(fs) -> Entries(Data)]
        /\ fs.index \in {"absent", "live", "dead"} /\ fs.timers \in SUBSET Timer
        /\ fs.panic \in BOOLEAN
    BY <2>1, StoreFields
  <2> QED BY <2>1, <2>2 DEF TypeOK
<1>2. ASSUME Inv, Settled
      PROVE  /\ Quiet(fs) /\ fs \in Store /\ ctx \in Nat /\ Versions(fs) \in SUBSET Targets
             /\ \A b \in Versions(fs) : b \in Nat /\ (b \in Waiting(fs) <=> b > ctx)
                                        /\ (b \in Started(fs) <=> b <= ctx)
  BY <1>2, RunsQuiet, QuietFacts DEF Settled, Inv
<1>3. ASSUME Inv, Settled PROVE LatestIsNewest
  <2>1. \A b \in Versions(fs) : fs.entries[b].latest =>
          b \in Started(fs) /\ \A c \in Started(fs) : c <= b
    BY <1>3 DEF Inv, Good, Newest
  <2> QED BY <1>2, <1>3, <2>1 DEF LatestIsNewest
<1>4. ASSUME Inv, Settled, NEW b \in Versions(fs),
             HasDeleteAt(fs.entries[b]), fs.entries[b].deleteAt > ctx
      PROVE  /\ fs.entries[b].latest
             /\ TimerOf(fs.entries[b].deleteAt, Delete, b) \in fs.timers
  <2>1. fs.entries[b].deleteAt \in Nat /\ fs.entries[b].deleteAt # Never
    BY <1>4, EntryOf, Bounds DEF Inv, HasDeleteAt
  <2>2. fs.entries[b].deleteAt # Never =>
          IF fs.entries[b].latest THEN TimerOf(fs.entries[b].deleteAt, Delete, b) \in fs.timers
          ELSE fs.entries[b].deleteAt <= ctx
    BY <1>4 DEF Inv, Good, Deletes
  <2> QED BY <1>2, <1>4, <2>1, <2>2
<1>5. ASSUME Inv, Settled, NEW b \in Versions(fs),
             HasDeleteAt(fs.entries[b]), fs.entries[b].deleteAt > ctx, NEW c \in Versions(fs)
      PROVE  c <= b
  <2>1. CASE c \in Started(fs)
    BY <1>4, <1>5, <2>1 DEF Inv, Good, Newest
  <2>2. CASE c \in Waiting(fs)
    <3>1. TimerOf(c, Future, c) \in fs.timers
      BY <2>2 DEF Waiting
    <3>2. TimerOf(fs.entries[b].deleteAt, Delete, b) \in fs.timers
      BY <1>4, <1>5
    <3>3. \A t, u \in fs.timers : t.kind # Stale /\ u.kind # Stale => t = u
      BY <1>5 DEF Inv, Good, Plan
    <3> QED BY <3>1, <3>2, <3>3, TimerFields, Kinds
  <2> QED BY <2>1, <2>2 DEF Started
<1>6. ASSUME Inv, Settled PROVE DeletePending
  <2> DEFINE P == {c \in Versions(fs) : HasDeleteAt(fs.entries[c]) /\ fs.entries[c].deleteAt > ctx}
             T == {t \in fs.timers : t.kind = Delete}
             U == {TimerOf(fs.entries[b].deleteAt, Delete, b) : b \in P}
  <2>1. ASSUME NEW t \in T PROVE t \in U
    <3>1. t \in fs.timers /\ t.kind = Delete
      OBVIOUS
    <3>2. t.block \in Versions(fs) /\ fs.entries[t.block].deleteAt = t.at
      BY <1>6, <3>1 DEF Inv, Good, Plan
    <3>3. t.at \in Targets
      BY <1>6, <3>1, Kinds DEF Inv, Good, Plan
    <3>4. t.at > ctx /\ t \in Timer
      BY <1>2, <1>6, <3>1, StoreFields DEF Quiet
    <3>5. t.block \in P
      BY <3>2, <3>3, <3>4, Bounds DEF HasDeleteAt
    <3>6. t = TimerOf(fs.entries[t.block].deleteAt, Delete, t.block)
      BY <3>1, <3>2, <3>4, TimerFields
    <3> HIDE DEF P
    <3> QED BY <3>5, <3>6
  <2>2. ASSUME NEW b \in P PROVE TimerOf(fs.entries[b].deleteAt, Delete, b) \in T
    BY <1>4, <1>6, TimerFields
  <2>3. T = U
    <3> HIDE DEF P, T
    <3> QED BY <2>1, <2>2
  <2>4. T = {[at |-> fs.entries[b].deleteAt, kind |-> Delete, block |-> b] : b \in P}
    BY <2>3 DEF TimerOf
  <2>5. \A b \in Versions(fs) : HasDeleteAt(fs.entries[b]) /\ fs.entries[b].deleteAt > ctx =>
          \A c \in Versions(fs) : c <= b
    BY <1>5, <1>6
  <2> QED BY <2>4, <2>5 DEF DeletePending
<1>7. ASSUME Inv, Settled PROVE FuturePending
  <2>1. ASSUME NEW t \in fs.timers, t.kind = Future
        PROVE  t.block \in Versions(fs) /\ t.block > ctx
    <3>1. t.block \in Versions(fs) /\ t.at = t.block
      BY <1>7, <2>1 DEF Inv, Good, Plan
    <3> QED BY <1>2, <1>7, <3>1 DEF Quiet
  <2>2. ASSUME NEW b \in Versions(fs), b > ctx
        PROVE  \E t \in {u \in fs.timers : u.kind = Future} : t.block = b
    <3>1. TimerOf(b, Future, b) \in fs.timers
      BY <1>2, <1>7, <2>2 DEF Waiting
    <3> QED BY <3>1, TimerFields
  <2> QED BY <2>1, <2>2 DEF FuturePending
<1>8. ASSUME Inv, Settled PROVE IndexLive
  <2>1. /\ fs.index = "absent" <=> Versions(fs) = {}
        /\ fs.index = "live" <=> \E b \in Versions(fs) : fs.entries[b].latest \/ b \in Waiting(fs)
    BY <1>8 DEF Inv, Good, Indexed
  <2>2. \A b \in Versions(fs) : b \in Waiting(fs) <=> b > ctx
    BY <1>2, <1>8
  <2> QED BY <2>1, <2>2 DEF IndexLive
<1>9. ASSUME Inv, Settled PROVE OldestNotStale
  <2>1. SUFFICES ASSUME Versions(fs) # {} PROVE Min(Versions(fs)) \notin StaleVersions(fs)
    BY DEF OldestNotStale
  <2>2. PICK m \in Versions(fs) : \A c \in Versions(fs) : m <= c
    BY <1>2, <1>9, <2>1, OldestOf
  <2>3. Min(Versions(fs)) = m
    BY <1>2, <1>9, <2>2 DEF Min
  <2>4. \/ \E t \in fs.timers : t.kind = Stale /\ t.at <= ctx
        \/ ~IsStaleBy(fs.entries[m], ctx)
    BY <1>9, <2>2 DEF Inv, Good, Scanned
  <2>5. \A t \in fs.timers : t.at \in Nat /\ t.at > ctx
    BY <1>2, <1>9, StoreFields, TimerFields DEF Quiet
  <2>6. ~IsStaleBy(fs.entries[m], ctx)
    BY <1>2, <1>9, <2>4, <2>5
  <2> QED BY <2>3, <2>6 DEF StaleVersions
<1>10. Inv => WellFormed
  BY <1>1, <1>3, <1>6, <1>7, <1>8, <1>9
     DEF WellFormed, LatestIsNewest, DeletePending, FuturePending, IndexLive, OldestNotStale
<1> QED BY InvAlways, <1>10, PTL

\* The past is fixed: no append, delete, put or timer makes FindEntry for a past
\* block resolve to another version than before, or to a version again where it
\* resolved to none; it may only stop resolving (deleted, or stale and removed).
THEOREM ThePastIsFixed == Spec => PastIsFixed
<1> DEFINE Finds == \A b \in Blocks : Find(fs, b) = FindAt(fs, ctx, b)
<1>1. Inv => Finds
  BY FindIsFindAt DEF Inv, Good, Shape
<1>2. Inv /\ [Next]_vars => Inv' /\ PastKept
  BY StepGood DEF Inv
<1>3. Finds /\ Finds' /\ PastKept =>
        [\A b \in Blocks : b < ctx => Find(fs, b)' \in {Find(fs, b), NoBlock}]_vars
  <2>1. SUFFICES ASSUME Finds, Finds', PastKept, NEW b \in Blocks, b < ctx
                 PROVE  Find(fs, b)' \in {Find(fs, b), NoBlock}
    OBVIOUS
  <2>2. Find(fs, b)' = FindAt(fs', ctx', b) /\ Find(fs, b) = FindAt(fs, ctx, b)
    BY <2>1
  <2> QED BY <2>1, <2>2 DEF PastKept
<1> QED BY InitGood, <1>1, <1>2, <1>3, PTL DEF Spec, PastIsFixed
=============================================================================
