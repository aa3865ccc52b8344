----------------------- MODULE ProviderSessionProofs -----------------------
(***************************************************************************)
(* The provider's sessions, for any number of goroutines, sessions and     *)
(* epochs and any limits.                                                  *)
(***************************************************************************)
EXTENDS ProviderSession, SumTheorems, SequenceTheorems

\* The steps at which a relay has a pointer to a session and will follow it.
WithSession == Holding \cup {"streaming", "raise"}

\* A goroutine's state is of the right type; its pointer leads to a session of its
\* request; a relay about to add missing CU has seen that they may be missing; only
\* a session whose sum was raised has its parent's CU corrected.
Local(g, objects, events) ==
    /\ g \in Goroutine /\ g.obj <= Len(objects)
    /\ g.pc # "idle" => /\ g.kind \in Kinds /\ <<g.epoch, g.id>> \in Keys
                        /\ g.num \in RelayNums /\ g.cu \in CuSums
    /\ g.pc \in WithSession => g.obj # 0 /\ objects[g.obj].key = <<g.epoch, g.id>>
    /\ g.pc = "missed" => Plus(g.old, g.add) <= AllowedMissing
    /\ g.pc \in {"read", "bump"} => "raised" \in events

\* Every session is the one the project's map holds for its id.
Unique(map, objects, events) ==
    "recreated" \in events \/ \A o \in 1..Len(objects) : map[objects[o].key] = o

\* The same for what the goroutines share.
Shared ==
    /\ currentEpoch \in 0..MaxEpoch /\ blockedEpoch \in 0..MaxEpoch
    /\ registered \subseteq RequestEpochs
    /\ Sessions \in [Keys -> 0..Len(sps)]
    /\ \A k \in Keys : Sessions[k] # 0 => sps[Sessions[k]].key = k
    /\ sps \in Seq(SingleProviderSession)
    /\ Unique(Sessions, sps, past)
    /\ badgeUsed \in Seq(Words) /\ badgeData \in [RequestEpochs -> Nat]
    /\ used \in [RequestEpochs -> Words]
    /\ missing \in [RequestEpochs -> Words] /\ MissingBounded
    /\ proofs \in [Keys -> CuSums \cup RestoredCus]
    /\ received \in 0..MaxRequests
    /\ past \subseteq Events

Base ==
    Shared /\ relay \in [Relays -> Goroutine] /\ \A r \in Relays : Local(relay[r], sps, past)

\* The counters' values, and what fits into them.
LEMMA WordFacts ==
    /\ Word \in Nat \ {0} /\ 0 \in Words /\ 1 \in Words /\ Words \subseteq Nat
    /\ CuSums \subseteq Words /\ RestoredCus \subseteq Words /\ RelayNums \subseteq Words
    /\ \A n \in Int : n % Word \in Words
    /\ \A n \in Words : n % Word = n
    /\ \A n \in Words : n < Word
    /\ MaxComputeUnits \in Words /\ CuFromSpec \in Words /\ AllowedMissing \in Words
<1>1. Word \in Nat \ {0}
  BY CuAssumption
<1>2. \A n \in Int : n % Word \in Words
  BY <1>1 DEF Words
<1>3. \A n \in Words : n % Word = n
  BY <1>1 DEF Words
<1> QED BY <1>1, <1>2, <1>3, CuAssumption DEF Words

\* Sums and differences of counters are counters.
LEMMA WordOps == \A a, b \in Words : Plus(a, b) \in Words /\ Minus(a, b) \in Words
<1> SUFFICES ASSUME NEW a \in Words, NEW b \in Words
             PROVE  Plus(a, b) \in Words /\ Minus(a, b) \in Words
  OBVIOUS
<1>1. a + b \in Int /\ a - b \in Int
  BY DEF Words
<1> QED BY <1>1, WordFacts DEF Plus, Minus

\* A number fits into a word, or its passing the end of the word is an event.
LEMMA Fits ==
    ASSUME NEW n \in Nat
    PROVE  (n \in Words /\ n % Word = n) \/ Overflow(n) = {"wrapped"}
<1>1. Word \in Nat \ {0}
  BY WordFacts
<1>2. CASE n < Word
  <2>1. n \in Words
    BY <1>1, <1>2 DEF Words
  <2> QED BY <2>1, WordFacts
<1>3. CASE ~ (n < Word)
  BY <1>3 DEF Overflow
<1> QED BY <1>2, <1>3

\* Changing one object of the sequence.
LEMMA ChangeObject ==
    ASSUME NEW S, NEW s \in Seq(S), NEW i \in 1..Len(s), NEW x \in S
    PROVE  /\ [s EXCEPT ![i] = x] \in Seq(S)
           /\ Len([s EXCEPT ![i] = x]) = Len(s)
           /\ [s EXCEPT ![i] = x][i] = x
           /\ \A j \in 1..Len(s) \ {i} : [s EXCEPT ![i] = x][j] = s[j]
  BY ExceptSeq

\* A goroutine that has not begun.
LEMMA IdleLocal ==
    ASSUME NEW objects \in Seq(SingleProviderSession), NEW events
    PROVE  Local(Idle, objects, events)
  BY WordFacts DEF Local, Idle, Goroutine, Steps, Holding, WithSession

\* The invariant holds at the start, after a restart too.
LEMMA InitBase == Init => Base
<1> SUFFICES ASSUME Init PROVE Base
  OBVIOUS
<1> USE DEF Init
<1>1. sps \in Seq(SingleProviderSession) /\ Len(sps) = 0
  OBVIOUS
<1>2. relay \in [Relays -> Goroutine] /\ \A r \in Relays : Local(relay[r], sps, past)
  BY <1>1, IdleLocal DEF Local
<1>3. /\ used \in [RequestEpochs -> Words] /\ missing \in [RequestEpochs -> Words]
      /\ badgeUsed \in Seq(Words) /\ badgeData \in [RequestEpochs -> Nat]
  BY WordFacts
<1>4. proofs \in [Keys -> CuSums \cup RestoredCus] /\ Sessions \in [Keys -> 0..Len(sps)]
  BY <1>1
<1>5. MissingBounded /\ \A k \in Keys : Sessions[k] = 0
  BY CuAssumption DEF MissingBounded
<1>6. currentEpoch \in 0..MaxEpoch /\ blockedEpoch \in 0..MaxEpoch
  BY EpochAssumption DEF BlockedAt
<1>7. Shared
  BY <1>1, <1>3, <1>4, <1>5, <1>6, BoundAssumption DEF Shared, Unique
<1> QED BY <1>2, <1>7 DEF Base

\* The sessions a step leaves: none is lost and none changes its key.
SessionsStay(old, new) ==
    /\ old \in Seq(SingleProviderSession) /\ new \in Seq(SingleProviderSession)
    /\ Len(old) <= Len(new)
    /\ \A o \in 1..Len(old) : new[o].key = old[o].key

\* A goroutine that does not move is not disturbed.
LEMMA LocalStays ==
    ASSUME NEW old, NEW new, SessionsStay(old, new), NEW events, NEW more, events \subseteq more,
           NEW g, Local(g, old, events)
    PROVE  Local(g, new, more)
<1>1. Len(old) \in Nat /\ Len(new) \in Nat /\ Len(old) <= Len(new)
  BY DEF SessionsStay
<1>2. g.obj \in Nat /\ g.obj <= Len(old)
  BY DEF Local, Goroutine
<1>3. g.obj # 0 => new[g.obj].key = old[g.obj].key
  BY <1>1, <1>2 DEF SessionsStay
<1> QED BY <1>1, <1>2, <1>3 DEF Local

\* A step of goroutine r: the goroutine moves to g.
LEMMA RelayStep ==
    ASSUME Base, Shared', SessionsStay(sps, sps'), past \subseteq past',
           NEW r \in Relays, NEW g, Local(g, sps', past'), relay' = [relay EXCEPT ![r] = g]
    PROVE  Base'
<1>1. \A q \in Relays : Local(relay[q], sps', past')
  BY LocalStays DEF Base
<1>2. \A q \in Relays : relay'[q] = IF q = r THEN g ELSE relay[q]
  BY DEF Base
<1>3. \A q \in Relays : Local(relay'[q], sps', past')
  BY <1>1, <1>2
<1>4. relay' \in [Relays -> Goroutine]
  <2>1. g \in Goroutine
    BY DEF Local
  <2> QED BY <2>1 DEF Base
<1> QED BY <1>3, <1>4 DEF Base

\* A step that moves a goroutine and leaves the sessions and counters alone.
LEMMA ControlStep ==
    ASSUME Base, NEW r \in Relays, NEW g, Local(g, sps, past), relay' = [relay EXCEPT ![r] = g],
           UNCHANGED <<manager, Sessions, sps, counters, proofs, past>>,
           received' \in 0..MaxRequests
    PROVE  Base'
<1>1. Shared'
  BY DEF Base, Shared, manager, counters, badges, MissingBounded
<1>2. SessionsStay(sps, sps') /\ past \subseteq past'
  BY DEF Base, Shared, SessionsStay
<1> QED BY <1>1, <1>2, RelayStep

\* A goroutine that only moves its control.
LEMMA GotoLocal ==
    ASSUME Base, NEW r \in Relays, NEW pc \in Steps \ {"missed", "read", "bump"}, Goto(r, pc),
           pc \in WithSession => relay[r].pc \in WithSession, pc # "idle" => relay[r].pc # "idle"
    PROVE  \E g : Local(g, sps, past) /\ relay' = [relay EXCEPT ![r] = g]
<1>1. CASE pc = "idle"
  BY <1>1, IdleLocal DEF Goto, Base, Shared
<1>2. CASE pc # "idle"
  <2> DEFINE g == [relay[r] EXCEPT !.pc = pc]
  <2>1. Local(relay[r], sps, past) /\ relay[r] \in Goroutine
    BY DEF Base
  <2>2. g \in Goroutine /\ g.pc = pc /\ g.obj = relay[r].obj /\ g.epoch = relay[r].epoch
          /\ g.id = relay[r].id /\ g.kind = relay[r].kind /\ g.num = relay[r].num /\ g.cu = relay[r].cu
    BY <2>1 DEF Goroutine
  <2>3. Local(g, sps, past)
    BY <1>2, <2>1, <2>2 DEF Local
  <2>4. relay' = [relay EXCEPT ![r] = g]
    BY <1>2 DEF Goto, Base
  <2> QED BY <2>3, <2>4
<1> QED BY <1>1, <1>2

\* The steps that only move control.
LEMMA GotoStep ==
    ASSUME Base, NEW r \in Relays, NEW pc \in Steps \ {"missed", "read", "bump"}, Goto(r, pc),
           pc \in WithSession => relay[r].pc \in WithSession, pc # "idle" => relay[r].pc # "idle",
           UNCHANGED <<manager, Sessions, sps, counters, proofs, received, past>>
    PROVE  Base'
<1>1. PICK g : Local(g, sps, past) /\ relay' = [relay EXCEPT ![r] = g]
  BY GotoLocal
<1>2. received' \in 0..MaxRequests
  BY DEF Base, Shared
<1> QED BY <1>1, <1>2, ControlStep

\* r takes object o of a sequence of sessions, or leaves it.
LEMMA KeepTakes ==
    ASSUME Base, NEW r \in Relays, relay[r].pc # "idle",
           NEW objects, SessionsStay(sps, objects), NEW o \in 1..Len(objects),
           objects[o].key = Key(r), Keep(r, objects, o)
    PROVE  /\ SessionsStay(objects, sps') /\ Len(sps') = Len(objects)
           /\ \E g : Local(g, sps', past) /\ relay' = [relay EXCEPT ![r] = g]
<1>0. Local(relay[r], sps, past) /\ relay[r] \in Goroutine /\ Shared /\ relay \in [Relays -> Goroutine]
  BY DEF Base
<1>1. objects \in Seq(SingleProviderSession) /\ Local(relay[r], objects, past)
        /\ objects[o] \in SingleProviderSession /\ o \in Nat
  BY <1>0, LocalStays DEF SessionsStay
<1>2. CASE RelayNumTaken(objects[o], relay[r].num)
  <2>1. sps' = objects /\ relay' = [relay EXCEPT ![r] = Idle]
    BY <1>2 DEF Keep, Goto
  <2>2. Local(Idle, sps', past)
    BY <1>1, <2>1, IdleLocal
  <2>3. SessionsStay(objects, objects)
    BY <1>1 DEF SessionsStay
  <2> QED BY <2>1, <2>2, <2>3
<1>3. CASE ~RelayNumTaken(objects[o], relay[r].num)
  <2> DEFINE b == IF relay[r].badge # 0 THEN relay[r].badge ELSE objects[o].badge
             x == [objects[o] EXCEPT !.lock = r, !.badge = b]
             g == [relay[r] EXCEPT !.pc = "prepare", !.obj = o]
  <2>1. sps' = [objects EXCEPT ![o] = x] /\ relay' = [relay EXCEPT ![r] = g]
    BY <1>0, <1>1, <1>3 DEF Keep
  <2>2. x \in SingleProviderSession /\ x.key = objects[o].key
    <3>1. b \in Nat
      BY <1>0, <1>1 DEF SingleProviderSession, Goroutine
    <3> HIDE DEF b
    <3> QED BY <1>1, <3>1 DEF SingleProviderSession
  <2>3. SessionsStay(objects, sps') /\ Len(sps') = Len(objects)
    BY <1>1, <2>1, <2>2, ChangeObject DEF SessionsStay
  <2>4. Local(g, objects, past)
    <3>1. g \in Goroutine /\ g.pc = "prepare" /\ g.obj = o /\ g.epoch = relay[r].epoch
            /\ g.id = relay[r].id /\ g.kind = relay[r].kind /\ g.num = relay[r].num /\ g.cu = relay[r].cu
      BY <1>0, <1>1 DEF Goroutine, Steps
    <3> QED BY <1>1, <3>1 DEF Local, Key
  <2>5. Local(g, sps', past)
    BY <2>3, <2>4, LocalStays
  <2> QED BY <2>1, <2>3, <2>5
<1> QED BY <1>2, <1>3

\* Finding a session and creating one.
LEMMA BaseTake ==
    ASSUME Base, NEW r \in Relays, getExistingSession(r) \/ createNewSingleProviderSession(r)
    PROVE  Base'
<1>0. Local(relay[r], sps, past) /\ relay[r] \in Goroutine /\ Shared
        /\ SessionsStay(sps, sps) /\ Len(sps) \in Nat /\ Key(r) \in Keys
  BY DEF Base, Shared, SessionsStay, getExistingSession, createNewSingleProviderSession, At, Local, Key
<1>1. CASE getExistingSession(r) /\ Sessions[Key(r)] = 0
  <2>1. UNCHANGED <<manager, Sessions, sps, counters, proofs, received, past>> /\ Goto(r, "create")
    BY <1>1 DEF getExistingSession
  <2> QED BY <1>1, <2>1, GotoStep DEF getExistingSession, At, Steps, WithSession, Holding
<1>2. CASE getExistingSession(r) /\ Sessions[Key(r)] # 0
  <2> DEFINE o == Sessions[Key(r)]
  <2>1. o \in 1..Len(sps) /\ sps[o].key = Key(r) /\ relay[r].pc # "idle" /\ Keep(r, sps, o)
    BY <1>0, <1>2 DEF Shared, getExistingSession, At
  <2>2. SessionsStay(sps, sps') /\ Len(sps') = Len(sps)
    BY <1>0, <2>1, KeepTakes
  <2>3. PICK g : Local(g, sps', past) /\ relay' = [relay EXCEPT ![r] = g]
    BY <1>0, <2>1, KeepTakes
  <2>4. /\ UNCHANGED <<manager, Sessions, counters, proofs, received>>
        /\ past' = past \cup Overflow(sps[o].RelayNum + 1)
    BY <1>2 DEF getExistingSession
  <2>5. ASSUME NEW k \in Keys, Sessions[k] # 0 PROVE sps'[Sessions[k]].key = k
    <3>1. Sessions[k] \in 1..Len(sps) /\ sps[Sessions[k]].key = k
      BY <1>0, <2>5 DEF Shared
    <3> QED BY <2>2, <3>1 DEF SessionsStay
  <2>6. past \subseteq past' /\ past' \subseteq Events
    BY <1>0, <2>4 DEF Shared, Overflow, Events
  <2>7. Unique(Sessions, sps', past')
    BY <1>0, <2>2, <2>6 DEF Shared, Unique, SessionsStay
  <2>8. Shared'
    BY <1>0, <2>2, <2>4, <2>5, <2>6, <2>7 DEF Shared, SessionsStay, manager, counters, badges, MissingBounded
  <2>9. Local(g, sps', past')
    BY <1>0, <2>2, <2>3, <2>6, LocalStays DEF SessionsStay
  <2> QED BY <2>2, <2>3, <2>6, <2>8, <2>9, RelayStep
<1>3. CASE createNewSingleProviderSession(r)
  <2> DEFINE objects == Append(sps, NewSession(Key(r)))
             n == Len(sps) + 1
  <2>1. NewSession(Key(r)) \in SingleProviderSession /\ NewSession(Key(r)).key = Key(r)
    BY <1>0, WordFacts DEF NewSession, SingleProviderSession
  <2>2. SessionsStay(sps, objects) /\ Len(objects) = n /\ objects[n].key = Key(r)
    BY <1>0, <2>1 DEF SessionsStay
  <2>3. Keep(r, objects, n) /\ relay[r].pc # "idle" /\ Sessions' = [Sessions EXCEPT ![Key(r)] = n]
    BY <1>3 DEF createNewSingleProviderSession, At
  <2> HIDE DEF objects
  <2>4. SessionsStay(objects, sps') /\ Len(sps') = n
    BY <1>0, <2>2, <2>3, KeepTakes
  <2>5. PICK g : Local(g, sps', past) /\ relay' = [relay EXCEPT ![r] = g]
    BY <1>0, <2>2, <2>3, KeepTakes
  <2>6. /\ UNCHANGED <<manager, counters, proofs, received>> /\ past \subseteq past'
        /\ past' = past \cup IF Sessions[Key(r)] = 0 THEN {} ELSE {"recreated"}
    BY <1>3 DEF createNewSingleProviderSession
  <2>7. SessionsStay(sps, sps')
    BY <1>0, <2>2, <2>4 DEF SessionsStay
  <2>8. Sessions' \in [Keys -> 0..Len(sps')]
    BY <1>0, <2>3, <2>4 DEF Shared
  <2>9. \A k \in Keys : Sessions'[k] # 0 => sps'[Sessions'[k]].key = k
    <3>1. sps'[n].key = Key(r)
      BY <1>0, <2>2, <2>4 DEF SessionsStay
    <3> QED BY <1>0, <2>3, <2>7, <3>1, SMTT(60) DEF Shared, SessionsStay
  <2>10. Unique(Sessions', sps', past')
    <3> SUFFICES ASSUME "recreated" \notin past', NEW p \in 1..Len(sps')
                 PROVE  Sessions'[sps'[p].key] = p
      BY DEF Unique
    <3>1. Sessions[Key(r)] = 0 /\ \A q \in 1..Len(sps) : Sessions[sps[q].key] = q
      BY <1>0, <2>6 DEF Shared, Unique
    <3>2. sps'[n].key = Key(r)
      BY <1>0, <2>2, <2>4 DEF SessionsStay
    <3>3. CASE p = n
      BY <1>0, <2>3, <3>2, <3>3 DEF Shared
    <3>4. CASE p # n
      <4>1. p \in 1..Len(sps) /\ sps'[p].key = sps[p].key
        BY <1>0, <2>4, <2>7, <3>4 DEF SessionsStay
      <4>2. Sessions[sps[p].key] = p /\ p # 0 /\ sps[p].key # Key(r)
        BY <3>1, <4>1
      <4>3. sps[p] \in SingleProviderSession
        BY <1>0, <4>1 DEF Shared
      <4>4. sps[p].key \in Keys
        BY <4>3 DEF SingleProviderSession
      <4> QED BY <1>0, <2>3, <4>1, <4>2, <4>4 DEF Shared
    <3> QED BY <3>3, <3>4
  <2>11. past' \subseteq Events
    BY <1>0, <2>6 DEF Shared, Events
  <2>12. Shared'
    BY <1>0, <2>6, <2>7, <2>8, <2>9, <2>10, <2>11 DEF Shared, SessionsStay, manager, counters, badges, MissingBounded
  <2>13. Local(g, sps', past')
    BY <1>0, <2>4, <2>5, <2>6, LocalStays, SMTT(60) DEF SessionsStay
  <2> QED BY <2>5, <2>6, <2>7, <2>12, <2>13, RelayStep
<1> QED BY <1>1, <1>2, <1>3

\* A goroutine that has the counter of its badge's user.
LEMMA BadgeLocal ==
    ASSUME NEW objects, NEW events, NEW h, Local(h, objects, events), h.pc # "idle", NEW c \in Nat
    PROVE  Local([h EXCEPT !.pc = "lookup", !.badge = c], objects, events)
<1> DEFINE g == [h EXCEPT !.pc = "lookup", !.badge = c]
<1>1. h \in Goroutine
  BY DEF Local
<1>2. g \in Goroutine /\ g.pc = "lookup" /\ g.obj = h.obj /\ g.epoch = h.epoch
        /\ g.id = h.id /\ g.kind = h.kind /\ g.num = h.num /\ g.cu = h.cu
  BY <1>1 DEF Goroutine, Steps
<1> HIDE DEF g
<1>3. Local(g, objects, events)
  BY <1>2 DEF Local, WithSession, Holding
<1> QED BY <1>3 DEF g

\* A goroutine that takes up a request has its type.
LEMMA RequestTyped ==
    ASSUME NEW h \in Goroutine, NEW kind \in Kinds, NEW e \in RequestEpochs, NEW i \in SessionIds,
           NEW n \in RelayNums, NEW c \in CuSums
    PROVE  [h EXCEPT !.pc = "get", !.kind = kind, !.epoch = e, !.id = i, !.num = n, !.cu = c]
             \in Goroutine
<1>1. "get" \in Steps
  BY DEF Steps
<1> QED BY <1>1 DEF Goroutine

\* The steps up to a session.
LEMMA BaseLookup == ASSUME Base, NEW r \in Relays, Lookup(r) PROVE Base'
<1>0. Local(relay[r], sps, past) /\ relay[r] \in Goroutine /\ Shared
  BY DEF Base
<1>1. CASE Receive(r)
  <2>1. PICK kind \in Kinds, k \in Keys, n \in RelayNums, c \in CuSums :
          relay' = [relay EXCEPT ![r] = [Idle EXCEPT !.pc = "get", !.kind = kind,
                      !.epoch = k[1], !.id = k[2], !.num = n, !.cu = c]]
    BY <1>1 DEF Receive
  <2> DEFINE g == [Idle EXCEPT !.pc = "get", !.kind = kind, !.epoch = k[1], !.id = k[2],
                               !.num = n, !.cu = c]
  <2>2. Idle \in Goroutine /\ Idle.obj = 0 /\ k[1] \in RequestEpochs /\ k[2] \in SessionIds
          /\ <<k[1], k[2]>> = k
    BY <1>0, IdleLocal DEF Local, Idle, Keys, Shared
  <2>3. Local(g, sps, past)
    <3>1. g \in Goroutine
      BY <2>2, RequestTyped
    <3>2. g.pc = "get" /\ g.obj = 0 /\ g.kind = kind /\ g.epoch = k[1] /\ g.id = k[2]
            /\ g.num = n /\ g.cu = c
      BY <2>2 DEF Goroutine
    <3>3. Len(sps) \in Nat
      BY <1>0 DEF Shared
    <3>4. <<g.epoch, g.id>> \in Keys
      BY <2>2, <3>2
    <3> HIDE DEF g
    <3> QED BY <3>1, <3>2, <3>3, <3>4 DEF Local, Holding, WithSession
  <2>4. received' \in 0..MaxRequests
    BY <1>0, <1>1, BoundAssumption DEF Receive, Shared
  <2> QED BY <1>1, <2>1, <2>3, <2>4, ControlStep DEF Receive
<1>2. CASE GetSession(r)
  BY <1>2, GotoStep DEF GetSession, At, Steps, WithSession, Holding
<1>3. CASE NotPaired(r)
  BY <1>3, GotoStep DEF NotPaired, At, Steps, WithSession, Holding
<1>4. CASE tryLockForUseFails(r)
  BY <1>4, GotoStep DEF tryLockForUseFails, At, Steps, WithSession, Holding
<1>5. CASE registerNewConsumer(r)
  <2>1. PICK pc \in {"again", "idle"} : Goto(r, pc)
    BY <1>5 DEF registerNewConsumer
  <2>2. PICK g : Local(g, sps, past) /\ relay' = [relay EXCEPT ![r] = g]
    BY <1>5, <2>1, GotoLocal DEF registerNewConsumer, At, Steps, WithSession, Holding
  <2>3. registered' \subseteq RequestEpochs
    BY <1>0, <1>5 DEF registerNewConsumer, At, Local, Keys, Shared
  <2>4. Shared'
    BY <1>0, <1>5, <2>3 DEF registerNewConsumer, Shared, counters, badges, MissingBounded
  <2>5. SessionsStay(sps, sps') /\ past \subseteq past'
    BY <1>0, <1>5 DEF registerNewConsumer, Shared, SessionsStay
  <2>6. sps' = sps /\ past' = past
    BY <1>5 DEF registerNewConsumer
  <2> QED BY <2>2, <2>4, <2>5, <2>6, RelayStep
<1>6. CASE getExistingSession(r) \/ createNewSingleProviderSession(r)
  BY <1>6, BaseTake
<1>7. CASE getBadgeEpochData(r) /\ badgeData[relay[r].epoch] = 0
  <2>1. UNCHANGED <<manager, Sessions, sps, counters, proofs, received, past>> /\ Goto(r, "newuser")
    BY <1>7 DEF getBadgeEpochData
  <2> QED BY <1>7, <2>1, GotoStep DEF getBadgeEpochData, At, Steps, WithSession, Holding
<1>8. CASE getBadgeEpochData(r) /\ badgeData[relay[r].epoch] # 0
  <2> DEFINE c == badgeData[relay[r].epoch]
             g == [relay[r] EXCEPT !.pc = "lookup", !.badge = c]
  <2>1. /\ UNCHANGED <<manager, Sessions, sps, counters, proofs, received, past>>
        /\ relay' = [relay EXCEPT ![r] = g] /\ relay[r].pc # "idle"
    BY <1>0, <1>8 DEF getBadgeEpochData, At, Base
  <2>2. c \in Nat
    BY <1>0, <2>1 DEF Shared, Local, Keys
  <2>3. Local(g, sps, past)
    BY <1>0, <2>1, <2>2, BadgeLocal
  <2> QED BY <1>0, <2>1, <2>3, ControlStep DEF Shared
<1>9. CASE registerBadgeEpochData(r)
  <2> DEFINE c == Len(badgeUsed) + 1
             g == [relay[r] EXCEPT !.pc = "lookup", !.badge = c]
  <2>1. /\ badgeUsed' = Append(badgeUsed, 0) /\ badgeUsed' \in Seq(Words) /\ Len(badgeUsed') = c
        /\ c \in Nat
    BY <1>0, <1>9, WordFacts DEF registerBadgeEpochData, Shared
  <2>2. /\ UNCHANGED <<manager, Sessions, sps, used, missing, proofs, received, past>>
        /\ relay' = [relay EXCEPT ![r] = g] /\ relay[r].pc # "idle"
        /\ badgeData' = [badgeData EXCEPT ![relay[r].epoch] = c]
    BY <1>0, <1>9, <2>1 DEF registerBadgeEpochData, At, Base
  <2>3. badgeData' \in [RequestEpochs -> Nat]
    BY <1>0, <2>1, <2>2 DEF Shared
  <2>4. Shared'
    BY <1>0, <2>1, <2>2, <2>3 DEF Shared, manager, MissingBounded
  <2>5. Local(g, sps, past)
    BY <1>0, <2>1, <2>2, BadgeLocal
  <2>6. SessionsStay(sps, sps') /\ past \subseteq past' /\ sps' = sps /\ past' = past
    BY <1>0, <2>2 DEF Shared, SessionsStay
  <2> QED BY <2>2, <2>4, <2>5, <2>6, RelayStep
<1> QED BY <1>1, <1>2, <1>3, <1>4, <1>5, <1>6, <1>7, <1>8, <1>9 DEF Lookup

\* A step that changes one session object, or none, and counters.
LEMMA CounterStep ==
    ASSUME Base, NEW r \in Relays, NEW g, Local(g, sps, past'), relay' = [relay EXCEPT ![r] = g],
           SessionsStay(sps, sps'), Len(sps') = Len(sps), past \subseteq past', past' \subseteq Events,
           used' \in [RequestEpochs -> Words], badgeUsed' \in Seq(Words),
           missing' \in [RequestEpochs -> Words], MissingBounded',
           UNCHANGED <<manager, Sessions, badgeData, proofs, received>>
    PROVE  Base'
<1>1. ASSUME NEW k \in Keys, Sessions[k] # 0 PROVE sps'[Sessions[k]].key = k
  <2>1. Sessions[k] \in 1..Len(sps) /\ sps[Sessions[k]].key = k
    BY <1>1 DEF Base, Shared
  <2> QED BY <2>1 DEF SessionsStay
<1>2. Unique(Sessions, sps', past')
  BY DEF Base, Shared, Unique, SessionsStay
<1>3. Shared'
  BY <1>1, <1>2 DEF Base, Shared, SessionsStay, manager
<1>4. Local(g, sps', past')
  BY LocalStays
<1> QED BY <1>3, <1>4, RelayStep

\* Changing one counter, if there is one with that number.
LEMMA ChangeCounter ==
    ASSUME NEW s \in Seq(Words), NEW c, NEW w, c \in 1..Len(s) => w \in Words
    PROVE  [s EXCEPT ![c] = w] \in Seq(Words) /\ Len([s EXCEPT ![c] = w]) = Len(s)
<1>1. CASE c \in 1..Len(s)
  BY <1>1, ChangeObject
<1>2. CASE c \notin 1..Len(s)
  <2>1. [s EXCEPT ![c] = w] = s
    BY <1>2
  <2> QED BY <2>1
<1> QED BY <1>1, <1>2

\* The object a goroutine has a pointer to.
LEMMA HasObject ==
    ASSUME Base, NEW r \in Relays, relay[r].pc \in WithSession
    PROVE  /\ relay[r].obj \in 1..Len(sps) /\ Session(r) \in SingleProviderSession
           /\ Session(r).key = Key(r) /\ relay[r].epoch \in RequestEpochs
<1>1. relay[r].obj \in Nat /\ relay[r].obj <= Len(sps) /\ relay[r].obj # 0 /\ Len(sps) \in Nat
  <2>1. Local(relay[r], sps, past) /\ sps \in Seq(SingleProviderSession)
    BY DEF Base, Shared
  <2>2. relay[r].obj \in Nat /\ relay[r].obj <= Len(sps) /\ relay[r].obj # 0
    BY <2>1 DEF Local, Goroutine
  <2> QED BY <2>1, <2>2
<1>2. relay[r].obj \in 1..Len(sps)
  BY <1>1
<1>3. Session(r) \in SingleProviderSession
  BY <1>2 DEF Session, Base, Shared
<1>4. Session(r).key = Key(r)
  BY DEF Base, Local, Session, Key
<1>5. Key(r) \in Keys
  BY <1>3, <1>4 DEF SingleProviderSession
<1> QED BY <1>2, <1>3, <1>4, <1>5 DEF Key, Keys

\* Changing one session keeps the others.
LEMMA ObjectStays ==
    ASSUME Base, NEW r \in Relays, relay[r].pc \in WithSession,
           NEW x \in SingleProviderSession, x.key = Session(r).key,
           sps' = [sps EXCEPT ![relay[r].obj] = x]
    PROVE  SessionsStay(sps, sps') /\ Len(sps') = Len(sps)
<1>1. relay[r].obj \in 1..Len(sps) /\ sps \in Seq(SingleProviderSession)
  BY HasObject DEF Base, Shared
<1>2. /\ sps' \in Seq(SingleProviderSession) /\ Len(sps') = Len(sps)
      /\ sps'[relay[r].obj] = x /\ \A j \in 1..Len(sps) \ {relay[r].obj} : sps'[j] = sps[j]
  BY <1>1, ChangeObject
<1> QED BY <1>1, <1>2 DEF SessionsStay, Session

\* The fields a relay keeps while it uses a session.
SameRequest(g, h) ==
    /\ g.kind = h.kind /\ g.epoch = h.epoch /\ g.id = h.id /\ g.num = h.num /\ g.cu = h.cu
    /\ g.obj = h.obj

\* A goroutine that keeps its request and its session.
LEMMA SameRequestLocal ==
    ASSUME NEW objects, NEW events, NEW h, Local(h, objects, events), h.pc # "idle",
           NEW g \in Goroutine, SameRequest(g, h), g.pc \notin {"missed", "read", "bump"},
           g.pc \in WithSession => h.pc \in WithSession
    PROVE  Local(g, objects, events)
  BY DEF Local, SameRequest

\* A step that changes the session of r and counters, and moves control.
LEMMA ObjectStep ==
    ASSUME Base, NEW r \in Relays, relay[r].pc \in WithSession,
           NEW x \in SingleProviderSession, x.key = Session(r).key,
           sps' = [sps EXCEPT ![relay[r].obj] = x],
           NEW g, Local(g, sps, past'), relay' = [relay EXCEPT ![r] = g],
           past \subseteq past', past' \subseteq Events,
           used' \in [RequestEpochs -> Words], badgeUsed' \in Seq(Words),
           UNCHANGED <<manager, Sessions, missing, badgeData, proofs, received>>
    PROVE  Base'
<1>1. SessionsStay(sps, sps') /\ Len(sps') = Len(sps)
  BY ObjectStays
<1>2. missing' \in [RequestEpochs -> Words] /\ MissingBounded'
  BY DEF Base, Shared, MissingBounded
<1> QED BY <1>1, <1>2, CounterStep

\* The same with the counters left alone and control going to pc.
LEMMA ObjectGoto ==
    ASSUME Base, NEW r \in Relays, relay[r].pc \in WithSession, relay[r].pc # "idle",
           NEW x \in SingleProviderSession, x.key = Session(r).key,
           sps' = [sps EXCEPT ![relay[r].obj] = x] \/ sps' = sps,
           NEW pc \in Steps \ {"missed", "read", "bump"}, Goto(r, pc),
           past \subseteq past', past' \subseteq Events,
           UNCHANGED <<manager, Sessions, counters, proofs, received>>
    PROVE  Base'
<1>1. PICK g : Local(g, sps, past) /\ relay' = [relay EXCEPT ![r] = g]
  BY GotoLocal
<1>2. SessionsStay(sps, sps)
  BY DEF Base, Shared, SessionsStay
<1>3. Local(g, sps, past')
  BY <1>1, <1>2, LocalStays
<1>4. /\ used' \in [RequestEpochs -> Words] /\ badgeUsed' \in Seq(Words)
      /\ missing' \in [RequestEpochs -> Words] /\ MissingBounded' /\ UNCHANGED <<missing, badgeData>>
  BY DEF Base, Shared, MissingBounded, counters, badges
<1>5. CASE sps' = sps
  BY <1>1, <1>2, <1>3, <1>4, <1>5, CounterStep
<1>6. CASE sps' = [sps EXCEPT ![relay[r].obj] = x]
  BY <1>1, <1>3, <1>4, <1>6, ObjectStep
<1> QED BY <1>5, <1>6

\* What the operations leave of a session object.
LEMMA LeftOfObject ==
    ASSUME NEW x \in SingleProviderSession
    PROVE  /\ Unlocked(x) \in SingleProviderSession /\ Unlocked(x).key = x.key
           /\ \A n \in RelayNums : Done(x, n) \in SingleProviderSession /\ Done(x, n).key = x.key
           /\ \A c \in Words : Undone(x, c) \in SingleProviderSession /\ Undone(x, c).key = x.key
           /\ \A c \in Words : /\ [x EXCEPT !.CuSum = c] \in SingleProviderSession
                               /\ [x EXCEPT !.CuSum = c].key = x.key
                               /\ [x EXCEPT !.LatestRelayCu = c] \in SingleProviderSession
                               /\ [x EXCEPT !.LatestRelayCu = c].key = x.key
<1>1. Unlocked(x) \in SingleProviderSession /\ Unlocked(x).key = x.key
        /\ Unlocked(x).LatestRelayCu = x.LatestRelayCu
  BY DEF Unlocked, SingleProviderSession
<1>2. ASSUME NEW n \in RelayNums PROVE Done(x, n) \in SingleProviderSession /\ Done(x, n).key = x.key
  <2> HIDE DEF Unlocked
  <2> QED BY <1>1, WordFacts DEF Done, SingleProviderSession
<1>3. ASSUME NEW c \in Words PROVE Undone(x, c) \in SingleProviderSession /\ Undone(x, c).key = x.key
  <2>1. Minus(c, x.LatestRelayCu) \in Words
    BY WordOps DEF SingleProviderSession
  <2> QED BY <1>1, <2>1, WordFacts DEF Undone, SingleProviderSession
<1>4. ASSUME NEW c \in Words
      PROVE  /\ [x EXCEPT !.CuSum = c] \in SingleProviderSession
             /\ [x EXCEPT !.CuSum = c].key = x.key
             /\ [x EXCEPT !.LatestRelayCu = c] \in SingleProviderSession
             /\ [x EXCEPT !.LatestRelayCu = c].key = x.key
  BY DEF SingleProviderSession
<1> QED BY <1>1, <1>2, <1>3, <1>4

\* The steps of PrepareSessionForUsage.
LEMMA BasePrepare == ASSUME Base, NEW r \in Relays, Prepare(r) PROVE Base'
<1> DEFINE x == Session(r)
           e == relay[r].epoch
<1>0. Local(relay[r], sps, past) /\ relay[r] \in Goroutine /\ Shared /\ relay \in [Relays -> Goroutine]
  BY DEF Base
<1>1. relay[r].pc \in WithSession /\ relay[r].pc # "idle"
  BY DEF Prepare, CannotPrepare, PrepareSessionForUsage, ReadMissing, AddMissing, validateAndAddUsedCU,
         validateAndAddBadgeUsedCU, ReadCuSum, WriteCuSum, DisbandSession, At, WithSession, Holding
<1>2. /\ relay[r].obj \in 1..Len(sps) /\ x \in SingleProviderSession
      /\ x.key = Key(r) /\ e \in RequestEpochs
  BY <1>1, HasObject
<1>3. SessionsStay(sps, sps) /\ received \in 0..MaxRequests /\ past \subseteq Events
  BY <1>0 DEF Shared, SessionsStay
<1>4. CASE CannotPrepare(r)
  BY <1>1, <1>4, GotoStep DEF CannotPrepare, At, Steps
<1>5. CASE PrepareSessionForUsage(r)
  <2> DEFINE cu == relay[r].cu
             sum == x.CuSum
             paid == [relay[r] EXCEPT !.pc = "charge", !.total = cu]
             part == [relay[r] EXCEPT !.pc = "missing", !.total = cu, !.add = Minus(Plus(CuFromSpec, sum), cu)]
             none == [relay[r] EXCEPT !.pc = "missing", !.total = sum, !.add = CuFromSpec]
  <2>1. cu \in Words /\ sum \in Words
    BY <1>0, <1>1, <1>2, WordFacts DEF Local, SingleProviderSession
  <2>2. Minus(Plus(CuFromSpec, sum), cu) \in Words
    <3> HIDE DEF cu, sum
    <3>1. Plus(CuFromSpec, sum) \in Words
      BY <2>1, WordFacts, WordOps
    <3> QED BY <2>1, <3>1, WordOps
  <2>3. /\ paid \in Goroutine /\ SameRequest(paid, relay[r]) /\ paid.pc = "charge"
        /\ part \in Goroutine /\ SameRequest(part, relay[r]) /\ part.pc = "missing"
        /\ none \in Goroutine /\ SameRequest(none, relay[r]) /\ none.pc = "missing"
    BY <1>0, <2>1, <2>2, WordFacts, ZenonT(90) DEF Goroutine, SameRequest, Steps
  <2>4. Local(paid, sps, past) /\ Local(part, sps, past) /\ Local(none, sps, past)
    BY <1>0, <1>1, <2>3, SameRequestLocal
  <2>5. relay' = [relay EXCEPT ![r] = IF cu >= Plus(sum, CuFromSpec) THEN paid
                                      ELSE IF cu > sum THEN part ELSE none]
    BY <1>5 DEF PrepareSessionForUsage
  <2>6. /\ UNCHANGED <<manager, Sessions, sps, counters, proofs, received>>
        /\ past' = past \cup Overflow(x.CuSum + CuFromSpec)
    BY <1>5 DEF PrepareSessionForUsage
  <2>7. past \subseteq past' /\ past' \subseteq Events
    BY <1>3, <2>6 DEF Overflow, Events
  <2> HIDE DEF cu, sum, paid, part, none
  <2>8. PICK g : Local(g, sps, past) /\ relay' = [relay EXCEPT ![r] = g]
    BY <2>4, <2>5
  <2>9. Local(g, sps, past')
    BY <1>3, <2>7, <2>8, LocalStays
  <2> QED BY <1>0, <1>3, <2>6, <2>7, <2>8, <2>9, CounterStep DEF Shared, counters, badges, MissingBounded
<1>6. CASE ReadMissing(r)
  <2> DEFINE may == MayMiss(Plus(missing[e], relay[r].add), used[e])
             g == [relay[r] EXCEPT !.pc = "missed", !.old = missing[e]]
  <2>1. /\ missing[e] \in Words /\ used[e] \in Words /\ relay[r].add \in Words
        /\ UNCHANGED <<manager, Sessions, sps, counters, proofs, received, past>>
    BY <1>0, <1>2, <1>6 DEF Shared, Goroutine, ReadMissing
  <2>2. CASE ~may
    <3>1. Goto(r, "disband")
      BY <1>6, <2>2 DEF ReadMissing
    <3> QED BY <1>1, <2>1, <3>1, GotoStep DEF Steps
  <2>3. CASE may
    <3>1. relay' = [relay EXCEPT ![r] = g]
      BY <1>0, <1>6, <2>3 DEF ReadMissing
    <3>2. g \in Goroutine /\ SameRequest(g, relay[r]) /\ g.pc = "missed" /\ g.old = missing[e]
            /\ g.add = relay[r].add
      BY <1>0, <2>1 DEF Goroutine, SameRequest, Steps
    <3>3. Plus(missing[e], relay[r].add) <= AllowedMissing
      BY <2>3 DEF MayMiss
    <3> HIDE DEF g
    <3>4. Local(g, sps, past)
      BY <1>0, <1>1, <3>2, <3>3 DEF Local, SameRequest
    <3> QED BY <1>3, <2>1, <3>1, <3>4, ControlStep
  <2> QED BY <2>2, <2>3
<1>7. CASE AddMissing(r)
  <2>1. /\ missing \in [RequestEpochs -> Words] /\ relay[r].add \in Words /\ relay[r].old \in Words
        /\ UNCHANGED <<manager, Sessions, sps, used, badgeUsed, badgeData, proofs, received, past>>
        /\ Plus(relay[r].old, relay[r].add) <= AllowedMissing
    BY <1>0, <1>7 DEF badges, Shared, Goroutine, AddMissing, At, Local
  <2>2. CASE missing[e] # relay[r].old
    <3>1. Goto(r, "missing") /\ UNCHANGED missing
      BY <1>7, <2>2 DEF AddMissing
    <3> QED BY <1>1, <2>1, <3>1, GotoStep DEF Steps, counters, badges
  <2>3. CASE missing[e] = relay[r].old
    <3>1. Goto(r, "charge") /\ missing' = [missing EXCEPT ![e] = Plus(@, relay[r].add)]
      BY <1>7, <2>3 DEF AddMissing
    <3>2. Plus(missing[e], relay[r].add) \in Words
      BY <2>1, <2>3, WordOps
    <3>3. missing' \in [RequestEpochs -> Words]
      BY <1>2, <2>1, <3>1, <3>2
    <3>4. \A f \in RequestEpochs : missing'[f] = IF f = e THEN Plus(relay[r].old, relay[r].add) ELSE missing[f]
      BY <1>2, <2>1, <2>3, <3>1
    <3>5. MissingBounded'
      BY <1>0, <2>1, <3>4 DEF MissingBounded, Shared
    <3>6. PICK g : Local(g, sps, past) /\ relay' = [relay EXCEPT ![r] = g]
      BY <1>1, <3>1, GotoLocal DEF Steps
    <3> QED BY <1>0, <1>3, <2>1, <3>3, <3>5, <3>6, CounterStep DEF Shared
  <2> QED BY <2>2, <2>3
<1>8. CASE validateAndAddUsedCU(r)
  <2> DEFINE cuToAdd == Minus(relay[r].total, x.CuSum)
             over == Plus(used[e], cuToAdd) > Limit
             g == [relay[r] EXCEPT !.add = cuToAdd, !.pc = IF x.badge # 0 THEN "badge" ELSE "apply"]
  <2>1. /\ used \in [RequestEpochs -> Words] /\ relay[r].total \in Words /\ x.CuSum \in Words
        /\ UNCHANGED <<manager, Sessions, sps, missing, badgeUsed, badgeData, proofs, received>>
    BY <1>0, <1>2, <1>8 DEF Shared, Goroutine, validateAndAddUsedCU, SingleProviderSession, badges
  <2>2. CASE over
    <3>1. Goto(r, "disband") /\ UNCHANGED <<used, past>>
      BY <1>8, <2>2 DEF validateAndAddUsedCU
    <3> QED BY <1>1, <2>1, <3>1, GotoStep DEF Steps, counters, badges
  <2>3. CASE ~over
    <3>1. /\ relay' = [relay EXCEPT ![r] = g] /\ used' = [used EXCEPT ![e] = Plus(@, cuToAdd)]
          /\ past' = past \cup Overflow(used[e] + cuToAdd)
      BY <1>0, <1>8, <2>3 DEF validateAndAddUsedCU
    <3>2. cuToAdd \in Words
      BY <2>1, WordOps
    <3> HIDE DEF cuToAdd
    <3>3. Plus(used[e], cuToAdd) \in Words
      BY <1>2, <2>1, <3>2, WordOps
    <3>4. used' \in [RequestEpochs -> Words]
      BY <1>2, <2>1, <3>1, <3>3
    <3>5. g \in Goroutine /\ SameRequest(g, relay[r]) /\ g.pc \in {"badge", "apply"}
      BY <1>0, <3>2, ZenonT(90) DEF Goroutine, SameRequest, Steps
    <3> HIDE DEF g
    <3>6. past \subseteq past' /\ past' \subseteq Events
      BY <1>3, <3>1 DEF Overflow, Events
    <3>7. Local(g, sps, past')
      BY <1>0, <1>1, <1>3, <3>5, <3>6, SameRequestLocal, LocalStays
    <3> QED BY <1>0, <1>3, <2>1, <3>1, <3>4, <3>6, <3>7, CounterStep DEF Shared, MissingBounded
  <2> QED BY <2>2, <2>3
<1>9. CASE validateAndAddBadgeUsedCU(r)
  <2> DEFINE c == x.badge
             over == Plus(badgeUsed[c], relay[r].add) > BadgeLimit
  <2>1. UNCHANGED <<manager, Sessions, used, missing, badgeData, proofs, received>>
    BY <1>9 DEF validateAndAddBadgeUsedCU
  <2>2. CASE over
    <3>1. /\ Goto(r, "disband") /\ UNCHANGED badgeUsed /\ sps' = [sps EXCEPT ![relay[r].obj] = Unlocked(x)]
          /\ past \subseteq past' /\ past' \subseteq past \cup {"early", "fatal"}
      BY <1>9, <2>2 DEF validateAndAddBadgeUsedCU, Session
    <3>2. past' \subseteq Events
      BY <1>3, <3>1 DEF Events
    <3>3. Unlocked(x) \in SingleProviderSession /\ Unlocked(x).key = x.key
      BY <1>2, LeftOfObject
    <3> QED BY <1>1, <2>1, <3>1, <3>2, <3>3, ObjectGoto DEF Steps, counters, badges
  <2>3. CASE ~over
    <3>1. /\ Goto(r, "apply") /\ UNCHANGED sps
          /\ badgeUsed' = [badgeUsed EXCEPT ![c] = Plus(badgeUsed[c], relay[r].add)]
          /\ past' = past \cup Overflow(badgeUsed[c] + relay[r].add)
      BY <1>9, <2>3 DEF validateAndAddBadgeUsedCU
    <3>2. PICK g : Local(g, sps, past) /\ relay' = [relay EXCEPT ![r] = g]
      BY <1>1, <3>1, GotoLocal DEF Steps
    <3>3. c \in 1..Len(badgeUsed) => Plus(badgeUsed[c], relay[r].add) \in Words
      BY <1>0, <1>2, WordOps DEF Shared, Goroutine
    <3>4. badgeUsed' \in Seq(Words)
      BY <1>0, <3>1, <3>3, ChangeCounter DEF Shared
    <3>5. past \subseteq past' /\ past' \subseteq Events
      BY <1>3, <3>1 DEF Overflow, Events
    <3>6. Local(g, sps, past')
      BY <1>3, <3>2, <3>5, LocalStays
    <3> QED BY <1>0, <1>3, <2>1, <3>1, <3>2, <3>4, <3>5, <3>6, CounterStep DEF Shared, MissingBounded
  <2> QED BY <2>2, <2>3
<1>10. CASE ReadCuSum(r)
  <2> DEFINE y == [x EXCEPT !.LatestRelayCu = relay[r].add]
             g == [relay[r] EXCEPT !.pc = "write", !.old = x.CuSum]
  <2>1. /\ UNCHANGED <<manager, Sessions, counters, proofs, received, past>>
        /\ relay' = [relay EXCEPT ![r] = g] /\ sps' = [sps EXCEPT ![relay[r].obj] = y]
    BY <1>0, <1>10 DEF ReadCuSum, Session
  <2>2. y \in SingleProviderSession /\ y.key = x.key
    BY <1>0, <1>2, LeftOfObject DEF Goroutine
  <2>3. g \in Goroutine /\ SameRequest(g, relay[r]) /\ g.pc = "write"
    BY <1>0, <1>2 DEF Goroutine, SingleProviderSession, SameRequest, Steps
  <2> HIDE DEF g, y
  <2>4. Local(g, sps, past)
    BY <1>0, <1>1, <2>3, SameRequestLocal
  <2> QED BY <1>0, <1>1, <1>3, <2>1, <2>2, <2>4, ObjectStep DEF Shared, counters, badges
<1>11. CASE WriteCuSum(r)
  <2> DEFINE y == [x EXCEPT !.CuSum = Plus(relay[r].old, relay[r].add)]
  <2>1. /\ UNCHANGED <<manager, Sessions, counters, proofs, received, past>>
        /\ Goto(r, "serve") /\ sps' = [sps EXCEPT ![relay[r].obj] = y]
    BY <1>11 DEF WriteCuSum, Session
  <2>2. Plus(relay[r].old, relay[r].add) \in Words
    BY <1>0, WordOps DEF Goroutine
  <2>3. y \in SingleProviderSession /\ y.key = x.key
    BY <1>2, <2>2, LeftOfObject
  <2> HIDE DEF y
  <2> QED BY <1>1, <1>3, <2>1, <2>3, ObjectGoto DEF Steps
<1>12. CASE DisbandSession(r)
  <2>1. /\ UNCHANGED <<manager, Sessions, counters, proofs, received, past>>
        /\ Goto(r, "idle")
        /\ sps' = [sps EXCEPT ![relay[r].obj] = Unlocked(x)] \/ sps' = sps
    BY <1>12 DEF DisbandSession, Session
  <2>2. Unlocked(x) \in SingleProviderSession /\ Unlocked(x).key = x.key
    BY <1>2, LeftOfObject
  <2> QED BY <1>1, <1>3, <2>1, <2>2, ObjectGoto DEF Steps
<1> QED BY <1>4, <1>5, <1>6, <1>7, <1>8, <1>9, <1>10, <1>11, <1>12 DEF Prepare

\* The steps of a relay that is served, and its end.
LEMMA BaseServe == ASSUME Base, NEW r \in Relays, Serve(r) PROVE Base'
<1> DEFINE x == Session(r)
           e == relay[r].epoch
<1>0. Local(relay[r], sps, past) /\ relay[r] \in Goroutine /\ Shared /\ relay \in [Relays -> Goroutine]
  BY DEF Base
<1>1. relay[r].pc \in WithSession /\ relay[r].pc # "idle" /\ relay[r].num \in RelayNums
  BY <1>0 DEF Serve, RelayDone, RelayFailed, SubscribeRefused, ReleaseSession, Subscribed,
         SubscribeFailed, OnSessionFailure, onSessionFailure, At, WithSession, Holding, Local
<1>2. /\ relay[r].obj \in 1..Len(sps) /\ x \in SingleProviderSession
      /\ x.key = Key(r) /\ e \in RequestEpochs
  BY <1>1, HasObject
<1>3. SessionsStay(sps, sps) /\ received \in 0..MaxRequests /\ past \subseteq Events
  BY <1>0 DEF Shared, SessionsStay
<1>4. ASSUME onSessionDone(r), NEW pc \in Steps \ {"missed", "read", "bump"}, Goto(r, pc),
             UNCHANGED <<manager, Sessions, counters, proofs, received, past>>
      PROVE  Base'
  <2>1. sps' = [sps EXCEPT ![relay[r].obj] = Done(x, relay[r].num)] \/ sps' = sps
    BY <1>4 DEF onSessionDone, Session
  <2>2. Done(x, relay[r].num) \in SingleProviderSession /\ Done(x, relay[r].num).key = x.key
    BY <1>1, <1>2, LeftOfObject
  <2> QED BY <1>1, <1>3, <1>4, <2>1, <2>2, ObjectGoto
<1>5. CASE RelayDone(r)
  BY <1>4, <1>5 DEF RelayDone, Steps
<1>6. CASE SubscribeRefused(r)
  BY <1>4, <1>6 DEF SubscribeRefused, Steps
<1>7. CASE ReleaseSession(r)
  BY <1>4, <1>7 DEF ReleaseSession, Steps
<1>8. CASE RelayFailed(r)
  BY <1>1, <1>8, GotoStep DEF RelayFailed, Steps
<1>9. CASE Subscribed(r)
  BY <1>1, <1>9, GotoStep DEF Subscribed, Steps
<1>10. CASE SubscribeFailed(r)
  <2>1. /\ UNCHANGED <<manager, Sessions, sps, counters, proofs, received>>
        /\ Goto(r, "fail") /\ past' = past \cup {"early"}
    BY <1>10 DEF SubscribeFailed
  <2>2. past \subseteq past' /\ past' \subseteq Events
    BY <1>3, <2>1 DEF Events
  <2> QED BY <1>1, <1>2, <2>1, <2>2, ObjectGoto DEF Steps
<1>11. CASE OnSessionFailure(r)
  <2>1. UNCHANGED <<manager, Sessions, counters, proofs, received, past>>
    BY <1>11 DEF OnSessionFailure
  <2>2. CASE ~IsValidEpoch(e)
    <3>1. onSessionDone(r) /\ Goto(r, "idle")
      BY <1>11, <2>2 DEF OnSessionFailure
    <3> QED BY <1>4, <2>1, <3>1 DEF Steps
  <2>3. CASE IsValidEpoch(e) /\ x.lock = Free
    <3>1. Goto(r, "idle") /\ UNCHANGED sps
      BY <1>11, <2>3 DEF OnSessionFailure
    <3> QED BY <1>1, <2>1, <3>1, GotoStep DEF Steps
  <2>4. CASE IsValidEpoch(e) /\ x.lock # Free
    <3> DEFINE g == [relay[r] EXCEPT !.pc = "undo", !.old = x.CuSum]
    <3>1. relay' = [relay EXCEPT ![r] = g] /\ UNCHANGED sps
      BY <1>0, <1>11, <2>4 DEF OnSessionFailure
    <3>2. g \in Goroutine /\ SameRequest(g, relay[r]) /\ g.pc = "undo"
      BY <1>0, <1>2 DEF Goroutine, SingleProviderSession, SameRequest, Steps
    <3> HIDE DEF g
    <3>3. Local(g, sps, past)
      BY <1>0, <1>1, <3>2, SameRequestLocal
    <3> QED BY <1>3, <2>1, <3>1, <3>3, ControlStep
  <2> QED BY <2>2, <2>3, <2>4
<1>12. CASE onSessionFailure(r)
  <2> DEFINE cu == x.LatestRelayCu
             y == Undone(x, relay[r].old)
  <2>1. /\ UNCHANGED <<manager, Sessions, missing, badgeData, proofs, received>>
        /\ Goto(r, "idle") /\ sps' = [sps EXCEPT ![relay[r].obj] = y]
        /\ used' = [used EXCEPT ![e] = Minus(@, cu)]
        /\ \/ badgeUsed' = badgeUsed
           \/ badgeUsed' = [badgeUsed EXCEPT ![x.badge] = Minus(badgeUsed[x.badge], cu)]
        /\ past \subseteq past' /\ past' \subseteq past \cup {"fatal"}
    BY <1>12 DEF onSessionFailure, Session
  <2>2. past' \subseteq Events
    BY <1>3, <2>1 DEF Events
  <2>3. y \in SingleProviderSession /\ y.key = x.key
    BY <1>0, <1>2, LeftOfObject DEF Goroutine
  <2>4. cu \in Words
    BY <1>2 DEF SingleProviderSession
  <2> HIDE DEF y, cu
  <2>5. /\ Minus(used[e], cu) \in Words
        /\ x.badge \in 1..Len(badgeUsed) => Minus(badgeUsed[x.badge], cu) \in Words
    BY <1>0, <1>2, <2>4, WordOps DEF Shared
  <2>6. used' \in [RequestEpochs -> Words] /\ badgeUsed' \in Seq(Words)
    <3>1. used' \in [RequestEpochs -> Words]
      BY <1>0, <1>2, <2>1, <2>5 DEF Shared
    <3>2. badgeUsed \in Seq(Words)
      BY <1>0 DEF Shared
    <3>3. [badgeUsed EXCEPT ![x.badge] = Minus(badgeUsed[x.badge], cu)] \in Seq(Words)
      BY <2>5, <3>2, ChangeCounter
    <3> QED BY <2>1, <3>1, <3>2, <3>3
  <2>7. PICK g : Local(g, sps, past) /\ relay' = [relay EXCEPT ![r] = g]
    BY <1>1, <2>1, GotoLocal DEF Steps
  <2>8. Local(g, sps, past')
    BY <1>3, <2>1, <2>7, LocalStays
  <2> QED BY <1>1, <2>1, <2>2, <2>3, <2>6, <2>7, <2>8, ObjectStep
<1> QED BY <1>5, <1>6, <1>7, <1>8, <1>9, <1>10, <1>11, <1>12 DEF Serve

\* The steps of a proof and of UpdateSessionCU.
LEMMA BaseProve == ASSUME Base, NEW r \in Relays, Prove(r) PROVE Base'
<1> DEFINE e == relay[r].epoch
<1>0. Local(relay[r], sps, past) /\ relay[r] \in Goroutine /\ Shared /\ relay \in [Relays -> Goroutine]
  BY DEF Base
<1>1. relay[r].pc # "idle" /\ Key(r) \in Keys /\ relay[r].cu \in CuSums /\ e \in RequestEpochs
  <2>1. relay[r].pc # "idle"
    BY DEF Prove, SendProof, UpdateSessionCU, writeCuSumAtomically, atomicReadUsedComputeUnits,
           atomicWriteUsedComputeUnits, At
  <2>2. <<relay[r].epoch, relay[r].id>> \in Keys /\ relay[r].cu \in CuSums
    BY <1>0, <2>1 DEF Local
  <2> QED BY <2>1, <2>2 DEF Key, Keys
<1>2. SessionsStay(sps, sps) /\ received \in 0..MaxRequests /\ past \subseteq Events
  BY <1>0 DEF Shared, SessionsStay
<1>3. CASE SendProof(r)
  <2> DEFINE stored == proofs[Key(r)]
             g == [relay[r] EXCEPT !.pc = "update", !.total = stored]
  <2>1. UNCHANGED <<manager, Sessions, sps, counters, received, past>> /\ proofs' = Stored(Key(r), relay[r].cu)
    BY <1>3 DEF SendProof
  <2>2. stored \in CuSums \cup RestoredCus /\ stored \in Words
    BY <1>0, <1>1, WordFacts DEF Shared
  <2>3. \E h : Local(h, sps, past) /\ relay' = [relay EXCEPT ![r] = h]
    <3>1. CASE stored > relay[r].cu
      <4>1. relay' = [relay EXCEPT ![r] = g]
        BY <1>0, <1>3, <3>1 DEF SendProof
      <4> HIDE DEF stored
      <4>2. g \in Goroutine /\ SameRequest(g, relay[r]) /\ g.pc = "update"
        BY <1>0, <2>2 DEF Goroutine, SameRequest, Steps
      <4> HIDE DEF g
      <4>3. Local(g, sps, past)
        BY <1>0, <1>1, <4>2, SameRequestLocal DEF WithSession, Holding
      <4> QED BY <4>1, <4>3
    <3>2. CASE ~(stored > relay[r].cu)
      <4>1. Goto(r, "idle")
        BY <1>3, <3>2 DEF SendProof
      <4> QED BY <4>1, GotoLocal DEF Steps, WithSession, Holding
    <3> QED BY <3>1, <3>2
  <2>4. proofs' \in [Keys -> CuSums \cup RestoredCus]
    <3>1. Max({stored, relay[r].cu}) \in {stored, relay[r].cu}
      <4>1. stored \in Int /\ relay[r].cu \in Int
        <5>1. stored \in Words /\ relay[r].cu \in Words
          BY <1>1, <2>2, WordFacts
        <5> HIDE DEF stored
        <5> QED BY <5>1 DEF Words
      <4> HIDE DEF stored
      <4> QED BY <4>1 DEF Max
    <3>2. proofs' = [proofs EXCEPT ![Key(r)] = Max({stored, relay[r].cu})]
      BY <2>1 DEF Stored
    <3> HIDE DEF stored
    <3> QED BY <1>0, <1>1, <2>2, <3>1, <3>2 DEF Shared
  <2>5. Shared'
    BY <1>0, <2>1, <2>4 DEF Shared, manager, counters, badges, MissingBounded
  <2>6. PICK h : Local(h, sps, past) /\ relay' = [relay EXCEPT ![r] = h]
    BY <2>3
  <2>7. Local(h, sps', past') /\ SessionsStay(sps, sps') /\ past \subseteq past'
    BY <1>2, <2>1, <2>6
  <2> QED BY <2>5, <2>6, <2>7, RelayStep
<1>4. CASE UpdateSessionCU(r)
  <2> DEFINE o == Sessions[Key(r)]
             raise == /\ IsValidEpoch(e) /\ e \in registered
                      /\ o # 0 /\ relay[r].total > sps[o].CuSum
             g == [relay[r] EXCEPT !.pc = "raise", !.obj = o, !.old = sps[o].CuSum]
  <2>1. UNCHANGED <<manager, Sessions, sps, counters, proofs, received, past>>
    BY <1>4 DEF UpdateSessionCU
  <2>2. CASE ~raise
    <3>1. Goto(r, "idle")
      BY <1>4, <2>2 DEF UpdateSessionCU
    <3> QED BY <2>1, <3>1, GotoStep DEF Steps, WithSession, Holding
  <2>3. CASE raise
    <3>1. relay' = [relay EXCEPT ![r] = g]
      BY <1>0, <1>4, <2>3 DEF UpdateSessionCU
    <3>2. o \in 1..Len(sps) /\ sps[o].key = Key(r)
      BY <1>0, <1>1, <2>3 DEF Shared
    <3>3. sps[o].CuSum \in Words /\ o \in Nat /\ o # 0 /\ o <= Len(sps) /\ Len(sps) \in Nat
      <4>1. sps \in Seq(SingleProviderSession)
        BY <1>0 DEF Shared
      <4> HIDE DEF o
      <4>2. sps[o] \in SingleProviderSession /\ Len(sps) \in Nat
        BY <3>2, <4>1
      <4>3. sps[o].CuSum \in Words
        BY <4>2 DEF SingleProviderSession
      <4> QED BY <3>2, <4>2, <4>3
    <3> HIDE DEF o, raise
    <3>4. g \in Goroutine /\ g.pc = "raise" /\ g.obj = o /\ g.epoch = relay[r].epoch
            /\ g.id = relay[r].id /\ g.kind = relay[r].kind /\ g.num = relay[r].num /\ g.cu = relay[r].cu
      BY <1>0, <3>3 DEF Goroutine, Steps
    <3> HIDE DEF g
    <3>5. Local(g, sps, past)
      BY <1>0, <1>1, <3>2, <3>3, <3>4 DEF Local, Key
    <3> QED BY <1>2, <2>1, <3>1, <3>5, ControlStep
  <2> QED BY <2>2, <2>3
<1>5. CASE writeCuSumAtomically(r)
  <2> DEFINE y == [Session(r) EXCEPT !.CuSum = relay[r].total]
             g == [relay[r] EXCEPT !.pc = "read"]
  <2>1. /\ UNCHANGED <<manager, Sessions, counters, proofs, received>>
        /\ Goto(r, "read") /\ past' = past \cup {"raised"} /\ sps' = [sps EXCEPT ![relay[r].obj] = y]
        /\ relay[r].pc \in WithSession
    BY <1>5 DEF writeCuSumAtomically, Session, At, WithSession
  <2>2. Session(r) \in SingleProviderSession
    BY <2>1, HasObject
  <2>3. y \in SingleProviderSession /\ y.key = Session(r).key
    BY <1>0, <2>2, LeftOfObject DEF Goroutine
  <2>4. relay' = [relay EXCEPT ![r] = g]
    BY <1>0, <2>1 DEF Goto
  <2>5. g \in Goroutine /\ SameRequest(g, relay[r]) /\ g.pc = "read"
    BY <1>0 DEF Goroutine, SameRequest, Steps
  <2> HIDE DEF g, y
  <2>6. Local(g, sps, past')
    BY <1>0, <1>1, <2>1, <2>5 DEF Local, SameRequest, WithSession, Holding
  <2>7. past \subseteq past' /\ past' \subseteq Events
    BY <1>2, <2>1 DEF Events
  <2> QED BY <1>0, <2>1, <2>3, <2>4, <2>6, <2>7, ObjectStep DEF Shared, counters, badges
<1>6. CASE atomicReadUsedComputeUnits(r)
  <2> DEFINE g == [relay[r] EXCEPT !.pc = "bump", !.add = used[e]]
  <2>1. /\ UNCHANGED <<manager, Sessions, sps, counters, proofs, received, past>>
        /\ relay' = [relay EXCEPT ![r] = g] /\ "raised" \in past
    BY <1>0, <1>6 DEF atomicReadUsedComputeUnits, At, Local
  <2>2. used[e] \in Words
    BY <1>0, <1>1 DEF Shared
  <2>3. g \in Goroutine /\ SameRequest(g, relay[r]) /\ g.pc = "bump"
    BY <1>0, <2>2 DEF Goroutine, SameRequest, Steps
  <2> HIDE DEF g
  <2>4. Local(g, sps, past)
    BY <1>0, <1>1, <2>1, <2>3 DEF Local, SameRequest, WithSession, Holding
  <2> QED BY <1>2, <2>1, <2>4, ControlStep
<1>7. CASE atomicWriteUsedComputeUnits(r)
  <2> DEFINE c == Plus(relay[r].add, Minus(relay[r].total, relay[r].old))
  <2>1. /\ UNCHANGED <<manager, Sessions, sps, missing, badgeUsed, badgeData, proofs, received, past>>
        /\ Goto(r, "idle") /\ used' = [used EXCEPT ![e] = c]
    BY <1>7 DEF atomicWriteUsedComputeUnits, badges
  <2>2. c \in Words
    <3>1. Minus(relay[r].total, relay[r].old) \in Words /\ relay[r].add \in Words
      BY <1>0, WordOps DEF Goroutine
    <3> QED BY <3>1, WordOps
  <2> HIDE DEF c
  <2>3. used' \in [RequestEpochs -> Words]
    BY <1>0, <1>1, <2>1, <2>2 DEF Shared
  <2>4. PICK h : Local(h, sps, past) /\ relay' = [relay EXCEPT ![r] = h]
    BY <2>1, GotoLocal DEF Steps, WithSession, Holding
  <2> QED BY <1>0, <1>2, <2>1, <2>3, <2>4, CounterStep DEF Shared, MissingBounded
<1> QED BY <1>3, <1>4, <1>5, <1>6, <1>7 DEF Prove

\* A new epoch drops old sessions from the map.
LEMMA BaseUpdateEpoch == ASSUME Base, NEW f \in 1..MaxEpoch, UpdateEpoch(f) PROVE Base'
<1>1. currentEpoch' \in 0..MaxEpoch /\ blockedEpoch' \in 0..MaxEpoch
  BY EpochAssumption DEF UpdateEpoch, BlockedAt
<1>2. registered' \subseteq RequestEpochs
  BY DEF UpdateEpoch, Base, Shared
<1>3. Shared'
  BY <1>1, <1>2 DEF UpdateEpoch, Base, Shared, counters, badges, MissingBounded
<1> QED BY <1>3 DEF UpdateEpoch, Base

\* Base is inductive.
LEMMA BaseNext == Base /\ [Next]_vars => Base'
<1> SUFFICES ASSUME Base, [Next]_vars PROVE Base'
  OBVIOUS
<1>1. CASE UNCHANGED vars
  BY <1>1 DEF Base, Shared, vars, manager, counters, badges, MissingBounded
<1>2. CASE Next
  BY <1>2, BaseLookup, BasePrepare, BaseServe, BaseProve, BaseUpdateEpoch DEF Next
<1> QED BY <1>1, <1>2

\* Every pointer to a counter of the badge's user leads to one.
Pointers ==
    /\ \A e \in RequestEpochs : badgeData[e] <= Len(badgeUsed)
    /\ \A o \in 1..Len(sps) : sps[o].badge <= Len(badgeUsed)
    /\ \A r \in Relays : relay[r].badge <= Len(badgeUsed)

\* A step that hands out no pointer.
LEMMA PointersStay ==
    ASSUME Base, Base', Pointers, badgeData' = badgeData, Len(badgeUsed') = Len(badgeUsed),
           NEW r \in Relays, NEW g, relay' = [relay EXCEPT ![r] = g], g.badge \in {0, relay[r].badge},
           \A o \in 1..Len(sps') : \/ o \in 1..Len(sps) /\ sps'[o].badge = sps[o].badge
                                  \/ sps'[o].badge \in {0, relay[r].badge}
    PROVE  Pointers'
<1>1. Len(badgeUsed) \in Nat
  BY DEF Base, Shared
<1>2. \A q \in Relays : relay'[q] = IF q = r THEN g ELSE relay[q]
  BY DEF Base
<1> QED BY <1>1, <1>2 DEF Pointers

\* What Goto leaves of a goroutine's pointer.
LEMMA GotoBadge ==
    ASSUME Base, NEW r \in Relays, NEW pc, Goto(r, pc)
    PROVE  \E g : relay' = [relay EXCEPT ![r] = g] /\ g.badge \in {0, relay[r].badge}
<1>1. relay[r] \in Goroutine /\ relay \in [Relays -> Goroutine]
  BY DEF Base
<1>2. CASE pc = "idle"
  <2>1. relay' = [relay EXCEPT ![r] = Idle] /\ Idle.badge = 0
    BY <1>2 DEF Goto, Idle
  <2> QED BY <2>1
<1>3. CASE pc # "idle"
  <2>1. relay' = [relay EXCEPT ![r] = [relay[r] EXCEPT !.pc = pc]]
    BY <1>1, <1>3 DEF Goto
  <2>2. [relay[r] EXCEPT !.pc = pc].badge = relay[r].badge
    BY <1>1 DEF Goroutine
  <2> QED BY <2>1, <2>2
<1> QED BY <1>2, <1>3

\* A step of r that leaves the pointers of the sessions alone.
LEMMA PointersKept ==
    ASSUME Base, Base', Pointers, UNCHANGED badgeData, Len(badgeUsed') = Len(badgeUsed),
           NEW r \in Relays, NEW g, relay' = [relay EXCEPT ![r] = g], g.badge \in {0, relay[r].badge},
           \/ sps' = sps
           \/ \E x : sps' = [sps EXCEPT ![relay[r].obj] = x] /\ x.badge = Session(r).badge
    PROVE  Pointers'
<1>1. sps \in Seq(SingleProviderSession)
  BY DEF Base, Shared
<1>2. \A o \in 1..Len(sps') : o \in 1..Len(sps) /\ sps'[o].badge = sps[o].badge
  <2>1. CASE sps' = sps
    BY <2>1
  <2>2. CASE sps' # sps
    <3>1. PICK x : sps' = [sps EXCEPT ![relay[r].obj] = x] /\ x.badge = Session(r).badge
      BY <2>2
    <3>2. Len(sps') = Len(sps) /\ \A o \in 1..Len(sps) : sps'[o] = IF o = relay[r].obj THEN x ELSE sps[o]
      BY <1>1, <3>1
    <3> QED BY <3>1, <3>2 DEF Session
  <2> QED BY <2>1, <2>2
<1> QED BY <1>2, PointersStay

\* Taking a session hands on the relay's pointer.
LEMMA PointersTake ==
    ASSUME Base, Base', Pointers, NEW r \in Relays,
           getExistingSession(r) \/ createNewSingleProviderSession(r)
    PROVE  Pointers'
<1>0. /\ relay[r] \in Goroutine /\ relay \in [Relays -> Goroutine] /\ sps \in Seq(SingleProviderSession)
      /\ Len(sps) \in Nat /\ badgeData' = badgeData /\ badgeUsed' = badgeUsed
  BY DEF Base, Shared, getExistingSession, createNewSingleProviderSession, counters, badges
<1>1. CASE Goto(r, "create") /\ UNCHANGED sps
  <2>1. PICK g : relay' = [relay EXCEPT ![r] = g] /\ g.badge \in {0, relay[r].badge}
    BY <1>1, GotoBadge
  <2> QED BY <1>0, <1>1, <2>1, PointersKept
<1>2. ASSUME NEW objects \in Seq(SingleProviderSession), NEW o \in 1..Len(objects), Keep(r, objects, o),
             \A p \in 1..Len(objects) : (p \in 1..Len(sps) /\ objects[p] = sps[p]) \/ objects[p].badge = 0
      PROVE  Pointers'
  <2>1. CASE RelayNumTaken(objects[o], relay[r].num)
    <3>1. Goto(r, "idle") /\ sps' = objects
      BY <1>2, <2>1 DEF Keep
    <3>2. PICK g : relay' = [relay EXCEPT ![r] = g] /\ g.badge \in {0, relay[r].badge}
      BY <3>1, GotoBadge
    <3>3. \A p \in 1..Len(sps') : \/ p \in 1..Len(sps) /\ sps'[p].badge = sps[p].badge
                                  \/ sps'[p].badge \in {0, relay[r].badge}
      BY <1>2, <3>1
    <3> QED BY <1>0, <3>2, <3>3, PointersStay
  <2>2. CASE ~RelayNumTaken(objects[o], relay[r].num)
    <3> DEFINE b == IF relay[r].badge # 0 THEN relay[r].badge ELSE objects[o].badge
               x == [objects[o] EXCEPT !.lock = r, !.badge = b]
               g == [relay[r] EXCEPT !.pc = "prepare", !.obj = o]
    <3>1. sps' = [objects EXCEPT ![o] = x] /\ relay' = [relay EXCEPT ![r] = g]
      BY <1>0, <1>2, <2>2 DEF Keep
    <3>2. x.badge = b
      BY <1>2 DEF SingleProviderSession
    <3>3. g.badge = relay[r].badge
      BY <1>0 DEF Goroutine
    <3> HIDE DEF x, g
    <3>4. Len(sps') = Len(objects) /\ \A p \in 1..Len(objects) : sps'[p] = IF p = o THEN x ELSE objects[p]
      BY <1>2, <3>1
    <3>5. \A p \in 1..Len(sps') : \/ p \in 1..Len(sps) /\ sps'[p].badge = sps[p].badge
                                  \/ sps'[p].badge \in {0, relay[r].badge}
      BY <1>2, <3>2, <3>4
    <3> QED BY <1>0, <3>1, <3>3, <3>5, PointersStay
  <2> QED BY <2>1, <2>2
<1>3. CASE getExistingSession(r) /\ Sessions[Key(r)] # 0
  <2>1. Keep(r, sps, Sessions[Key(r)]) /\ Sessions[Key(r)] \in 1..Len(sps)
    <3>1. Key(r) \in Keys
      BY <1>3 DEF getExistingSession, At, Base, Local, Key
    <3> QED BY <1>0, <1>3, <3>1 DEF getExistingSession, Base, Shared
  <2> QED BY <1>0, <1>2, <2>1
<1>4. CASE createNewSingleProviderSession(r)
  <2> DEFINE objects == Append(sps, NewSession(Key(r)))
  <2>1. NewSession(Key(r)) \in SingleProviderSession /\ NewSession(Key(r)).badge = 0
    <3>1. Key(r) \in Keys
      BY <1>4 DEF createNewSingleProviderSession, At, Base, Local, Key
    <3> QED BY <3>1, WordFacts DEF NewSession, SingleProviderSession
  <2>2. /\ objects \in Seq(SingleProviderSession) /\ Len(sps) + 1 \in 1..Len(objects)
        /\ \A p \in 1..Len(objects) : (p \in 1..Len(sps) /\ objects[p] = sps[p]) \/ objects[p].badge = 0
    BY <1>0, <2>1
  <2>3. Keep(r, objects, Len(sps) + 1)
    BY <1>4 DEF createNewSingleProviderSession
  <2> HIDE DEF objects
  <2> QED BY <1>2, <2>2, <2>3
<1>5. CASE getExistingSession(r) /\ Sessions[Key(r)] = 0
  BY <1>1, <1>5 DEF getExistingSession
<1> QED BY <1>3, <1>4, <1>5

\* Every step keeps the pointers.
LEMMA PointersNext == Base /\ Pointers /\ [Next]_vars => Pointers'
<1> SUFFICES ASSUME Base, Pointers, [Next]_vars PROVE Pointers'
  OBVIOUS
<1>0. /\ Base' /\ badgeUsed \in Seq(Words) /\ Len(badgeUsed) \in Nat
      /\ relay \in [Relays -> Goroutine] /\ sps \in Seq(SingleProviderSession)
  BY BaseNext DEF Base, Shared
<1>1. CASE UNCHANGED <<badges, sps, relay>>
  BY <1>1 DEF Pointers, badges
<1>2. ASSUME NEW r \in Relays, NEW pc, Goto(r, pc), UNCHANGED badgeData, Len(badgeUsed') = Len(badgeUsed),
             \/ sps' = sps
             \/ \E x : sps' = [sps EXCEPT ![relay[r].obj] = x] /\ x.badge = Session(r).badge
      PROVE  Pointers'
  <2>1. PICK g : relay' = [relay EXCEPT ![r] = g] /\ g.badge \in {0, relay[r].badge}
    BY <1>2, GotoBadge
  <2> QED BY <1>0, <1>2, <2>1, PointersKept
<1>3. ASSUME NEW r \in Relays, Lookup(r) PROVE Pointers'
  <2>1. CASE Receive(r)
    <3>1. PICK kind \in Kinds, k \in Keys, n \in RelayNums, c \in CuSums :
            relay' = [relay EXCEPT ![r] = [Idle EXCEPT !.pc = "get", !.kind = kind,
                        !.epoch = k[1], !.id = k[2], !.num = n, !.cu = c]]
      BY <2>1 DEF Receive
    <3>2. [Idle EXCEPT !.pc = "get", !.kind = kind, !.epoch = k[1], !.id = k[2],
                       !.num = n, !.cu = c].badge = 0
      BY DEF Idle
    <3>3. UNCHANGED <<badgeData, badgeUsed, sps>>
      BY <2>1 DEF Receive, counters, badges
    <3> QED BY <1>0, <3>1, <3>2, <3>3, PointersKept
  <2>2. CASE GetSession(r) \/ NotPaired(r) \/ tryLockForUseFails(r) \/ registerNewConsumer(r)
    <3>1. (\E pc : Goto(r, pc)) /\ UNCHANGED <<badgeData, badgeUsed, sps>>
      BY <2>2 DEF GetSession, NotPaired, tryLockForUseFails, registerNewConsumer, counters, badges
    <3> QED BY <1>0, <1>2, <3>1
  <2>3. CASE getExistingSession(r) \/ createNewSingleProviderSession(r)
    BY <1>0, <2>3, PointersTake
  <2>4. CASE getBadgeEpochData(r) \/ registerBadgeEpochData(r)
    <3> DEFINE f == relay[r].epoch
    <3>1. f \in RequestEpochs
      BY <2>4 DEF getBadgeEpochData, registerBadgeEpochData, At, Base, Local, Keys
    <3>2. CASE getBadgeEpochData(r) /\ badgeData[f] = 0
      BY <1>0, <1>2, <3>2 DEF getBadgeEpochData, counters, badges
    <3>3. ASSUME NEW c \in Nat, relay' = [relay EXCEPT ![r].pc = "lookup", ![r].badge = c],
                 \A q \in Relays : relay[q].badge <= Len(badgeUsed'), c <= Len(badgeUsed')
          PROVE  \A q \in Relays : relay'[q].badge <= Len(badgeUsed')
      <4>1. \A q \in Relays : q # r => relay'[q] = relay[q]
        BY <1>0, <3>3
      <4>2. relay'[r].badge = c
        BY <1>0, <3>3 DEF Goroutine
      <4> QED BY <3>3, <4>1, <4>2
    <3>4. CASE getBadgeEpochData(r) /\ badgeData[f] # 0
      <4>1. /\ relay' = [relay EXCEPT ![r].pc = "lookup", ![r].badge = badgeData[f]]
            /\ UNCHANGED <<badgeData, badgeUsed, sps>> /\ badgeData[f] \in Nat
        BY <3>1, <3>4 DEF getBadgeEpochData, counters, badges, Base, Shared
      <4>2. \A q \in Relays : relay'[q].badge <= Len(badgeUsed')
        BY <3>1, <3>3, <4>1 DEF Pointers
      <4> QED BY <4>1, <4>2 DEF Pointers
    <3>5. CASE registerBadgeEpochData(r)
      <4>1. /\ badgeUsed' = Append(badgeUsed, 0) /\ Len(badgeUsed') = Len(badgeUsed) + 1
            /\ badgeData' = [badgeData EXCEPT ![f] = Len(badgeUsed')]
            /\ relay' = [relay EXCEPT ![r].pc = "lookup", ![r].badge = Len(badgeUsed')]
            /\ UNCHANGED sps
        BY <1>0, <3>5 DEF registerBadgeEpochData
      <4>2. \A o \in 1..Len(sps) : sps[o].badge \in Nat /\ sps[o].badge <= Len(badgeUsed)
        <5>1. \A o \in 1..Len(sps) : sps[o] \in SingleProviderSession
          BY DEF Base, Shared
        <5> QED BY <5>1 DEF Pointers, SingleProviderSession
      <4>3. \A q \in Relays : relay[q].badge \in Nat /\ relay[q].badge <= Len(badgeUsed)
        BY <1>0 DEF Pointers, Goroutine
      <4>4. badgeData \in [RequestEpochs -> Nat] /\ \A e \in RequestEpochs : badgeData[e] <= Len(badgeUsed)
        BY DEF Pointers, Base, Shared
      <4>5. \A q \in Relays : relay'[q].badge <= Len(badgeUsed')
        <5>1. \A q \in Relays : relay'[q].badge = IF q = r THEN Len(badgeUsed') ELSE relay[q].badge
          BY <4>1 DEF Base, Goroutine
        <5>2. Len(badgeUsed) \in Nat /\ Len(badgeUsed') = Len(badgeUsed) + 1
          BY <1>0, <4>1
        <5>3. ASSUME NEW q \in Relays PROVE relay'[q].badge <= Len(badgeUsed')
          <6>1. CASE q = r
            BY <5>1, <5>2, <6>1
          <6>2. CASE q # r
            BY <4>3, <5>1, <5>2, <6>2
          <6> QED BY <6>1, <6>2
        <5> QED BY <5>3
      <4>6. \A e \in RequestEpochs : badgeData'[e] <= Len(badgeUsed')
        BY <1>0, <4>1, <4>4
      <4> QED BY <1>0, <4>1, <4>2, <4>5, <4>6 DEF Pointers
    <3> QED BY <2>4, <3>2, <3>4, <3>5
  <2> QED BY <1>3, <2>1, <2>2, <2>3, <2>4 DEF Lookup
<1>4. ASSUME NEW r \in Relays, Prepare(r) PROVE Pointers'
  <2>0. relay[r].pc \in WithSession /\ relay[r] \in Goroutine
    BY <1>0, <1>4 DEF Prepare, CannotPrepare, PrepareSessionForUsage, ReadMissing, AddMissing, validateAndAddUsedCU,
         validateAndAddBadgeUsedCU, ReadCuSum, WriteCuSum, DisbandSession, At, WithSession, Holding
  <2>1. Session(r) \in SingleProviderSession
    BY <2>0, HasObject
  <2>2. ASSUME NEW g, relay' = [relay EXCEPT ![r] = g], g.badge = relay[r].badge,
               UNCHANGED <<badgeData, badgeUsed, sps>>
        PROVE  Pointers'
    BY <1>0, <2>2, PointersKept
  <2>3. CASE PrepareSessionForUsage(r)
    <3> DEFINE cu == relay[r].cu
               sum == Session(r).CuSum
               g == IF cu >= Plus(sum, CuFromSpec) THEN [relay[r] EXCEPT !.pc = "charge", !.total = cu]
                    ELSE IF cu > sum
                    THEN [relay[r] EXCEPT !.pc = "missing", !.total = cu, !.add = Minus(Plus(CuFromSpec, sum), cu)]
                    ELSE [relay[r] EXCEPT !.pc = "missing", !.total = sum, !.add = CuFromSpec]
    <3>1. relay' = [relay EXCEPT ![r] = g] /\ UNCHANGED <<badgeData, badgeUsed, sps>>
      BY <2>3 DEF PrepareSessionForUsage, counters, badges
    <3>2. g.badge = relay[r].badge
      BY <2>0 DEF Goroutine
    <3> HIDE DEF g
    <3> QED BY <2>2, <3>1, <3>2
  <2>4. CASE CannotPrepare(r) \/ AddMissing(r)
    <3>1. (\E pc : Goto(r, pc)) /\ UNCHANGED <<badgeData, badgeUsed, sps>>
      BY <2>4 DEF CannotPrepare, AddMissing, counters, badges
    <3> QED BY <1>0, <1>2, <3>1
  <2>5. CASE ReadMissing(r)
    <3>1. UNCHANGED <<badgeData, badgeUsed, sps>>
      BY <2>5 DEF ReadMissing, counters, badges
    <3>2. CASE Goto(r, "disband")
      BY <1>0, <1>2, <3>1, <3>2
    <3>3. CASE ~ Goto(r, "disband")
      <4> DEFINE g == [relay[r] EXCEPT !.pc = "missed", !.old = missing[relay[r].epoch]]
      <4>1. relay' = [relay EXCEPT ![r] = g]
        BY <1>0, <2>5, <3>3 DEF ReadMissing
      <4>2. g.badge = relay[r].badge
        BY <2>0 DEF Goroutine
      <4> HIDE DEF g
      <4> QED BY <2>2, <3>1, <4>1, <4>2
    <3> QED BY <3>2, <3>3
  <2>6. CASE validateAndAddUsedCU(r)
    <3>1. UNCHANGED <<badgeData, badgeUsed, sps>>
      BY <2>6 DEF validateAndAddUsedCU, badges
    <3>2. CASE Goto(r, "disband")
      BY <1>0, <1>2, <3>1, <3>2
    <3>3. CASE ~ Goto(r, "disband")
      <4> DEFINE g == [relay[r] EXCEPT !.add = Minus(relay[r].total, Session(r).CuSum),
                                       !.pc = IF Session(r).badge # 0 THEN "badge" ELSE "apply"]
      <4>1. relay' = [relay EXCEPT ![r] = g]
        BY <1>0, <2>6, <3>3 DEF validateAndAddUsedCU
      <4>2. g.badge = relay[r].badge
        BY <2>0 DEF Goroutine
      <4> HIDE DEF g
      <4> QED BY <2>2, <3>1, <4>1, <4>2
    <3> QED BY <3>2, <3>3
  <2>7. CASE validateAndAddBadgeUsedCU(r)
    <3> DEFINE c == Session(r).badge
    <3>1. (\E pc : Goto(r, pc)) /\ UNCHANGED badgeData
      BY <2>7 DEF validateAndAddBadgeUsedCU
    <3>2. Len(badgeUsed') = Len(badgeUsed)
      <4>1. badgeUsed' = badgeUsed \/ badgeUsed' = [badgeUsed EXCEPT ![c] = Plus(badgeUsed[c], relay[r].add)]
        BY <2>7 DEF validateAndAddBadgeUsedCU
      <4>2. c \in 1..Len(badgeUsed) => Plus(badgeUsed[c], relay[r].add) \in Words
        BY <1>0, <2>0, WordOps DEF Goroutine
      <4> QED BY <1>0, <4>1, <4>2, ChangeCounter
    <3>3. sps' = sps \/ sps' = [sps EXCEPT ![relay[r].obj] = Unlocked(Session(r))]
      BY <2>7 DEF validateAndAddBadgeUsedCU, Session
    <3>4. Unlocked(Session(r)).badge = Session(r).badge
      BY <2>1 DEF Unlocked, SingleProviderSession
    <3> QED BY <1>2, <3>1, <3>2, <3>3, <3>4
  <2>8. CASE ReadCuSum(r)
    <3> DEFINE x == [Session(r) EXCEPT !.LatestRelayCu = relay[r].add]
               g == [relay[r] EXCEPT !.pc = "write", !.old = Session(r).CuSum]
    <3>1. /\ relay' = [relay EXCEPT ![r] = g] /\ sps' = [sps EXCEPT ![relay[r].obj] = x]
          /\ UNCHANGED <<badgeData, badgeUsed>>
      BY <1>0, <2>8 DEF ReadCuSum, Session, counters, badges
    <3>2. g.badge = relay[r].badge /\ x.badge = Session(r).badge
      BY <2>0, <2>1 DEF Goroutine, SingleProviderSession
    <3> HIDE DEF g, x
    <3> QED BY <1>0, <3>1, <3>2, PointersKept
  <2>9. CASE WriteCuSum(r)
    <3> DEFINE x == [Session(r) EXCEPT !.CuSum = Plus(relay[r].old, relay[r].add)]
    <3>1. Goto(r, "serve") /\ sps' = [sps EXCEPT ![relay[r].obj] = x] /\ UNCHANGED <<badgeData, badgeUsed>>
      BY <2>9 DEF WriteCuSum, Session, counters, badges
    <3>2. x.badge = Session(r).badge
      BY <2>1 DEF SingleProviderSession
    <3> HIDE DEF x
    <3> QED BY <1>0, <1>2, <3>1, <3>2
  <2>10. CASE DisbandSession(r)
    <3>1. /\ sps' = sps \/ sps' = [sps EXCEPT ![relay[r].obj] = Unlocked(Session(r))]
          /\ Goto(r, "idle") /\ UNCHANGED <<badgeData, badgeUsed>>
      BY <2>10 DEF DisbandSession, Session, counters, badges
    <3>2. Unlocked(Session(r)).badge = Session(r).badge
      BY <2>1 DEF Unlocked, SingleProviderSession
    <3> QED BY <1>0, <1>2, <3>1, <3>2
  <2> QED BY <1>4, <2>3, <2>4, <2>5, <2>6, <2>7, <2>8, <2>9, <2>10 DEF Prepare
<1>5. ASSUME NEW r \in Relays, Serve(r) PROVE Pointers'
  <2>0. relay[r].pc \in WithSession /\ relay[r] \in Goroutine
    BY <1>0, <1>5 DEF Serve, RelayDone, RelayFailed, SubscribeRefused, ReleaseSession, Subscribed,
         SubscribeFailed, OnSessionFailure, onSessionFailure, At, WithSession, Holding
  <2>1. Session(r) \in SingleProviderSession
    BY <2>0, HasObject
  <2>2. ASSUME onSessionDone(r)
        PROVE  \/ sps' = sps
               \/ \E x : sps' = [sps EXCEPT ![relay[r].obj] = x] /\ x.badge = Session(r).badge
    <3>1. sps' = sps \/ sps' = [sps EXCEPT ![relay[r].obj] = Done(Session(r), relay[r].num)]
      BY <2>2 DEF onSessionDone, Session
    <3>2. Unlocked(Session(r)) \in SingleProviderSession /\ Unlocked(Session(r)).badge = Session(r).badge
      BY <2>1 DEF Unlocked, SingleProviderSession
    <3>3. Done(Session(r), relay[r].num).badge = Session(r).badge
      BY <3>2 DEF Done, SingleProviderSession
    <3> QED BY <3>1, <3>3
  <2>3. CASE RelayDone(r) \/ SubscribeRefused(r) \/ ReleaseSession(r)
    <3>1. onSessionDone(r) /\ (\E pc : Goto(r, pc)) /\ UNCHANGED <<badgeData, badgeUsed>>
      BY <2>3 DEF RelayDone, SubscribeRefused, ReleaseSession, counters, badges
    <3> QED BY <1>0, <1>2, <2>2, <3>1
  <2>4. CASE RelayFailed(r) \/ Subscribed(r) \/ SubscribeFailed(r)
    <3>1. (\E pc : Goto(r, pc)) /\ UNCHANGED <<badgeData, badgeUsed, sps>>
      BY <2>4 DEF RelayFailed, Subscribed, SubscribeFailed, counters, badges
    <3> QED BY <1>0, <1>2, <3>1
  <2>5. CASE OnSessionFailure(r)
    <3>1. UNCHANGED <<badgeData, badgeUsed>>
      BY <2>5 DEF OnSessionFailure, counters, badges
    <3>2. CASE Goto(r, "idle") /\ (onSessionDone(r) \/ UNCHANGED sps)
      BY <1>0, <1>2, <2>2, <3>1, <3>2
    <3>3. CASE ~ (Goto(r, "idle") /\ (onSessionDone(r) \/ UNCHANGED sps))
      <4> DEFINE g == [relay[r] EXCEPT !.pc = "undo", !.old = Session(r).CuSum]
      <4>1. relay' = [relay EXCEPT ![r] = g] /\ UNCHANGED sps
        BY <1>0, <2>5, <3>3 DEF OnSessionFailure
      <4>2. g.badge = relay[r].badge
        BY <2>0 DEF Goroutine
      <4> HIDE DEF g
      <4> QED BY <1>0, <3>1, <4>1, <4>2, PointersKept
    <3> QED BY <3>2, <3>3
  <2>6. CASE onSessionFailure(r)
    <3> DEFINE c == Session(r).badge
               cu == Session(r).LatestRelayCu
    <3>1. /\ Goto(r, "idle") /\ UNCHANGED badgeData
          /\ sps' = [sps EXCEPT ![relay[r].obj] = Undone(Session(r), relay[r].old)]
          /\ badgeUsed' = badgeUsed \/ badgeUsed' = [badgeUsed EXCEPT ![c] = Minus(badgeUsed[c], cu)]
      BY <2>6 DEF onSessionFailure, Session
    <3>2. Len(badgeUsed') = Len(badgeUsed)
      <4>1. c \in 1..Len(badgeUsed) => Minus(badgeUsed[c], cu) \in Words
        BY <1>0, <2>1, WordOps DEF SingleProviderSession
      <4> QED BY <1>0, <3>1, <4>1, ChangeCounter
    <3>3. Unlocked(Session(r)) \in SingleProviderSession /\ Unlocked(Session(r)).badge = Session(r).badge
      BY <2>1 DEF Unlocked, SingleProviderSession
    <3>4. Undone(Session(r), relay[r].old).badge = Session(r).badge
      BY <3>3 DEF Undone, SingleProviderSession
    <3> QED BY <1>2, <3>1, <3>2, <3>4
  <2> QED BY <1>5, <2>3, <2>4, <2>5, <2>6 DEF Serve
<1>6. ASSUME NEW r \in Relays, Prove(r) PROVE Pointers'
  <2>0. relay[r] \in Goroutine
    BY <1>0
  <2>1. UNCHANGED <<badgeData, badgeUsed>>
    BY <1>6 DEF Prove, SendProof, UpdateSessionCU, writeCuSumAtomically, atomicReadUsedComputeUnits,
           atomicWriteUsedComputeUnits, counters, badges
  <2>2. CASE SendProof(r)
    <3> DEFINE g == [relay[r] EXCEPT !.pc = "update", !.total = proofs[Key(r)]]
    <3>1. UNCHANGED sps /\ (relay' = [relay EXCEPT ![r] = g] \/ Goto(r, "idle"))
      BY <1>0, <2>2 DEF SendProof
    <3>2. g.badge = relay[r].badge
      BY <2>0 DEF Goroutine
    <3> HIDE DEF g
    <3> QED BY <1>0, <1>2, <2>1, <3>1, <3>2, PointersKept
  <2>3. CASE UpdateSessionCU(r)
    <3> DEFINE o == Sessions[Key(r)]
               g == [relay[r] EXCEPT !.pc = "raise", !.obj = o, !.old = sps[o].CuSum]
    <3>1. UNCHANGED sps /\ (relay' = [relay EXCEPT ![r] = g] \/ Goto(r, "idle"))
      BY <1>0, <2>3 DEF UpdateSessionCU
    <3>2. g.badge = relay[r].badge
      BY <2>0 DEF Goroutine
    <3> HIDE DEF g
    <3> QED BY <1>0, <1>2, <2>1, <3>1, <3>2, PointersKept
  <2>4. CASE writeCuSumAtomically(r)
    <3> DEFINE x == [Session(r) EXCEPT !.CuSum = relay[r].total]
    <3>1. Goto(r, "read") /\ sps' = [sps EXCEPT ![relay[r].obj] = x] /\ relay[r].pc \in WithSession
      BY <2>4 DEF writeCuSumAtomically, Session, At, WithSession
    <3>2. Session(r) \in SingleProviderSession
      BY <3>1, HasObject
    <3>3. x.badge = Session(r).badge
      BY <3>2 DEF SingleProviderSession
    <3> HIDE DEF x
    <3> QED BY <1>0, <1>2, <2>1, <3>1, <3>3
  <2>5. CASE atomicReadUsedComputeUnits(r)
    <3> DEFINE g == [relay[r] EXCEPT !.pc = "bump", !.add = used[relay[r].epoch]]
    <3>1. UNCHANGED sps /\ relay' = [relay EXCEPT ![r] = g]
      BY <1>0, <2>5 DEF atomicReadUsedComputeUnits
    <3>2. g.badge = relay[r].badge
      BY <2>0 DEF Goroutine
    <3> HIDE DEF g
    <3> QED BY <1>0, <2>1, <3>1, <3>2, PointersKept
  <2>6. CASE atomicWriteUsedComputeUnits(r)
    BY <1>0, <1>2, <2>1, <2>6 DEF atomicWriteUsedComputeUnits
  <2> QED BY <1>6, <2>2, <2>3, <2>4, <2>5, <2>6 DEF Prove
<1>7. CASE \E e \in 1..MaxEpoch : UpdateEpoch(e)
  BY <1>1, <1>7 DEF UpdateEpoch, counters
<1>8. CASE UNCHANGED vars
  BY <1>1, <1>8 DEF vars, counters
<1> QED BY <1>3, <1>4, <1>5, <1>6, <1>7, <1>8 DEF Next

TypeInv == Base /\ Pointers

\* The types hold at the start and stay.
LEMMA TypeInvariant == (Init => TypeInv) /\ (TypeInv /\ [Next]_vars => TypeInv')
<1>1. Init => Pointers
  BY RelaysAssumption DEF Init, Pointers, Idle
<1> QED BY <1>1, InitBase, BaseNext, PointersNext DEF TypeInv

\* The invariant has the types.
LEMMA TypeInvTypeOK == TypeInv => TypeOK
<1> SUFFICES ASSUME TypeInv PROVE TypeOK
  OBVIOUS
<1>1. Len(badgeUsed) \in Nat /\ badgeData \in [RequestEpochs -> Nat]
  BY DEF TypeInv, Base, Shared
<1>2. badgeData \in [RequestEpochs -> 0..Len(badgeUsed)]
  BY <1>1 DEF TypeInv, Pointers
<1> QED BY <1>2 DEF TypeInv, Base, Shared, Local, Pointers, TypeOK

\* The state of the session manager, its sessions and its goroutines always has its
\* type: every counter is a word, whatever the consumer sends; every stored proof is
\* a sum that a consumer sent or that was loaded at the start; and every pointer
\* leads to a session or to a counter.
THEOREM TypeCorrect == Spec => []TypeOK
  BY TypeInvariant, TypeInvTypeOK, PTL DEF Spec

\* SafeAddMissingComputeUnits: whatever the goroutines do between its two reads and
\* its compare-and-swap, the CU that a consumer leaves unpaid in an epoch stay
\* within the allowance.
THEOREM MissingIsBounded == Spec => []MissingBounded
<1>1. Base => MissingBounded
  BY DEF Base, Shared
<1> QED BY <1>1, InitBase, BaseNext, PTL DEF Spec

-----------------------------------------------------------------------------
(* Who has a session's lock.  As long as no relay has let go of its        *)
(* session early, the locks and the goroutines' positions agree.           *)

\* The steps before a relay's CU are noted in its session, and after it is given up.
Fresh == {"prepare", "missing", "missed", "charge", "badge", "apply", "disband"}

\* A session's number, as long as none has passed the last one.
Below(n, m, events) == "wrapped" \in events \/ n < m

\* Goroutine r, in state g, and session o, which is x.
Lock(r, g, o, x, events) ==
    /\ (g.pc \in Holding /\ g.obj = o) <=> x.lock = r
    /\ x.lock = r => Below(x.RelayNum, g.num, events) /\ (g.pc \in Fresh => x.LatestRelayCu = 0)

Locks ==
    /\ \A o \in 1..Len(sps) : sps[o].lock = Free => sps[o].LatestRelayCu = 0
    /\ \A r \in Relays, o \in 1..Len(sps) : Lock(r, relay[r], o, sps[o], past)

\* No session's number is lowered.
Grows(n, m, events) == "wrapped" \in events \/ m >= n
NumsGrow(old, new, events) ==
    \A o \in 1..Len(old) : Grows(old[o].RelayNum, new[o].RelayNum, events)

SameLock(x, y) ==
    x.lock = y.lock /\ x.RelayNum = y.RelayNum /\ x.LatestRelayCu = y.LatestRelayCu

\* The numbers of a session are natural numbers.
LEMMA ObjectNumbers ==
    ASSUME NEW x \in SingleProviderSession
    PROVE  x.RelayNum \in Nat /\ x.CuSum \in Nat /\ x.LatestRelayCu \in Nat
<1>1. x.RelayNum \in RelayNums \cup {0} /\ x.CuSum \in Words /\ x.LatestRelayCu \in Words
  BY DEF SingleProviderSession
<1> QED BY <1>1, WordFacts

\* What has happened stays known.
LEMMA PastGrows ==
    /\ [Next]_vars => past \subseteq past'
    /\ \A r \in Relays : Lookup(r) \/ Prepare(r) \/ Serve(r) \/ Prove(r) => past \subseteq past'
<1>1. UNCHANGED vars => past \subseteq past'
  BY DEF vars
<1>2. \A e \in 1..MaxEpoch : UpdateEpoch(e) => past \subseteq past'
  BY DEF UpdateEpoch
<1>3. \A r \in Relays : Lookup(r) => past \subseteq past'
  BY DEF Lookup, Receive, GetSession, NotPaired, registerNewConsumer, getBadgeEpochData,
         registerBadgeEpochData, getExistingSession, tryLockForUseFails, createNewSingleProviderSession
<1>4. \A r \in Relays : Prepare(r) => past \subseteq past'
  BY DEF Prepare, CannotPrepare, PrepareSessionForUsage, ReadMissing, AddMissing,
       validateAndAddUsedCU, validateAndAddBadgeUsedCU, ReadCuSum, WriteCuSum, DisbandSession
<1>5. \A r \in Relays : Serve(r) => past \subseteq past'
  BY DEF Serve, RelayDone, RelayFailed, SubscribeRefused, ReleaseSession, Subscribed,
       SubscribeFailed, OnSessionFailure, onSessionFailure
<1>6. \A r \in Relays : Prove(r) => past \subseteq past'
  BY DEF Prove, SendProof, UpdateSessionCU, writeCuSumAtomically,
       atomicReadUsedComputeUnits, atomicWriteUsedComputeUnits
<1>7. \A r \in Relays : Lookup(r) \/ Prepare(r) \/ Serve(r) \/ Prove(r) => past \subseteq past'
  BY <1>3, <1>4, <1>5, <1>6
<1> QED BY <1>1, <1>2, <1>7 DEF Next

\* One lock per session gives exclusive sessions.
LEMMA LocksExclusive == Base /\ Locks => SessionLocked
  BY DEF Locks, Lock, SessionLocked

\* A goroutine that holds no session holds none of them, and one that does holds
\* its own.
LEMMA HoldsOwn ==
    ASSUME Base, Locks, NEW r \in Relays
    PROVE  /\ relay[r].pc \notin Holding => \A o \in 1..Len(sps) : sps[o].lock # r
           /\ relay[r].pc \in Holding => /\ Session(r).lock = r /\ r # Free
                                         /\ Below(Session(r).RelayNum, relay[r].num, past)
                                         /\ relay[r].pc \in Fresh => Session(r).LatestRelayCu = 0
<1>1. relay[r].pc \notin Holding => \A o \in 1..Len(sps) : sps[o].lock # r
  BY DEF Locks, Lock
<1>2. ASSUME relay[r].pc \in Holding
      PROVE  /\ Session(r).lock = r /\ r # Free
             /\ Below(Session(r).RelayNum, relay[r].num, past)
             /\ relay[r].pc \in Fresh => Session(r).LatestRelayCu = 0
  <2>1. relay[r].obj \in 1..Len(sps)
    BY <1>2, HasObject DEF WithSession
  <2>2. Lock(r, relay[r], relay[r].obj, Session(r), past)
    BY <2>1 DEF Locks, Session
  <2> QED BY <1>2, <2>2, RelaysAssumption DEF Lock, Free
<1> QED BY <1>1, <1>2

\* A step of r that touches session o at most.
LEMMA LockStep ==
    ASSUME Base, Locks, NEW r \in Relays, NEW g, relay' = [relay EXCEPT ![r] = g], NEW o,
           SessionsStay(sps, sps'), past \subseteq past',
           \A p \in 1..Len(sps') \ {o} : p \in 1..Len(sps) /\ SameLock(sps[p], sps'[p]),
           relay[r].pc \in Holding => relay[r].obj = o,
           g.pc \in Holding => g.obj = o /\ o \in 1..Len(sps'),
           o \in 1..Len(sps) => /\ sps[o].lock \in {r, Free}
                                /\ Grows(sps[o].RelayNum, sps'[o].RelayNum, past'),
           o \in 1..Len(sps') /\ g.pc \in Holding =>
             /\ sps'[o].lock = r /\ Below(sps'[o].RelayNum, g.num, past')
             /\ g.pc \in Fresh => sps'[o].LatestRelayCu = 0,
           o \in 1..Len(sps') /\ g.pc \notin Holding =>
             sps'[o].lock = Free /\ sps'[o].LatestRelayCu = 0
    PROVE  Locks' /\ NumsGrow(sps, sps', past')
<1>0. relay \in [Relays -> Goroutine] /\ Free \notin Relays
  BY RelaysAssumption DEF Base, Free
<1>1. \A q \in Relays : relay'[q] = IF q = r THEN g ELSE relay[q]
  BY <1>0
<1>2. ASSUME NEW q \in Relays, NEW p \in 1..Len(sps'), p # o
      PROVE  Lock(q, relay'[q], p, sps'[p], past')
  <2>1. p \in 1..Len(sps) /\ SameLock(sps[p], sps'[p]) /\ Lock(q, relay[q], p, sps[p], past)
    BY <1>2 DEF Locks
  <2>2. CASE q # r
    BY <1>1, <2>1, <2>2 DEF Lock, SameLock, Below
  <2>3. CASE q = r
    <3>1. sps[p].lock # r
      BY <1>2, <2>1, <2>3 DEF Lock
    <3> QED BY <1>1, <1>2, <2>1, <2>3, <3>1 DEF Lock, SameLock
  <2> QED BY <2>2, <2>3
<1>3. ASSUME NEW q \in Relays, o \in 1..Len(sps')
      PROVE  Lock(q, relay'[q], o, sps'[o], past')
  <2>1. CASE q = r
    BY <1>0, <1>1, <1>3, <2>1 DEF Lock
  <2>2. CASE q # r
    <3>1. sps'[o].lock # q
      BY <1>0, <1>3, <2>2
    <3>2. ~ (relay[q].pc \in Holding /\ relay[q].obj = o)
      <4>1. CASE o \in 1..Len(sps)
        <5>1. Lock(q, relay[q], o, sps[o], past) /\ sps[o].lock # q
          BY <1>0, <2>2, <4>1 DEF Locks
        <5> QED BY <5>1 DEF Lock
      <4>2. CASE o \notin 1..Len(sps)
        BY <4>2, HasObject DEF WithSession
      <4> QED BY <4>1, <4>2
    <3> QED BY <1>1, <2>2, <3>1, <3>2 DEF Lock
  <2> QED BY <2>1, <2>2
<1>4. ASSUME NEW p \in 1..Len(sps'), sps'[p].lock = Free PROVE sps'[p].LatestRelayCu = 0
  <2>1. CASE p = o
    BY <1>0, <1>4, <2>1
  <2>2. CASE p # o
    <3>1. p \in 1..Len(sps) /\ SameLock(sps[p], sps'[p])
      BY <2>2
    <3> QED BY <1>4, <3>1 DEF Locks, SameLock
  <2> QED BY <2>1, <2>2
<1>5. NumsGrow(sps, sps', past')
  <2> SUFFICES ASSUME NEW p \in 1..Len(sps) PROVE Grows(sps[p].RelayNum, sps'[p].RelayNum, past')
    BY DEF NumsGrow
  <2>1. CASE p = o
    BY <2>1
  <2>2. CASE p # o
    <3>1. p \in 1..Len(sps')
      BY DEF SessionsStay
    <3>2. sps'[p].RelayNum = sps[p].RelayNum
      BY <2>2, <3>1 DEF SameLock
    <3>3. sps[p] \in SingleProviderSession
      BY DEF SessionsStay
    <3>4. sps[p].RelayNum \in Nat
      BY <3>3, ObjectNumbers
    <3> QED BY <3>2, <3>4 DEF Grows
  <2> QED BY <2>1, <2>2
<1> QED BY <1>2, <1>3, <1>4, <1>5 DEF Locks

\* What Goto leaves of a goroutine.
Kept(g, h) == SameRequest(g, h) /\ g.total = h.total /\ g.add = h.add /\ g.old = h.old

\* Moving control among steps without the lock.
LEMMA GotoKeeps ==
    ASSUME Base, NEW r \in Relays, NEW pc \in Steps, Goto(r, pc)
    PROVE  \E g : /\ relay' = [relay EXCEPT ![r] = g] /\ g.pc = pc
                  /\ pc = "idle" => g = Idle
                  /\ pc # "idle" => Kept(g, relay[r])
<1>0. relay[r] \in Goroutine /\ relay \in [Relays -> Goroutine]
  BY DEF Base
<1>1. CASE pc = "idle"
  <2>1. relay' = [relay EXCEPT ![r] = Idle]
    BY <1>1 DEF Goto
  <2>2. Idle.pc = "idle"
    BY DEF Idle
  <2> QED BY <1>1, <2>1, <2>2
<1>2. CASE pc # "idle"
  <2> DEFINE g == [relay[r] EXCEPT !.pc = pc]
  <2>1. relay' = [relay EXCEPT ![r] = g]
    BY <1>0, <1>2 DEF Goto
  <2>2. g.pc = pc /\ Kept(g, relay[r])
    BY <1>0 DEF Kept, SameRequest, Goroutine
  <2> QED BY <1>2, <2>1, <2>2
<1> QED BY <1>1, <1>2

\* The steps outside of a session.
Outside(r) ==
    \/ Receive(r) \/ GetSession(r) \/ NotPaired(r) \/ registerNewConsumer(r)
    \/ getBadgeEpochData(r) \/ registerBadgeEpochData(r) \/ tryLockForUseFails(r)
    \/ Subscribed(r) \/ SubscribeFailed(r)
    \/ Prove(r)

\* Steps of goroutines that hold no lock.
LEMMA LocksOutside ==
    ASSUME Base, Locks, NEW r \in Relays, Outside(r)
    PROVE  (Locks' /\ NumsGrow(sps, sps', past')) \/ "early" \in past'
<1> USE DEF Holding, Steps
<1>0. /\ relay \in [Relays -> Goroutine] /\ sps \in Seq(SingleProviderSession) /\ SessionsStay(sps, sps)
      /\ past \subseteq past'
  BY PastGrows DEF Base, Shared, SessionsStay, Outside, Lookup, Serve
<1>1. ASSUME relay[r].pc \notin Holding, NEW g, relay' = [relay EXCEPT ![r] = g], g.pc \notin Holding,
             SessionsStay(sps, sps'), Len(sps') = Len(sps),
             \A p \in 1..Len(sps) : SameLock(sps[p], sps'[p])
      PROVE  Locks' /\ NumsGrow(sps, sps', past')
  <2>1. 0 \notin 1..Len(sps) /\ 0 \notin 1..Len(sps')
    BY <1>0, <1>1
  <2> QED BY <1>0, <1>1, <2>1, LockStep
<1>2. ASSUME sps' = sps PROVE \A p \in 1..Len(sps) : SameLock(sps[p], sps'[p])
  BY <1>2 DEF SameLock
<1>3. ASSUME relay[r].pc \notin Holding, NEW pc \in Steps \ Holding, Goto(r, pc), UNCHANGED sps
      PROVE  Locks' /\ NumsGrow(sps, sps', past')
  <2>1. PICK g : relay' = [relay EXCEPT ![r] = g] /\ g.pc = pc
    BY <1>3, GotoKeeps
  <2> QED BY <1>0, <1>1, <1>2, <1>3, <2>1
<1>4. CASE Receive(r)
  <2>1. PICK kind \in Kinds, k \in Keys, n \in RelayNums, c \in CuSums :
          relay' = [relay EXCEPT ![r] = [Idle EXCEPT !.pc = "get", !.kind = kind,
                      !.epoch = k[1], !.id = k[2], !.num = n, !.cu = c]]
    BY <1>4 DEF Receive
  <2> DEFINE g == [Idle EXCEPT !.pc = "get", !.kind = kind, !.epoch = k[1], !.id = k[2],
                               !.num = n, !.cu = c]
  <2>2. g.pc = "get"
    BY DEF Idle
  <2>3. relay[r].pc \notin Holding /\ UNCHANGED sps /\ relay' = [relay EXCEPT ![r] = g]
    BY <1>4, <2>1 DEF Receive, At
  <2> HIDE DEF g
  <2> QED BY <1>0, <1>1, <1>2, <2>2, <2>3
<1>5. CASE GetSession(r)
  BY <1>3, <1>5 DEF GetSession, At
<1>6. CASE NotPaired(r)
  BY <1>3, <1>6 DEF NotPaired, At
<1>7. CASE registerNewConsumer(r)
  BY <1>3, <1>7 DEF registerNewConsumer, At
<1>8. CASE tryLockForUseFails(r)
  BY <1>3, <1>8 DEF tryLockForUseFails, At
<1>9. CASE Subscribed(r)
  BY <1>3, <1>9 DEF Subscribed, At
<1>10. CASE SubscribeFailed(r)
  BY <1>10 DEF SubscribeFailed
<1>11. CASE SendProof(r)
  <2> DEFINE g == [relay[r] EXCEPT !.pc = "update", !.total = proofs[Key(r)]]
  <2>1. relay[r].pc \notin Holding /\ UNCHANGED sps
    BY <1>11 DEF SendProof, At
  <2>2. CASE Goto(r, "idle")
    BY <1>3, <2>1, <2>2
  <2>3. CASE ~ Goto(r, "idle")
    <3>1. relay' = [relay EXCEPT ![r] = g]
      BY <1>0, <1>11, <2>3 DEF SendProof
    <3>2. g.pc = "update"
      BY <1>0 DEF Goroutine
    <3> QED BY <1>0, <1>1, <1>2, <2>1, <3>1, <3>2
  <2> QED BY <2>2, <2>3
<1>12. CASE UpdateSessionCU(r)
  <2> DEFINE g == [relay[r] EXCEPT !.pc = "raise", !.obj = Sessions[Key(r)],
                                   !.old = sps[Sessions[Key(r)]].CuSum]
  <2>1. relay[r].pc \notin Holding /\ UNCHANGED sps
    BY <1>12 DEF UpdateSessionCU, At
  <2>2. CASE Goto(r, "idle")
    BY <1>3, <2>1, <2>2
  <2>3. CASE ~ Goto(r, "idle")
    <3>1. relay' = [relay EXCEPT ![r] = g]
      BY <1>0, <1>12, <2>3 DEF UpdateSessionCU
    <3>2. g.pc = "raise"
      BY <1>0 DEF Goroutine
    <3> QED BY <1>0, <1>1, <1>2, <2>1, <3>1, <3>2
  <2> QED BY <2>2, <2>3
<1>13. CASE writeCuSumAtomically(r)
  <2> DEFINE o == relay[r].obj
             y == [Session(r) EXCEPT !.CuSum = relay[r].total]
  <2>1. /\ relay[r].pc \notin Holding /\ relay[r].pc \in WithSession /\ Goto(r, "read")
        /\ sps' = [sps EXCEPT ![o] = y]
    BY <1>13 DEF writeCuSumAtomically, At, WithSession, Session
  <2>2. o \in 1..Len(sps) /\ sps[o] \in SingleProviderSession
    BY <2>1, HasObject DEF Session
  <2>3. y \in SingleProviderSession /\ y.key = Session(r).key
    BY <1>0, <2>2, LeftOfObject DEF Goroutine, Session
  <2>4. SameLock(sps[o], y)
    BY <2>2 DEF SameLock, SingleProviderSession, Session
  <2> HIDE DEF y
  <2>5. SessionsStay(sps, sps') /\ Len(sps') = Len(sps)
    BY <2>1, <2>3, ObjectStays
  <2>6. sps'[o] = y /\ \A p \in 1..Len(sps) \ {o} : sps'[p] = sps[p]
    BY <1>0, <2>1, <2>2, <2>3, ChangeObject
  <2>7. \A p \in 1..Len(sps) : SameLock(sps[p], sps'[p])
    BY <2>4, <2>6 DEF SameLock
  <2>8. PICK g : relay' = [relay EXCEPT ![r] = g] /\ g.pc = "read"
    BY <2>1, GotoKeeps
  <2> QED BY <1>1, <2>1, <2>5, <2>7, <2>8
<1>14. CASE atomicReadUsedComputeUnits(r)
  <2> DEFINE g == [relay[r] EXCEPT !.pc = "bump", !.add = used[relay[r].epoch]]
  <2>1. relay[r].pc \notin Holding /\ UNCHANGED sps /\ relay' = [relay EXCEPT ![r] = g]
    BY <1>0, <1>14 DEF atomicReadUsedComputeUnits, At
  <2>2. g.pc = "bump"
    BY <1>0 DEF Goroutine
  <2> QED BY <1>0, <1>1, <1>2, <2>1, <2>2
<1>15. CASE atomicWriteUsedComputeUnits(r)
  BY <1>3, <1>15 DEF atomicWriteUsedComputeUnits, At
<1>16. CASE getBadgeEpochData(r) \/ registerBadgeEpochData(r)
  <2>1. relay[r].pc \notin Holding /\ UNCHANGED sps
    BY <1>16 DEF getBadgeEpochData, registerBadgeEpochData, At
  <2>2. CASE Goto(r, "newuser")
    BY <1>3, <2>1, <2>2
  <2>3. ASSUME NEW c, relay' = [relay EXCEPT ![r].pc = "lookup", ![r].badge = c]
        PROVE  Locks' /\ NumsGrow(sps, sps', past')
    <3> DEFINE g == [relay[r] EXCEPT !.pc = "lookup", !.badge = c]
    <3>1. relay' = [relay EXCEPT ![r] = g] /\ g.pc = "lookup"
      BY <1>0, <2>3 DEF Goroutine
    <3> HIDE DEF g
    <3> QED BY <1>0, <1>1, <1>2, <2>1, <3>1
  <2> QED BY <1>16, <2>2, <2>3 DEF getBadgeEpochData, registerBadgeEpochData
<1> QED BY <1>4, <1>5, <1>6, <1>7, <1>8, <1>9, <1>10, <1>11, <1>12, <1>13, <1>14, <1>15, <1>16
        DEF Outside, Prove

\* A session is looked up or created.
LEMMA LocksTake ==
    ASSUME Base, Locks, NEW r \in Relays, getExistingSession(r) \/ createNewSingleProviderSession(r)
    PROVE  Locks' /\ NumsGrow(sps, sps', past')
<1>0. /\ relay \in [Relays -> Goroutine] /\ relay[r] \in Goroutine /\ sps \in Seq(SingleProviderSession)
      /\ SessionsStay(sps, sps) /\ Len(sps) \in Nat /\ 0 \notin 1..Len(sps)
      /\ Local(relay[r], sps, past) /\ Shared /\ past \subseteq past'
  BY PastGrows DEF Base, Shared, SessionsStay, Lookup
<1>1. /\ relay[r].pc \notin Holding /\ relay[r].pc # "idle" /\ Key(r) \in Keys /\ relay[r].num \in Nat
      /\ \A p \in 1..Len(sps) : SameLock(sps[p], sps[p])
  BY <1>0, WordFacts
     DEF getExistingSession, createNewSingleProviderSession, At, Holding, SameLock, Local, Key
\* Nothing is taken.
<1>2. CASE getExistingSession(r) /\ UNCHANGED sps /\ \E pc \in {"create", "idle"} : Goto(r, pc)
  <2>1. PICK pc \in {"create", "idle"} : Goto(r, pc)
    BY <1>2
  <2>2. PICK g : relay' = [relay EXCEPT ![r] = g] /\ g.pc = pc
    BY <2>1, GotoKeeps DEF Steps
  <2>3. g.pc \notin Holding
    BY <2>2 DEF Holding
  <2> QED BY <1>0, <1>1, <1>2, <2>2, <2>3, LockStep
\* Session o of a sequence with one session more, or none.
<1>3. ASSUME NEW objects, SessionsStay(sps, objects), NEW o \in 1..Len(objects),
             \A p \in 1..Len(objects) \ {o} : p \in 1..Len(sps) /\ objects[p] = sps[p],
             o \in 1..Len(sps) => objects[o] = sps[o],
             objects[o].lock = Free, objects[o].LatestRelayCu = 0, objects[o].key = Key(r),
             Keep(r, objects, o), Overflow(objects[o].RelayNum + 1) \subseteq past'
      PROVE  Locks' /\ NumsGrow(sps, sps', past')
  <2>0. objects \in Seq(SingleProviderSession) /\ objects[o] \in SingleProviderSession /\ o \in Nat
    BY <1>3 DEF SessionsStay
  <2>1. SessionsStay(objects, sps') /\ Len(sps') = Len(objects)
    BY <1>1, <1>3, KeepTakes
  <2>2. SessionsStay(sps, sps')
    BY <1>3, <2>1 DEF SessionsStay
  <2>3. objects[o].RelayNum \in Nat
    BY <2>0, ObjectNumbers
  <2>4. CASE RelayNumTaken(objects[o], relay[r].num)
    <3>1. sps' = objects /\ relay' = [relay EXCEPT ![r] = Idle] /\ Idle.pc \notin Holding
      BY <2>4 , <1>3 DEF Keep, Goto, Idle, Holding
    <3>2. \A p \in 1..Len(sps') \ {o} : p \in 1..Len(sps) /\ SameLock(sps[p], sps'[p])
      BY <1>3, <3>1 DEF SameLock
    <3>3. o \in 1..Len(sps) => /\ sps[o].lock = Free
                              /\ Grows(sps[o].RelayNum, sps'[o].RelayNum, past')
      BY <1>3, <2>3, <3>1 DEF Grows
    <3> QED BY <1>0, <1>1, <1>3, <2>2, <3>1, <3>2, <3>3, LockStep
  <2>5. CASE ~ RelayNumTaken(objects[o], relay[r].num)
    <3> DEFINE b == IF relay[r].badge # 0 THEN relay[r].badge ELSE objects[o].badge
               x == [objects[o] EXCEPT !.lock = r, !.badge = b]
               g == [relay[r] EXCEPT !.pc = "prepare", !.obj = o]
    <3>1. sps' = [objects EXCEPT ![o] = x] /\ relay' = [relay EXCEPT ![r] = g]
      BY <1>0, <1>3, <2>0, <2>5 DEF Keep
    <3>2. g.pc = "prepare" /\ g.obj = o /\ g.num = relay[r].num
      BY <1>0 DEF Goroutine
    <3>3. /\ x.lock = r /\ x.LatestRelayCu = 0 /\ x.RelayNum = objects[o].RelayNum
          /\ x \in SingleProviderSession
      <4>1. b \in Nat
        BY <1>0, <2>0 DEF SingleProviderSession, Goroutine
      <4> HIDE DEF b
      <4> QED BY <1>3, <2>0, <4>1 DEF SingleProviderSession
    <3> HIDE DEF g, x
    <3>4. sps'[o] = x /\ \A p \in 1..Len(objects) \ {o} : sps'[p] = objects[p]
      BY <2>0, <3>1, <3>3, ChangeObject
    <3>5. \A p \in 1..Len(sps') \ {o} : p \in 1..Len(sps) /\ SameLock(sps[p], sps'[p])
      BY <1>3, <2>1, <3>4 DEF SameLock
    <3>6. Below(sps'[o].RelayNum, g.num, past')
      <4>1. CASE Overflow(objects[o].RelayNum + 1) = {"wrapped"}
        BY <1>3, <4>1 DEF Below
      <4>2. CASE Overflow(objects[o].RelayNum + 1) # {"wrapped"}
        <5>1. (objects[o].RelayNum + 1) % Word = objects[o].RelayNum + 1
          BY <2>3, <4>2, Fits
        <5>2. Plus(objects[o].RelayNum, 1) = objects[o].RelayNum + 1
          BY <5>1 DEF Plus
        <5> QED BY <1>1, <2>3, <2>5, <3>2, <3>3, <3>4, <5>2 DEF RelayNumTaken, Below
      <4> QED BY <4>1, <4>2
    <3>7. o \in 1..Len(sps) => sps[o].lock = Free /\ Grows(sps[o].RelayNum, sps'[o].RelayNum, past')
      BY <1>3, <2>3, <3>3, <3>4 DEF Grows
    <3>8. g.pc \in Holding
      BY <3>2 DEF Holding
    <3>9. sps'[o].lock = r /\ sps'[o].LatestRelayCu = 0 /\ o \in 1..Len(sps')
      BY <2>1, <3>3, <3>4
    <3> QED BY <1>0, <1>1, <2>2, <3>1, <3>2, <3>5, <3>6, <3>7, <3>8, <3>9, LockStep, ZenonT(90)
  <2> QED BY <2>4, <2>5
<1>4. CASE getExistingSession(r) /\ Sessions[Key(r)] = 0
  BY <1>2, <1>4 DEF getExistingSession
<1>5. CASE getExistingSession(r) /\ Sessions[Key(r)] # 0
  <2> DEFINE o == Sessions[Key(r)]
  <2>1. o \in 1..Len(sps) /\ sps[o].key = Key(r) /\ sps[o].lock = Free /\ Keep(r, sps, o)
    BY <1>0, <1>1, <1>5 DEF Shared, getExistingSession
  <2>2. sps[o].LatestRelayCu = 0
    BY <2>1 DEF Locks
  <2>3. Overflow(sps[o].RelayNum + 1) \subseteq past'
    BY <1>5 DEF getExistingSession
  <2> HIDE DEF o
  <2> QED BY <1>0, <1>3, <2>1, <2>2, <2>3
<1>6. CASE createNewSingleProviderSession(r)
  <2> DEFINE x == NewSession(Key(r))
             objects == Append(sps, x)
             n == Len(sps) + 1
  <2>1. x \in SingleProviderSession /\ x.key = Key(r) /\ x.lock = Free /\ x.LatestRelayCu = 0
    BY <1>1, WordFacts DEF NewSession, SingleProviderSession
  <2>2. Keep(r, objects, n)
    BY <1>6 DEF createNewSingleProviderSession
  <2>5. Overflow(x.RelayNum + 1) = {}
    BY WordFacts DEF NewSession, Overflow
  <2> HIDE DEF x
  <2>3. /\ SessionsStay(sps, objects) /\ Len(objects) = n /\ objects[n] = x
        /\ \A p \in 1..Len(sps) : objects[p] = sps[p]
    BY <1>0, <2>1 DEF SessionsStay
  <2>4. n \in 1..Len(objects) /\ n \notin 1..Len(sps) /\ 1..Len(objects) \ {n} = 1..Len(sps)
    BY <1>0, <2>3
  <2> HIDE DEF objects, n
  <2> QED BY <1>3, <2>1, <2>2, <2>3, <2>4, <2>5
<1> QED BY <1>4, <1>5, <1>6

\* The steps of a relay that has a session.  In the steps that keep it nothing
\* changes in the object but its sums.
LEMMA LocksHolding ==
    ASSUME Base, Locks, NEW r \in Relays, Prepare(r) \/ Serve(r), relay[r].pc \in Holding
    PROVE  (Locks' /\ NumsGrow(sps, sps', past')) \/ "early" \in past'
<1> DEFINE o == relay[r].obj
           x == Session(r)
<1>0. /\ relay \in [Relays -> Goroutine] /\ relay[r] \in Goroutine /\ sps \in Seq(SingleProviderSession)
      /\ SessionsStay(sps, sps) /\ o \in 1..Len(sps) /\ x \in SingleProviderSession /\ x = sps[o]
      /\ x.lock = r /\ x.lock # Free /\ Below(x.RelayNum, relay[r].num, past) /\ past \subseteq past'
      /\ relay[r].pc \in Fresh => x.LatestRelayCu = 0
  <2>1. o \in 1..Len(sps) /\ x \in SingleProviderSession
    BY HasObject DEF WithSession
  <2> QED BY <2>1, HoldsOwn, PastGrows DEF Base, Shared, SessionsStay, Session
<1>1. relay[r].num \in RelayNums /\ relay[r].num \in Nat /\ x.RelayNum \in Nat
  <2>1. Local(relay[r], sps, past) /\ relay[r].pc # "idle"
    BY DEF Base, Holding
  <2>2. relay[r].num \in RelayNums
    BY <2>1 DEF Local
  <2> QED BY <1>0, <2>2, ObjectNumbers, WordFacts
\* The object becomes y and the relay goes on.
<1>2. ASSUME NEW g, relay' = [relay EXCEPT ![r] = g], NEW y \in SingleProviderSession,
             sps' = [sps EXCEPT ![o] = y] \/ (sps' = sps /\ y = x), y.key = x.key,
             g.pc \in Holding => /\ g.obj = o /\ g.num = relay[r].num
                                 /\ y.lock = r /\ y.RelayNum = x.RelayNum
                                 /\ g.pc \in Fresh => y.LatestRelayCu = 0,
             g.pc \notin Holding => y.lock = Free /\ y.LatestRelayCu = 0 /\ Grows(x.RelayNum, y.RelayNum, past')
      PROVE  Locks' /\ NumsGrow(sps, sps', past')
  <2>1. SessionsStay(sps, sps') /\ Len(sps') = Len(sps)
    <3>1. CASE sps' = sps
      BY <1>0, <3>1
    <3>2. CASE sps' = [sps EXCEPT ![o] = y]
      BY <1>2, <3>2, ObjectStays DEF WithSession
    <3> QED BY <1>2, <3>1, <3>2
  <2>2. sps'[o] = y /\ \A p \in 1..Len(sps) \ {o} : sps'[p] = sps[p]
    <3>1. CASE sps' = sps /\ y = x
      BY <1>0, <3>1
    <3>2. CASE sps' = [sps EXCEPT ![o] = y]
      BY <1>0, <1>2, <3>2, ChangeObject
    <3> QED BY <1>2, <3>1, <3>2
  <2>3. \A p \in 1..Len(sps') \ {o} : p \in 1..Len(sps) /\ SameLock(sps[p], sps'[p])
    BY <2>1, <2>2 DEF SameLock
  <2>4. Grows(x.RelayNum, y.RelayNum, past')
    BY <1>1, <1>2 DEF Grows
  <2>5. g.pc \in Holding => Below(y.RelayNum, g.num, past')
    BY <1>0, <1>2 DEF Below
  <2>6. sps[o].lock = r /\ Grows(sps[o].RelayNum, sps'[o].RelayNum, past') /\ o \in 1..Len(sps')
    BY <1>0, <2>1, <2>2, <2>4
  <2>7. CASE g.pc \in Holding
    <3>1. /\ g.obj = o /\ sps'[o].lock = r /\ Below(sps'[o].RelayNum, g.num, past')
          /\ g.pc \in Fresh => sps'[o].LatestRelayCu = 0
      BY <1>2, <2>2, <2>5, <2>7
    <3> QED BY <1>0, <1>2, <2>1, <2>3, <2>6, <2>7, <3>1, LockStep
  <2>8. CASE g.pc \notin Holding
    <3>1. sps'[o].lock = Free /\ sps'[o].LatestRelayCu = 0
      BY <1>2, <2>2, <2>8
    <3> QED BY <1>0, <1>2, <2>1, <2>3, <2>6, <2>8, <3>1, LockStep
  <2> QED BY <2>7, <2>8
\* The object stays.
<1>3. ASSUME NEW pc \in Steps \cap Holding, Goto(r, pc), UNCHANGED sps,
             pc \in Fresh => relay[r].pc \in Fresh
      PROVE  Locks' /\ NumsGrow(sps, sps', past')
  <2>1. PICK g : relay' = [relay EXCEPT ![r] = g] /\ g.pc = pc /\ Kept(g, relay[r])
    BY <1>3, GotoKeeps DEF Holding
  <2> QED BY <1>0, <1>2, <1>3, <2>1 DEF Kept, SameRequest
\* The relay leaves.
<1>4. ASSUME NEW pc \in Steps \ Holding, Goto(r, pc), NEW y \in SingleProviderSession,
             sps' = [sps EXCEPT ![o] = y], y.key = x.key,
             y.lock = Free, y.LatestRelayCu = 0, Grows(x.RelayNum, y.RelayNum, past')
      PROVE  Locks' /\ NumsGrow(sps, sps', past')
  <2>1. PICK g : relay' = [relay EXCEPT ![r] = g] /\ g.pc = pc
    BY <1>4, GotoKeeps
  <2> QED BY <1>2, <1>4, <2>1
<1>5. /\ Unlocked(x) \in SingleProviderSession /\ Unlocked(x).key = x.key /\ Unlocked(x).lock = Free
      /\ Unlocked(x).LatestRelayCu = x.LatestRelayCu /\ Unlocked(x).RelayNum = x.RelayNum
  BY <1>0 DEF Unlocked, SingleProviderSession
<1>6. ASSUME onSessionDone(r), NEW pc \in Steps \ Holding, Goto(r, pc)
      PROVE  Locks' /\ NumsGrow(sps, sps', past')
  <2> DEFINE y == Done(x, relay[r].num)
  <2>1. sps' = [sps EXCEPT ![o] = y]
    BY <1>0, <1>6 DEF onSessionDone
  <2>2. y \in SingleProviderSession /\ y.key = x.key
    BY <1>0, <1>1, LeftOfObject
  <2>3. y.lock = Free /\ y.LatestRelayCu = 0 /\ y.RelayNum = relay[r].num
    BY <1>5 DEF Done, SingleProviderSession
  <2>4. Grows(x.RelayNum, y.RelayNum, past')
    BY <1>0, <1>1, <2>3 DEF Below, Grows
  <2> HIDE DEF y
  <2> QED BY <1>4, <1>6, <2>1, <2>2, <2>3, <2>4
<1> USE DEF Holding, Steps, Fresh
<1>7. CASE CannotPrepare(r)
  BY <1>3, <1>7 DEF CannotPrepare, At
<1>8. CASE PrepareSessionForUsage(r)
  <2> DEFINE g == IF relay[r].cu >= Plus(x.CuSum, CuFromSpec)
                  THEN [relay[r] EXCEPT !.pc = "charge", !.total = relay[r].cu]
                  ELSE IF relay[r].cu > x.CuSum
                  THEN [relay[r] EXCEPT !.pc = "missing", !.total = relay[r].cu,
                                        !.add = Minus(Plus(CuFromSpec, x.CuSum), relay[r].cu)]
                  ELSE [relay[r] EXCEPT !.pc = "missing", !.total = x.CuSum, !.add = CuFromSpec]
  <2>1. relay' = [relay EXCEPT ![r] = g] /\ UNCHANGED sps /\ relay[r].pc = "prepare"
    BY <1>8 DEF PrepareSessionForUsage, At
  <2>2. g.pc \in {"charge", "missing"} /\ g.obj = o /\ g.num = relay[r].num
    BY <1>0 DEF Goroutine
  <2> HIDE DEF g
  <2> QED BY <1>0, <1>2, <2>1, <2>2
<1>9. CASE ReadMissing(r)
  <2> DEFINE g == [relay[r] EXCEPT !.pc = "missed", !.old = missing[relay[r].epoch]]
  <2>1. UNCHANGED sps /\ relay[r].pc = "missing"
    BY <1>9 DEF ReadMissing, At
  <2>2. CASE Goto(r, "disband")
    BY <1>3, <2>1, <2>2
  <2>3. CASE ~ Goto(r, "disband")
    <3>1. relay' = [relay EXCEPT ![r] = g]
      BY <1>0, <1>9, <2>3 DEF ReadMissing
    <3>2. g.pc = "missed" /\ g.obj = o /\ g.num = relay[r].num
      BY <1>0 DEF Goroutine
    <3> HIDE DEF g
    <3> QED BY <1>0, <1>2, <2>1, <3>1, <3>2
  <2> QED BY <2>2, <2>3
<1>10. CASE AddMissing(r)
  BY <1>3, <1>10 DEF AddMissing, At
<1>11. CASE validateAndAddUsedCU(r)
  <2> DEFINE g == [relay[r] EXCEPT !.add = Minus(relay[r].total, x.CuSum),
                                   !.pc = IF x.badge # 0 THEN "badge" ELSE "apply"]
  <2>1. UNCHANGED sps /\ relay[r].pc = "charge"
    BY <1>11 DEF validateAndAddUsedCU, At
  <2>2. CASE Goto(r, "disband")
    BY <1>3, <2>1, <2>2
  <2>3. CASE ~ Goto(r, "disband")
    <3>1. relay' = [relay EXCEPT ![r] = g]
      BY <1>0, <1>11, <2>3 DEF validateAndAddUsedCU
    <3>2. g.pc \in {"badge", "apply"} /\ g.obj = o /\ g.num = relay[r].num
      BY <1>0 DEF Goroutine
    <3> HIDE DEF g
    <3> QED BY <1>0, <1>2, <2>1, <3>1, <3>2
  <2> QED BY <2>2, <2>3
<1>12. CASE validateAndAddBadgeUsedCU(r)
  <2>1. CASE Goto(r, "apply") /\ UNCHANGED sps
    BY <1>3, <1>12, <2>1 DEF validateAndAddBadgeUsedCU, At
  <2>2. CASE "early" \in past'
    BY <2>2
  <2> QED BY <1>12, <2>1, <2>2 DEF validateAndAddBadgeUsedCU
<1>13. CASE ReadCuSum(r)
  <2> DEFINE y == [x EXCEPT !.LatestRelayCu = relay[r].add]
             g == [relay[r] EXCEPT !.pc = "write", !.old = x.CuSum]
  <2>1. relay' = [relay EXCEPT ![r] = g] /\ sps' = [sps EXCEPT ![o] = y]
    BY <1>0, <1>13 DEF ReadCuSum, Session
  <2>2. y \in SingleProviderSession /\ y.key = x.key /\ y.lock = r /\ y.RelayNum = x.RelayNum
    BY <1>0 DEF Goroutine, SingleProviderSession
  <2>3. g.pc = "write" /\ g.obj = o /\ g.num = relay[r].num
    BY <1>0 DEF Goroutine
  <2> HIDE DEF g, y
  <2> QED BY <1>0, <1>2, <2>1, <2>2, <2>3
<1>14. CASE WriteCuSum(r)
  <2> DEFINE c == Plus(relay[r].old, relay[r].add)
             y == [x EXCEPT !.CuSum = c]
  <2>1. Goto(r, "serve") /\ sps' = [sps EXCEPT ![o] = y]
    BY <1>14 DEF WriteCuSum, Session
  <2>2. c \in Words
    BY <1>0, WordOps DEF Goroutine
  <2> HIDE DEF c
  <2>3. y \in SingleProviderSession /\ y.key = x.key /\ y.lock = r /\ y.RelayNum = x.RelayNum
    BY <1>0, <2>2 DEF SingleProviderSession
  <2>4. PICK g : relay' = [relay EXCEPT ![r] = g] /\ g.pc = "serve" /\ Kept(g, relay[r])
    BY <2>1, GotoKeeps
  <2> HIDE DEF y
  <2> QED BY <1>2, <2>1, <2>3, <2>4 DEF Kept, SameRequest
<1>15. CASE DisbandSession(r)
  <2>1. Goto(r, "idle") /\ sps' = [sps EXCEPT ![o] = Unlocked(x)] /\ x.LatestRelayCu = 0
    BY <1>0, <1>15 DEF DisbandSession, At, Session
  <2>2. Unlocked(x).LatestRelayCu = 0 /\ Grows(x.RelayNum, Unlocked(x).RelayNum, past')
    BY <1>1, <1>5, <2>1 DEF Grows
  <2> QED BY <1>4, <1>5, <2>1, <2>2
<1>16. CASE RelayDone(r)
  BY <1>6, <1>16 DEF RelayDone
<1>17. CASE SubscribeRefused(r)
  BY <1>6, <1>17 DEF SubscribeRefused
<1>18. CASE ReleaseSession(r)
  <2>1. onSessionDone(r) /\ Goto(r, "streaming")
    BY <1>0, <1>18 DEF ReleaseSession
  <2> QED BY <1>6, <2>1
<1>19. CASE RelayFailed(r)
  BY <1>3, <1>19 DEF RelayFailed, At
<1>20. CASE OnSessionFailure(r)
  <2>1. CASE onSessionDone(r) /\ Goto(r, "idle")
    BY <1>6, <2>1
  <2>2. CASE ~ (onSessionDone(r) /\ Goto(r, "idle"))
    <3> DEFINE g == [relay[r] EXCEPT !.pc = "undo", !.old = x.CuSum]
    <3>1. relay' = [relay EXCEPT ![r] = g] /\ UNCHANGED sps
      BY <1>0, <1>20, <2>2 DEF OnSessionFailure
    <3>2. g.pc = "undo" /\ g.obj = o /\ g.num = relay[r].num
      BY <1>0 DEF Goroutine
    <3> HIDE DEF g
    <3> QED BY <1>0, <1>2, <3>1, <3>2
  <2> QED BY <2>1, <2>2
<1>21. CASE onSessionFailure(r)
  <2> DEFINE y == Undone(x, relay[r].old)
  <2>1. Goto(r, "idle") /\ sps' = [sps EXCEPT ![o] = y]
    BY <1>21 DEF onSessionFailure, Session
  <2>2. y \in SingleProviderSession /\ y.key = x.key
    BY <1>0, LeftOfObject DEF Goroutine
  <2>3. y.lock = Free /\ y.LatestRelayCu = 0 /\ y.RelayNum = x.RelayNum
    BY <1>5 DEF Undone, SingleProviderSession
  <2>4. Grows(x.RelayNum, y.RelayNum, past')
    BY <1>1, <2>3 DEF Grows
  <2> HIDE DEF y
  <2> QED BY <1>4, <2>1, <2>2, <2>3, <2>4
<1>22. CASE Subscribed(r) \/ SubscribeFailed(r)
  BY <1>22 DEF Subscribed, SubscribeFailed, At
<1> QED BY <1>7, <1>8, <1>9, <1>10, <1>11, <1>12, <1>13, <1>14, <1>15, <1>16, <1>17, <1>18, <1>19,
           <1>20, <1>21, <1>22 DEF Prepare, Serve

\* Whatever a goroutine does, the locks stay exact and no session's number is
\* lowered, unless the goroutine lets go of its session early.
LEMMA LocksRelay ==
    ASSUME Base, Locks, NEW r \in Relays, Lookup(r) \/ Prepare(r) \/ Serve(r) \/ Prove(r)
    PROVE  (Locks' /\ NumsGrow(sps, sps', past')) \/ "early" \in past'
<1>1. CASE Outside(r)
  BY <1>1, LocksOutside
<1>2. CASE getExistingSession(r) \/ createNewSingleProviderSession(r)
  BY <1>2, LocksTake
<1>3. CASE (Prepare(r) \/ Serve(r)) /\ ~ Outside(r)
  <2>1. relay[r].pc \in Holding
    BY <1>3 DEF Prepare, CannotPrepare, PrepareSessionForUsage, ReadMissing, AddMissing,
         validateAndAddUsedCU, validateAndAddBadgeUsedCU, ReadCuSum, WriteCuSum, DisbandSession,
         Serve, RelayDone, RelayFailed, SubscribeRefused, ReleaseSession, OnSessionFailure,
         onSessionFailure, At, Holding, Outside
  <2> QED BY <1>3, <2>1, LocksHolding, SMTT(60)
<1> QED BY <1>1, <1>2, <1>3 DEF Lookup, Outside

LockInv == Base /\ ("early" \notin past => Locks)

\* No lock is held at the start.
LEMMA LockInit == Init => LockInv
<1> SUFFICES ASSUME Init PROVE LockInv
  OBVIOUS
<1>1. Base /\ 1..Len(sps) = {}
  BY InitBase DEF Init
<1> QED BY <1>1 DEF LockInv, Locks

\* Every step keeps the locks exact.
LEMMA LockNext ==
    LockInv /\ [Next]_vars => LockInv' /\ ("early" \notin past' => NumsGrow(sps, sps', past'))
<1> SUFFICES ASSUME LockInv, [Next]_vars
             PROVE  LockInv' /\ ("early" \notin past' => NumsGrow(sps, sps', past'))
  OBVIOUS
<1>0. Base /\ Base' /\ sps \in Seq(SingleProviderSession)
  BY BaseNext DEF LockInv, Base, Shared
<1>1. past \subseteq past'
  BY PastGrows
<1>2. ASSUME "early" \notin past' PROVE Locks' /\ NumsGrow(sps, sps', past')
  <2>0. Locks
    BY <1>1, <1>2 DEF LockInv
  <2>1. CASE UNCHANGED <<sps, relay>>
    <3>1. Locks'
      BY <1>1, <2>0, <2>1 DEF Locks, Lock, Below
    <3>2. \A o \in 1..Len(sps) : sps[o] \in SingleProviderSession /\ sps'[o] = sps[o]
      BY <1>0, <2>1
    <3>3. \A o \in 1..Len(sps) : sps[o].RelayNum \in Nat /\ sps'[o].RelayNum = sps[o].RelayNum
      BY <3>2, ObjectNumbers
    <3>4. NumsGrow(sps, sps', past')
      BY <3>3 DEF NumsGrow, Grows
    <3> QED BY <3>1, <3>4
  <2>2. CASE \E r \in Relays : Lookup(r) \/ Prepare(r) \/ Serve(r) \/ Prove(r)
    BY <1>0, <1>2, <2>0, <2>2, LocksRelay
  <2> QED BY <2>1, <2>2 DEF Next, UpdateEpoch, vars
<1> QED BY <1>0, <1>2 DEF LockInv

\* GetSession's comment, "singleProviderSession is locked at this point": as long as
\* no refused badge and no failed subscription has let go of a session early, a
\* session is locked by exactly the relay that uses it, for any number of goroutines.
THEOREM SessionsExclusive == Spec => []Exclusive
<1>1. LockInv => Exclusive
  BY LocksExclusive DEF LockInv, Exclusive
<1> QED BY <1>1, LockInit, LockNext, PTL DEF Spec

\* A step leaves the project's map as it is, or enters a session in a place that
\* was empty: unless it replaces one.
LEMMA MapGrows ==
    ASSUME Base, [Next]_vars, "recreated" \notin past', NEW k \in Keys, Sessions[k] # 0
    PROVE  Sessions'[k] = Sessions[k]
<1>1. CASE UNCHANGED Sessions
  BY <1>1
<1>2. ASSUME NEW r \in Relays, createNewSingleProviderSession(r) PROVE Sessions'[k] = Sessions[k]
  <2>1. Sessions' = [Sessions EXCEPT ![Key(r)] = Len(sps) + 1] /\ Sessions[Key(r)] = 0
    BY <1>2 DEF createNewSingleProviderSession
  <2>2. k # Key(r)
    BY <2>1
  <2> QED BY <2>1, <2>2 DEF Base, Shared
<1>3. ASSUME NEW r \in Relays, Lookup(r) PROVE UNCHANGED Sessions \/ createNewSingleProviderSession(r)
  BY <1>3 DEF Lookup, Receive, GetSession, NotPaired, registerNewConsumer, getBadgeEpochData,
         registerBadgeEpochData, getExistingSession, tryLockForUseFails
<1>4. ASSUME NEW r \in Relays, Prepare(r) PROVE UNCHANGED Sessions
  BY <1>4 DEF Prepare, CannotPrepare, PrepareSessionForUsage, ReadMissing, AddMissing,
       validateAndAddUsedCU, validateAndAddBadgeUsedCU, ReadCuSum, WriteCuSum, DisbandSession
<1>5. ASSUME NEW r \in Relays, Serve(r) PROVE UNCHANGED Sessions
  BY <1>5 DEF Serve, RelayDone, RelayFailed, SubscribeRefused, ReleaseSession, Subscribed,
       SubscribeFailed, OnSessionFailure, onSessionFailure
<1>6. ASSUME NEW r \in Relays, Prove(r) PROVE UNCHANGED Sessions
  BY <1>6 DEF Prove, SendProof, UpdateSessionCU, writeCuSumAtomically,
       atomicReadUsedComputeUnits, atomicWriteUsedComputeUnits
<1> QED BY <1>1, <1>2, <1>3, <1>4, <1>5, <1>6 DEF Next, UpdateEpoch, vars

\* A relay that completes leaves its number in its session.
LEMMA CompletesStep ==
    ASSUME Base, Locks, [Next]_vars, NEW r \in Relays, NEW k \in Keys, Completes(r, k)
    PROVE  /\ UNCHANGED Sessions /\ relay[r].obj \in 1..Len(sps)
           /\ sps'[relay[r].obj].RelayNum = relay[r].num
<1>0. /\ relay \in [Relays -> Goroutine] /\ relay[r].pc = "serve" /\ sps \in Seq(SingleProviderSession)
      /\ relay[r].num \in RelayNums /\ relay[r] \in Goroutine
  BY DEF Completes, Base, Local, Shared
<1>1. relay[r].obj \in 1..Len(sps) /\ Session(r) \in SingleProviderSession /\ Session(r).lock # Free
  BY <1>0, HasObject, HoldsOwn DEF WithSession, Holding
<1>2. ASSUME onSessionDone(r) PROVE sps'[relay[r].obj].RelayNum = relay[r].num
  <2> DEFINE y == Done(Session(r), relay[r].num)
  <2>1. y.RelayNum = relay[r].num /\ y \in SingleProviderSession
    BY <1>0, <1>1, LeftOfObject DEF Done, Unlocked, SingleProviderSession
  <2>2. sps' = [sps EXCEPT ![relay[r].obj] = y]
    BY <1>1, <1>2 DEF onSessionDone, Session
  <2> HIDE DEF y
  <2> QED BY <1>0, <1>1, <2>1, <2>2, ChangeObject
<1>3. relay'[r].pc \notin {"serve", "fail"}
  BY DEF Completes
<1>4. ASSUME NEW q \in Relays, Lookup(q) \/ Prepare(q) \/ Serve(q) \/ Prove(q), q # r
      PROVE  relay'[r] = relay[r]
  <2>1. ASSUME NEW pc, Goto(q, pc) PROVE relay'[r] = relay[r]
    BY <1>0, <1>4, <2>1, SMTT(60) DEF Goto
  <2>2. CASE Lookup(q)
    BY <1>0, <1>4, <2>1, <2>2, ZenonT(60) DEF Lookup, Receive, GetSession, NotPaired, registerNewConsumer, getBadgeEpochData,
         registerBadgeEpochData, getExistingSession, tryLockForUseFails, createNewSingleProviderSession, Keep
  <2>3. CASE Prepare(q)
    BY <1>0, <1>4, <2>1, <2>3 DEF Prepare, CannotPrepare, PrepareSessionForUsage, ReadMissing, AddMissing,
       validateAndAddUsedCU, validateAndAddBadgeUsedCU, ReadCuSum, WriteCuSum, DisbandSession
  <2>4. CASE Serve(q)
    BY <1>0, <1>4, <2>1, <2>4 DEF Serve, RelayDone, RelayFailed, SubscribeRefused, ReleaseSession, Subscribed,
       SubscribeFailed, OnSessionFailure, onSessionFailure
  <2>5. CASE Prove(q)
    BY <1>0, <1>4, <2>1, <2>5 DEF Prove, SendProof, UpdateSessionCU, writeCuSumAtomically,
       atomicReadUsedComputeUnits, atomicWriteUsedComputeUnits
  <2> QED BY <1>4, <2>2, <2>3, <2>4, <2>5
<1>5. CASE UNCHANGED relay
  BY <1>0, <1>3, <1>5
<1>6. ASSUME NEW q \in Relays, Lookup(q) \/ Prepare(q) \/ Serve(q) \/ Prove(q)
      PROVE  UNCHANGED Sessions /\ sps'[relay[r].obj].RelayNum = relay[r].num
  <2>1. q = r
    BY <1>0, <1>3, <1>4, <1>6, SMTT(60)
  <2>2. RelayDone(r) \/ RelayFailed(r) \/ SubscribeRefused(r) \/ ReleaseSession(r)
    BY <1>0, <1>6, <2>1, ZenonT(60) DEF Lookup, Receive, GetSession, NotPaired, registerNewConsumer, getBadgeEpochData,
         registerBadgeEpochData, getExistingSession, tryLockForUseFails, createNewSingleProviderSession,
         Prepare, CannotPrepare, PrepareSessionForUsage, ReadMissing, AddMissing,
         validateAndAddUsedCU, validateAndAddBadgeUsedCU, ReadCuSum, WriteCuSum, DisbandSession,
         Serve, Subscribed, SubscribeFailed, OnSessionFailure, onSessionFailure,
         Prove, SendProof, UpdateSessionCU, writeCuSumAtomically,
         atomicReadUsedComputeUnits, atomicWriteUsedComputeUnits, At
  <2>3. CASE RelayFailed(r)
    <3>1. relay'[r].pc = "fail"
      BY <1>0, <2>3 DEF RelayFailed, Goto, Goroutine
    <3> QED BY <1>3, <3>1
  <2> QED BY <1>2, <2>2, <2>3 DEF RelayDone, SubscribeRefused, ReleaseSession
<1> QED BY <1>1, <1>5, <1>6 DEF Next, UpdateEpoch, vars

\* No number of a session is served twice, by whatever session object the project's
\* map holds: it never falls, and a relay that completes had a higher one and leaves
\* its own.  The exceptions are the three the model shows to be real: a lock given
\* up early, a session replaced in the map, the number's wrap-around.
THEOREM NumbersServedOnce == Spec => ServedOnce
<1>1. ASSUME LockInv, [Next]_vars, past' \cap {"early", "recreated", "wrapped"} = {}
      PROVE  NumbersRise
  <2>0. /\ Base /\ Base' /\ past \subseteq past' /\ Locks /\ Unique(Sessions, sps, past)
        /\ Sessions \in [Keys -> 0..Len(sps)] /\ Sessions' \in [Keys -> 0..Len(sps')]
        /\ sps \in Seq(SingleProviderSession) /\ sps' \in Seq(SingleProviderSession)
    BY <1>1, BaseNext, PastGrows DEF LockInv, Base, Shared
  <2>1. \A o \in 1..Len(sps) : sps'[o].RelayNum >= sps[o].RelayNum
    BY <1>1, LockNext DEF NumsGrow, Grows
  <2>2. ASSUME NEW k \in Keys PROVE Number(k)' >= Number(k)
    <3>1. CASE Sessions[k] = 0
      <4>1. Number(k) = 0
        BY <3>1 DEF Number
      <4>2. CASE Sessions'[k] = 0
        BY <4>1, <4>2 DEF Number
      <4>3. CASE Sessions'[k] # 0
        <5>1. sps'[Sessions'[k]] \in SingleProviderSession
          BY <2>0, <4>3
        <5>2. Number(k)' = sps'[Sessions'[k]].RelayNum
          BY <4>3 DEF Number
        <5> QED BY <4>1, <5>1, <5>2, ObjectNumbers
      <4> QED BY <4>2, <4>3
    <3>2. CASE Sessions[k] # 0
      <4>1. Sessions'[k] = Sessions[k] /\ Sessions[k] \in 1..Len(sps)
        BY <1>1, <2>0, <3>2, MapGrows
      <4>2. Number(k) = sps[Sessions[k]].RelayNum /\ Number(k)' = sps'[Sessions[k]].RelayNum
        BY <3>2, <4>1 DEF Number
      <4> QED BY <2>1, <4>1, <4>2
    <3> QED BY <3>1, <3>2
  <2>3. ASSUME NEW r \in Relays, NEW k \in Keys, Completes(r, k)
        PROVE  relay[r].num > Number(k) /\ Number(k)' = relay[r].num
    <3>0. relay[r].pc = "serve" /\ Key(r) = k
      BY <2>3 DEF Completes
    <3>1. /\ relay[r].obj \in 1..Len(sps) /\ Session(r).key = Key(r)
          /\ Session(r) \in SingleProviderSession
      BY <2>0, <3>0, HasObject DEF WithSession, Holding
    <3>2. Below(Session(r).RelayNum, relay[r].num, past)
      BY <2>0, <3>0, HoldsOwn DEF Holding
    <3>3. Sessions[k] = relay[r].obj
      BY <1>1, <2>0, <3>0, <3>1 DEF Unique, Session
    <3>4. Number(k) = Session(r).RelayNum /\ Session(r).RelayNum < relay[r].num
      BY <1>1, <2>0, <3>1, <3>2, <3>3 DEF Number, Session, Below
    <3>5. UNCHANGED Sessions /\ sps'[relay[r].obj].RelayNum = relay[r].num
      BY <1>1, <2>0, <2>3, CompletesStep
    <3>6. Number(k)' = relay[r].num
      BY <3>1, <3>3, <3>5 DEF Number
    <3>7. relay[r].num \in Nat /\ Session(r).RelayNum \in Nat
      <4>1. relay[r].num \in RelayNums
        BY <2>0, <3>0 DEF Base, Local
      <4> QED BY <3>1, <4>1, ObjectNumbers, WordFacts
    <3> QED BY <3>4, <3>6, <3>7
  <2> QED BY <2>2, <2>3 DEF NumbersRise
<1>2. LockInv /\ [Next]_vars => [past' \cap {"early", "recreated", "wrapped"} = {} => NumbersRise]_vars
  BY <1>1
<1> QED BY <1>2, LockInit, LockNext, PTL DEF Spec, ServedOnce

-----------------------------------------------------------------------------
(* The CU a provider has charged: to the word they are those of its          *)
(* sessions.  Until a sum wraps around they are exactly those, they stay     *)
(* within the limits, and they cover the proofs.                             *)

Counted == {"serve", "fail", "undo"}

\* What a session and a goroutine are charged in an epoch, and what a goroutine
\* has charged to counter c of the badge's user.
CuOf(x, e) == IF x.key[1] = e THEN x.CuSum ELSE 0
Charge(g, e) == IF g.epoch = e /\ g.pc \in {"badge", "apply", "write"} THEN g.add ELSE 0
BadgeCharge(g, x, c) ==
    IF g.pc \in {"apply", "write"} \cup Counted /\ x.badge = c THEN g.add ELSE 0

\* The badge's counters, those that do not exist yet at zero.
Counter(s, c) == IF c \in 1..Len(s) THEN s[c] ELSE 0
Counters == Nat \ {0}

Total(objects, e) ==
    SumFunctionOnSet([o \in 1..Len(objects) |-> CuOf(objects[o], e)], 1..Len(objects))
Pending(relays, e) == SumFunctionOnSet([r \in Relays |-> Charge(relays[r], e)], Relays)
BadgePending(relays, objects, c) ==
    SumFunctionOnSet([r \in Relays |-> BadgeCharge(relays[r], objects[relays[r].obj], c)], Relays)

\* The accounts give the sums of UsedAccounted.
LEMMA SumsMatch ==
    ASSUME NEW e
    PROVE  SumFunction(SessionCu(e)) = Total(sps, e) /\ SumFunction(PendingCu(e)) = Pending(relay, e)
<1>1. SumFunction(SessionCu(e)) = Total(sps, e)
  BY DEF SumFunction, SumFunctionOnSet, FoldFunction, SessionCu, Total, CuOf
<1>2. SumFunction(PendingCu(e)) = Pending(relay, e)
  BY DEF SumFunction, SumFunctionOnSet, FoldFunction, PendingCu, Pending, Charge
<1> QED BY <1>1, <1>2

\* The sessions' sum.
LEMMA TotalFacts ==
    ASSUME NEW objects \in Seq(SingleProviderSession), NEW e
    PROVE  /\ Total(objects, e) \in Nat
           /\ \A o \in 1..Len(objects) : objects[o].key[1] = e => objects[o].CuSum <= Total(objects, e)
<1> DEFINE f == [o \in 1..Len(objects) |-> CuOf(objects[o], e)]
<1>1. \A o \in 1..Len(objects) : f[o] \in Nat
  BY ObjectNumbers DEF CuOf
<1>2. IsFiniteSet(1..Len(objects))
  BY FS_Interval
<1>3. \A o \in 1..Len(objects) : objects[o].key[1] = e => f[o] = objects[o].CuSum
  BY DEF CuOf
<1> HIDE DEF f
<1>4. /\ SumFunctionOnSet(f, 1..Len(objects)) \in Nat
      /\ \A o \in 1..Len(objects) : f[o] <= SumFunctionOnSet(f, 1..Len(objects))
  BY <1>1, <1>2, SumNat
<1>5. Total(objects, e) = SumFunctionOnSet(f, 1..Len(objects))
  BY DEF Total, f
<1> QED BY <1>3, <1>4, <1>5

\* At most one session's sum changes, or an empty session is added.
LEMMA TotalStep ==
    ASSUME NEW old, NEW new, SessionsStay(old, new), NEW e, NEW o,
           \A p \in 1..Len(new) \ {o} : p \in 1..Len(old) /\ new[p].CuSum = old[p].CuSum,
           o \in 1..Len(new) /\ o \notin 1..Len(old) => new[o].CuSum = 0
    PROVE  Total(new, e) = Total(old, e) + IF o \in 1..Len(old) THEN CuOf(new[o], e) - CuOf(old[o], e) ELSE 0
<1> DEFINE f == [p \in 1..Len(old) |-> CuOf(old[p], e)]
           h == [p \in 1..Len(new) |-> CuOf(new[p], e)]
<1>0. /\ Len(old) \in Nat /\ Len(new) \in Nat /\ Len(old) <= Len(new)
      /\ \A p \in 1..Len(old) : old[p] \in SingleProviderSession
      /\ \A p \in 1..Len(new) : new[p] \in SingleProviderSession
  BY DEF SessionsStay
<1>1. Total(old, e) = SumFunctionOnSet(f, 1..Len(old)) /\ Total(new, e) = SumFunctionOnSet(h, 1..Len(new))
  BY DEF Total
<1>2. Summable(f, 1..Len(old)) /\ Summable(h, 1..Len(new)) /\ Summable(h, 1..Len(old))
  <2>1. \A p \in 1..Len(old) : CuOf(old[p], e) \in Int
    BY <1>0, ObjectNumbers DEF CuOf
  <2>2. \A p \in 1..Len(new) : CuOf(new[p], e) \in Int
    BY <1>0, ObjectNumbers DEF CuOf
  <2>3. IsFiniteSet(1..Len(old)) /\ IsFiniteSet(1..Len(new)) /\ 1..Len(old) \subseteq 1..Len(new)
    BY <1>0, FS_Interval
  <2> QED BY <2>1, <2>2, <2>3 DEF Summable
<1>3. \A p \in 1..Len(old) : p # o => h[p] = f[p]
  BY <1>0 DEF SessionsStay, CuOf
<1>4. \A p \in 1..Len(old) : f[p] = CuOf(old[p], e) /\ h[p] = CuOf(new[p], e)
  BY <1>0
<1>5. o \in 1..Len(new) => h[o] = CuOf(new[o], e)
  OBVIOUS
<1>6. SumFunctionOnSet(f, 1..Len(old)) \in Int
  BY <1>2, SumInt
<1> HIDE DEF f, h
<1>7. CASE o \in 1..Len(old)
  <2>1. 1..Len(new) = 1..Len(old)
    BY <1>0, <1>7
  <2>2. SumFunctionOnSet(h, 1..Len(old)) = SumFunctionOnSet(f, 1..Len(old)) + h[o] - f[o]
    BY <1>2, <1>3, <1>7, SumChange
  <2>3. h[o] = CuOf(new[o], e) /\ f[o] = CuOf(old[o], e) /\ h[o] \in Int /\ f[o] \in Int
    BY <1>2, <1>4, <1>7 DEF Summable
  <2> QED BY <1>1, <1>6, <1>7, <2>1, <2>2, <2>3
<1>8. CASE o \notin 1..Len(old) /\ o \in 1..Len(new)
  <2>1. 1..Len(new) = 1..Len(old) \cup {o}
    BY <1>0, <1>8
  <2>2. h[o] = 0
    BY <1>5, <1>8 DEF CuOf
  <2>3. SumFunctionOnSet(h, 1..Len(old) \cup {o}) = SumFunctionOnSet(f, 1..Len(old)) + h[o]
    <3>1. h[o] \in Int /\ \A p \in 1..Len(old) : h[p] = f[p]
      BY <1>3, <1>8, <2>2
    <3> DEFINE D == 1..Len(old)
    <3>2. Summable(f, D) /\ o \notin D /\ \A p \in D : h[p] = f[p]
      BY <1>2, <1>8, <3>1
    <3> HIDE DEF D
    <3>3. SumFunctionOnSet(h, D \cup {o}) = SumFunctionOnSet(f, D) + h[o]
      BY <3>1, <3>2, SumExtend
    <3> QED BY <3>3 DEF D
  <2> QED BY <1>1, <1>6, <1>8, <2>1, <2>2, <2>3
<1>9. CASE o \notin 1..Len(new)
  <2>1. 1..Len(new) = 1..Len(old)
    BY <1>0, <1>9
  <2>2. SumFunctionOnSet(h, 1..Len(old)) = SumFunctionOnSet(f, 1..Len(old))
    BY <1>2, <1>3, <1>9, <2>1, SumAgree
  <2> QED BY <1>1, <1>6, <1>9, <2>1, <2>2
<1> QED BY <1>7, <1>8, <1>9

\* The relays' sums.
LEMMA PendingFacts ==
    ASSUME NEW relays \in [Relays -> Goroutine], NEW objects, NEW e
    PROVE  /\ Pending(relays, e) \in Nat /\ BadgePending(relays, objects, e) \in Nat
           /\ \A r \in Relays : /\ Charge(relays[r], e) \in Nat
                                /\ Charge(relays[r], e) <= Pending(relays, e)
                                /\ BadgeCharge(relays[r], objects[relays[r].obj], e) \in Nat
                                /\ BadgeCharge(relays[r], objects[relays[r].obj], e) <= BadgePending(relays, objects, e)
<1> DEFINE f == [r \in Relays |-> Charge(relays[r], e)]
           h == [r \in Relays |-> BadgeCharge(relays[r], objects[relays[r].obj], e)]
<1>1. \A r \in Relays : relays[r].add \in Nat
  BY WordFacts DEF Goroutine
<1>2. \A r \in Relays : f[r] \in Nat /\ h[r] \in Nat /\ f[r] = Charge(relays[r], e)
                          /\ h[r] = BadgeCharge(relays[r], objects[relays[r].obj], e)
  BY <1>1 DEF Charge, BadgeCharge
<1>3. Pending(relays, e) = SumFunctionOnSet(f, Relays)
        /\ BadgePending(relays, objects, e) = SumFunctionOnSet(h, Relays)
  BY DEF Pending, BadgePending
<1> HIDE DEF f, h
<1>4. /\ SumFunctionOnSet(f, Relays) \in Nat
      /\ \A r \in Relays : f[r] <= SumFunctionOnSet(f, Relays)
  BY <1>2, RelaysAssumption, SumNat
<1>5. /\ SumFunctionOnSet(h, Relays) \in Nat
      /\ \A r \in Relays : h[r] <= SumFunctionOnSet(h, Relays)
  BY <1>2, RelaysAssumption, SumNat
<1> QED BY <1>2, <1>3, <1>4, <1>5

\* What a goroutine has charged and not yet entered, after it moves.
LEMMA PendingStep ==
    ASSUME NEW old \in [Relays -> Goroutine], NEW new \in [Relays -> Goroutine], NEW r \in Relays,
           \A q \in Relays \ {r} : new[q] = old[q], NEW e
    PROVE  Pending(new, e) = Pending(old, e) + Charge(new[r], e) - Charge(old[r], e)
<1> DEFINE f == [q \in Relays |-> Charge(old[q], e)]
           h == [q \in Relays |-> Charge(new[q], e)]
<1>1. \A q \in Relays : old[q].add \in Nat /\ new[q].add \in Nat
  BY WordFacts DEF Goroutine
<1>2. Summable(f, Relays) /\ Summable(h, Relays)
  BY <1>1, RelaysAssumption DEF Summable, Charge
<1>3. \A q \in Relays \ {r} : h[q] = f[q]
  OBVIOUS
<1>4. f[r] = Charge(old[r], e) /\ h[r] = Charge(new[r], e)
  OBVIOUS
<1>5. Pending(old, e) = SumFunctionOnSet(f, Relays) /\ Pending(new, e) = SumFunctionOnSet(h, Relays)
  BY DEF Pending
<1> HIDE DEF f, h
<1> QED BY <1>2, <1>3, <1>4, <1>5, SumChange

\* The same for the badge.
LEMMA BadgePendingStep ==
    ASSUME NEW old \in [Relays -> Goroutine], NEW new \in [Relays -> Goroutine], NEW r \in Relays,
           \A q \in Relays \ {r} : new[q] = old[q], NEW e, NEW before, NEW after,
           \A q \in Relays \ {r} : 
             BadgeCharge(old[q], after[old[q].obj], e) = BadgeCharge(old[q], before[old[q].obj], e)
    PROVE  BadgePending(new, after, e) =
             BadgePending(old, before, e) + BadgeCharge(new[r], after[new[r].obj], e)
               - BadgeCharge(old[r], before[old[r].obj], e)
<1> DEFINE f == [q \in Relays |-> BadgeCharge(old[q], before[old[q].obj], e)]
           h == [q \in Relays |-> BadgeCharge(new[q], after[new[q].obj], e)]
<1>1. \A q \in Relays : old[q].add \in Nat /\ new[q].add \in Nat
  BY WordFacts DEF Goroutine
<1>2. Summable(f, Relays) /\ Summable(h, Relays)
  BY <1>1, RelaysAssumption DEF Summable, BadgeCharge
<1>3. \A q \in Relays \ {r} : h[q] = f[q]
  OBVIOUS
<1>4. f[r] = BadgeCharge(old[r], before[old[r].obj], e) /\ h[r] = BadgeCharge(new[r], after[new[r].obj], e)
  OBVIOUS
<1>5. BadgePending(old, before, e) = SumFunctionOnSet(f, Relays)
        /\ BadgePending(new, after, e) = SumFunctionOnSet(h, Relays)
  BY DEF BadgePending
<1> HIDE DEF f, h
<1> QED BY <1>2, <1>3, <1>4, <1>5, SumChange
-----------------------------------------------------------------------------
\* A relay that has session x: its sums never pass each other.
Account(g, x) ==
    /\ g.pc \in {"missing", "missed", "charge"} =>
         g.total >= x.CuSum /\ g.total >= g.cu
    /\ g.pc \in {"badge", "apply", "write"} =>
         g.total = x.CuSum + g.add /\ g.total >= g.cu
    /\ g.pc = "badge" => x.badge # 0
    /\ g.pc = "write" => g.old = x.CuSum /\ x.LatestRelayCu = g.add
    /\ g.pc \in Counted => x.LatestRelayCu = g.add /\ g.add <= x.CuSum /\ g.cu <= x.CuSum
    /\ g.pc = "undo" => g.old = x.CuSum

\* c is covered by session o even if the relay that has it fails, and by some
\* session with key k.
Covers(c, o, relays, objects) ==
    /\ c <= objects[o].CuSum
    /\ \A q \in Relays : relays[q].pc \in Counted /\ relays[q].obj = o =>
                           c + relays[q].add <= objects[o].CuSum
Backed(c, k, relays, objects) ==
    \E o \in 1..Len(objects) : objects[o].key = k /\ Covers(c, o, relays, objects)

Accounts == \A r \in Relays : relay[r].pc \in Holding => Account(relay[r], sps[relay[r].obj])
UsedSums ==
    \A e \in RequestEpochs : used[e] = Total(sps, e) + Pending(relay, e) /\ used[e] <= Limit
BadgeSums ==
    \A c \in Counters : /\ BadgePending(relay, sps, c) <= Counter(badgeUsed, c)
                        /\ Counter(badgeUsed, c) <= BadgeLimit
RelaysBacked ==
    \A r \in Relays : relay[r].pc \in {"proof", "streaming"} => Backed(relay[r].cu, Key(r), relay, sps)
ProofsBacked ==
    \A k \in Keys : proofs[k] \in RestoredCus \/ Backed(proofs[k], k, relay, sps)

SoundInv == Accounts /\ UsedSums /\ BadgeSums /\ RelaysBacked /\ ProofsBacked

\* A step of r to g that touches session o at most.
Touch(r, g, o) ==
    /\ relay' = [relay EXCEPT ![r] = g]
    /\ SessionsStay(sps, sps')
    /\ \A p \in 1..Len(sps') \ {o} : p \in 1..Len(sps) /\ sps'[p] = sps[p]
    /\ relay[r].pc \in Holding => relay[r].obj = o
    /\ g.pc \in Holding => g.obj = o /\ o \in 1..Len(sps')
    /\ o \in 1..Len(sps) => sps[o].lock \in {r, Free}
    /\ o \in 1..Len(sps') /\ o \notin 1..Len(sps) => sps'[o].CuSum = 0

\* The other relays have other sessions.
LEMMA OthersStay ==
    ASSUME Base, Locks, NEW r \in Relays, NEW g, NEW o, Touch(r, g, o)
    PROVE  /\ relay'[r] = g
           /\ \A q \in Relays \ {r} :
                /\ relay'[q] = relay[q]
                /\ relay[q].pc \in Holding => /\ relay[q].obj \in 1..Len(sps) /\ relay[q].obj # o
                                              /\ sps'[relay[q].obj] = sps[relay[q].obj]
<1>0. relay \in [Relays -> Goroutine] /\ Free \notin Relays
  BY RelaysAssumption DEF Base, Free
<1>1. relay'[r] = g /\ \A q \in Relays \ {r} : relay'[q] = relay[q]
  BY <1>0 DEF Touch
<1>2. ASSUME NEW q \in Relays \ {r}, relay[q].pc \in Holding
      PROVE  /\ relay[q].obj \in 1..Len(sps) /\ relay[q].obj # o
             /\ sps'[relay[q].obj] = sps[relay[q].obj]
  <2>1. relay[q].obj \in 1..Len(sps) /\ Session(q).lock = q
    BY <1>2, HasObject, HoldsOwn DEF WithSession
  <2>2. relay[q].obj # o
    BY <1>0, <1>2, <2>1 DEF Touch, Session
  <2>3. relay[q].obj \in 1..Len(sps')
    BY <2>1 DEF Touch, SessionsStay
  <2> QED BY <2>1, <2>2, <2>3 DEF Touch
<1> QED BY <1>1, <1>2

\* A step of one goroutine on one session keeps the accounts.
LEMMA AccountsStep ==
    ASSUME Base, Locks, Accounts, NEW r \in Relays, NEW g, NEW o, Touch(r, g, o),
           g.pc \in Holding => Account(g, sps'[o])
    PROVE  Accounts'
<1>1. ASSUME NEW q \in Relays, relay'[q].pc \in Holding
      PROVE  Account(relay'[q], sps'[relay'[q].obj])
  <2>1. CASE q = r
    <3>1. relay'[q] = g
      BY <2>1, OthersStay
    <3>2. g.obj = o
      BY <1>1, <3>1 DEF Touch
    <3> QED BY <1>1, <3>1, <3>2
  <2>2. CASE q # r
    BY <1>1, <2>2, OthersStay DEF Accounts
  <2> QED BY <2>1, <2>2
<1> QED BY <1>1 DEF Accounts

\* The parent's account.
LEMMA UsedStep ==
    ASSUME Base, Base', UsedSums, NEW r \in Relays, NEW g, NEW o, Touch(r, g, o),
           \A e \in RequestEpochs :
             /\ used'[e] <= Limit
             /\ used'[e] = used[e] + (IF o \in 1..Len(sps) THEN CuOf(sps'[o], e) - CuOf(sps[o], e) ELSE 0)
                             + (Charge(g, e) - Charge(relay[r], e))
    PROVE  UsedSums'
<1> SUFFICES ASSUME NEW e \in RequestEpochs
             PROVE  used'[e] = Total(sps', e) + Pending(relay', e)
  BY DEF UsedSums
<1>0. relay \in [Relays -> Goroutine] /\ relay' \in [Relays -> Goroutine] /\ sps \in Seq(SingleProviderSession)
  BY DEF Base, Shared
<1>1. \A p \in 1..Len(sps') \ {o} : p \in 1..Len(sps) /\ sps'[p].CuSum = sps[p].CuSum
  BY DEF Touch
<1> DEFINE d == IF o \in 1..Len(sps) THEN CuOf(sps'[o], e) - CuOf(sps[o], e) ELSE 0
<1>2. Total(sps', e) = Total(sps, e) + d
  BY <1>1, TotalStep DEF Touch
<1>3. Pending(relay', e) = Pending(relay, e) + Charge(g, e) - Charge(relay[r], e)
  <2>1. relay'[r] = g /\ \A q \in Relays \ {r} : relay'[q] = relay[q]
    BY <1>0 DEF Touch
  <2> QED BY <1>0, <2>1, PendingStep
<1>4. Total(sps, e) \in Nat /\ Pending(relay, e) \in Nat /\ Charge(relay[r], e) \in Nat
  BY <1>0, TotalFacts, PendingFacts
<1>5. Charge(g, e) \in Nat
  <2>1. relay'[r] = g
    BY <1>0 DEF Touch
  <2> QED BY <1>0, <2>1, PendingFacts
<1>6. d \in Int
  <2>1. CASE o \in 1..Len(sps)
    <3>1. sps[o] \in SingleProviderSession /\ sps'[o] \in SingleProviderSession
      BY <2>1 DEF Touch, SessionsStay
    <3> QED BY <2>1, <3>1, ObjectNumbers DEF CuOf
  <2> QED BY <2>1
<1>7. /\ used[e] = Total(sps, e) + Pending(relay, e)
      /\ used'[e] = used[e] + d + (Charge(g, e) - Charge(relay[r], e))
  BY DEF UsedSums
<1> HIDE DEF d
<1> QED BY <1>2, <1>3, <1>4, <1>5, <1>6, <1>7

\* A counter of the badge's user holds a word.
LEMMA CounterNat ==
    ASSUME NEW s \in Seq(Words), NEW c PROVE Counter(s, c) \in Words /\ Counter(s, c) \in Nat
<1>1. 0 \in Words /\ Words \subseteq Nat
  BY WordFacts
<1> HIDE DEF Words
<1>2. Counter(s, c) \in Words
  <2>1. CASE c \in 1..Len(s)
    <3>1. s[c] \in Words
      BY <2>1
    <3> QED BY <2>1, <3>1 DEF Counter
  <2>2. CASE c \notin 1..Len(s)
    BY <1>1, <2>2 DEF Counter
  <2> QED BY <2>1, <2>2
<1> QED BY <1>1, <1>2

\* Goroutine r, of session x, moves to g and its session to y: the badge's counters
\* keep what is charged to them.
BadgeMoves(h, x, g, y) ==
    \A c \in Counters :
        /\ Counter(badgeUsed', c) <= BadgeLimit
        /\ Counter(badgeUsed', c) + BadgeCharge(h, x, c) >= Counter(badgeUsed, c) + BadgeCharge(g, y, c)

\* The badge's account.
LEMMA BadgeStep ==
    ASSUME Base, Base', Locks, BadgeSums, NEW r \in Relays, NEW g, NEW o, Touch(r, g, o),
           BadgeMoves(relay[r], sps[relay[r].obj], g, sps'[g.obj])
    PROVE  BadgeSums'
<1> SUFFICES ASSUME NEW c \in Counters
             PROVE  BadgePending(relay', sps', c) <= Counter(badgeUsed', c)
  BY DEF BadgeSums, BadgeMoves
<1>0. relay \in [Relays -> Goroutine] /\ relay' \in [Relays -> Goroutine] /\ relay'[r] = g
        /\ Counter(badgeUsed, c) \in Nat /\ Counter(badgeUsed', c) \in Nat
  BY CounterNat DEF Base, Shared, Touch
<1>1. \A q \in Relays \ {r} : 
             BadgeCharge(relay[q], sps'[relay[q].obj], c) = BadgeCharge(relay[q], sps[relay[q].obj], c)
  BY OthersStay DEF BadgeCharge, Holding, Counted
<1>2. BadgePending(relay', sps', c) =
        BadgePending(relay, sps, c) + BadgeCharge(g, sps'[g.obj], c) - BadgeCharge(relay[r], sps[relay[r].obj], c)
  <2>1. relay'[r] = g /\ \A q \in Relays \ {r} : relay'[q] = relay[q]
    BY <1>0 DEF Touch
  <2> QED BY <1>0, <1>1, <2>1, BadgePendingStep
<1>3. BadgePending(relay, sps, c) \in Nat /\ BadgeCharge(relay[r], sps[relay[r].obj], c) \in Nat
        /\ BadgeCharge(g, sps'[g.obj], c) \in Nat
  BY <1>0, PendingFacts
<1>4. BadgePending(relay, sps, c) <= Counter(badgeUsed, c)
  BY DEF BadgeSums
<1>5. Counter(badgeUsed', c) + BadgeCharge(relay[r], sps[relay[r].obj], c)
        >= Counter(badgeUsed, c) + BadgeCharge(g, sps'[g.obj], c)
  BY DEF BadgeMoves
<1> QED BY <1>0, <1>2, <1>3, <1>4, <1>5

\* A step that leaves the counters, and charges nothing or as much as before.
LEMMA BadgeStays ==
    ASSUME Base, BadgeSums, NEW h \in Goroutine, NEW x, NEW g, NEW y,
           \A c \in Counters : Counter(badgeUsed', c) = Counter(badgeUsed, c),
           \A c \in Counters : BadgeCharge(g, y, c) \in {0, BadgeCharge(h, x, c)}
    PROVE  BadgeMoves(h, x, g, y)
<1> SUFFICES ASSUME NEW c \in Counters
             PROVE  /\ Counter(badgeUsed', c) <= BadgeLimit
                    /\ Counter(badgeUsed', c) + BadgeCharge(h, x, c) >= Counter(badgeUsed, c) + BadgeCharge(g, y, c)
  BY DEF BadgeMoves
<1>1. Counter(badgeUsed, c) \in Nat /\ Counter(badgeUsed, c) <= BadgeLimit
  BY CounterNat DEF Base, Shared, BadgeSums
<1>2. BadgeCharge(h, x, c) \in Nat
  <2>1. h.add \in Nat
    BY WordFacts DEF Goroutine
  <2> QED BY <2>1 DEF BadgeCharge
<1> QED BY <1>1, <1>2

\* What the step does to the amounts session o covers.
KeepsCover(r, g, o) ==
    \A c \in Nat :
        /\ o \in 1..Len(sps) /\ c <= sps[o].CuSum
        /\ relay[r].pc \in Counted => c + relay[r].add <= sps[o].CuSum
        => c <= sps'[o].CuSum /\ (g.pc \in Counted => c + g.add <= sps'[o].CuSum)

\* The sessions still cover the proofs.
LEMMA CoversStep ==
    ASSUME Base, Locks, NEW r \in Relays, NEW g, NEW o, Touch(r, g, o), KeepsCover(r, g, o),
           NEW c \in Nat, NEW p \in 1..Len(sps), Covers(c, p, relay, sps)
    PROVE  Covers(c, p, relay', sps') /\ sps'[p].key = sps[p].key /\ p \in 1..Len(sps')
<1>0. p \in 1..Len(sps') /\ sps'[p].key = sps[p].key
  BY DEF Touch, SessionsStay
<1>1. Counted \subseteq Holding
  BY DEF Counted, Holding
<1>2. CASE p = o
  <2>1. c <= sps'[o].CuSum /\ (g.pc \in Counted => c + g.add <= sps'[o].CuSum)
    <3>1. relay[r].pc \in Counted => c + relay[r].add <= sps[o].CuSum
      BY <1>1, <1>2 DEF Covers, Touch
    <3>2. c <= sps[o].CuSum
      BY <1>2 DEF Covers
    <3> QED BY <1>2, <3>1, <3>2 DEF KeepsCover
  <2>2. ASSUME NEW q \in Relays, relay'[q].pc \in Counted, relay'[q].obj = p
        PROVE  c + relay'[q].add <= sps'[p].CuSum
    <3>1. CASE q = r
      BY <1>2, <2>1, <2>2, <3>1, OthersStay
    <3>2. CASE q # r
      BY <1>1, <1>2, <2>2, <3>2, OthersStay
    <3> QED BY <3>1, <3>2
  <2> QED BY <1>0, <1>2, <2>1, <2>2 DEF Covers
<1>3. CASE p # o
  <2>1. sps'[p] = sps[p]
    BY <1>0, <1>3 DEF Touch
  <2>2. ASSUME NEW q \in Relays, relay'[q].pc \in Counted, relay'[q].obj = p
        PROVE  c + relay'[q].add <= sps'[p].CuSum
    <3>1. CASE q = r
      <4>0. g.pc \in Holding
        BY <1>1, <2>2, <3>1, OthersStay
      <4>1. g.obj = o
        BY <4>0 DEF Touch
      <4> QED BY <1>3, <2>2, <3>1, <4>1, OthersStay
    <3>2. CASE q # r
      BY <2>1, <2>2, <3>2, OthersStay DEF Covers
    <3> QED BY <3>1, <3>2
  <2> QED BY <1>0, <2>1, <2>2 DEF Covers
<1> QED BY <1>2, <1>3


\* What is covered stays covered.
LEMMA BackedStep ==
    ASSUME Base, Locks, NEW r \in Relays, NEW g, NEW o, Touch(r, g, o), KeepsCover(r, g, o),
           NEW c \in Nat, NEW k, Backed(c, k, relay, sps)
    PROVE  Backed(c, k, relay', sps')
<1>1. PICK p \in 1..Len(sps) : sps[p].key = k /\ Covers(c, p, relay, sps)
  BY DEF Backed
<1>2. Covers(c, p, relay', sps') /\ sps'[p].key = sps[p].key /\ p \in 1..Len(sps')
  BY <1>1, CoversStep
<1> QED BY <1>1, <1>2 DEF Backed

\* The relays that owe a proof, and the stored proofs.
LEMMA RelaysBackedStep ==
    ASSUME Base, Locks, RelaysBacked, NEW r \in Relays, NEW g, NEW o, Touch(r, g, o),
           KeepsCover(r, g, o),
           g.pc \in {"proof", "streaming"} => Backed(g.cu, <<g.epoch, g.id>>, relay', sps')
    PROVE  RelaysBacked'
<1>1. ASSUME NEW q \in Relays, relay'[q].pc \in {"proof", "streaming"}
      PROVE  Backed(relay'[q].cu, <<relay'[q].epoch, relay'[q].id>>, relay', sps')
  <2>1. CASE q = r
    BY <1>1, <2>1, OthersStay
  <2>2. CASE q # r
    <3>1. relay'[q] = relay[q] /\ relay[q].pc \in {"proof", "streaming"}
      BY <1>1, <2>2, OthersStay
    <3>2. relay[q].cu \in Nat
      <4>1. Local(relay[q], sps, past)
        BY DEF Base
      <4>2. relay[q].cu \in CuSums
        BY <3>1, <4>1 DEF Local
      <4> QED BY <4>2, WordFacts
    <3>3. Backed(relay[q].cu, Key(q), relay, sps)
      BY <3>1 DEF RelaysBacked
    <3>4. Backed(relay[q].cu, Key(q), relay', sps')
      BY <3>2, <3>3, BackedStep
    <3> QED BY <3>1, <3>4 DEF Key
  <2> QED BY <2>1, <2>2
<1> QED BY <1>1 DEF RelaysBacked, Key

\* The proofs on their way are still backed.
LEMMA ProofsBackedStep ==
    ASSUME Base, Locks, ProofsBacked, NEW r \in Relays, NEW g, NEW o, Touch(r, g, o),
           KeepsCover(r, g, o), proofs' = proofs
    PROVE  ProofsBacked'
<1>1. ASSUME NEW k \in Keys PROVE proofs'[k] \in RestoredCus \/ Backed(proofs'[k], k, relay', sps')
  <2>1. proofs[k] \in CuSums \cup RestoredCus
    BY DEF Base, Shared
  <2>2. proofs[k] \in Nat
    BY <2>1, WordFacts
  <2> QED BY <2>2, BackedStep DEF ProofsBacked
<1> QED BY <1>1 DEF ProofsBacked
-----------------------------------------------------------------------------
\* Arithmetic on words that does not wrap around.
LEMMA NoWrap ==
    /\ Limit \in Nat /\ BadgeLimit \in Nat
    /\ \A a, b \in Nat : "wrapped" \notin Overflow(a + b) => Plus(a, b) = a + b
    /\ \A a, b \in Nat : a + b \in Words => Plus(a, b) = a + b
    /\ \A a, b \in Nat : a \in Words /\ b <= a => Minus(a, b) = a - b
<1>0. Word \in Nat \ {0} /\ MaxComputeUnits \in Nat /\ BadgeComputeUnits \in Nat /\ VirtualEpoch \in Nat
  BY CuAssumption
<1>1. Limit \in Nat
  BY <1>0 DEF Limit
<1>2. BadgeLimit \in Nat
  <2>1. Min({MaxComputeUnits, BadgeComputeUnits}) \in Nat
    BY <1>0 DEF Min
  <2> HIDE DEF Min
  <2>2. Min({MaxComputeUnits, BadgeComputeUnits}) * (VirtualEpoch + 1) \in Nat
    BY <1>0, <2>1
  <2> QED BY <1>0, <2>2 DEF BadgeLimit
<1>3. ASSUME NEW a \in Nat, NEW b \in Nat, "wrapped" \notin Overflow(a + b) PROVE Plus(a, b) = a + b
  <2>1. a + b \in Nat
    OBVIOUS
  <2>2. (a + b) % Word = a + b
    BY <1>3, <2>1, Fits
  <2> QED BY <2>2 DEF Plus
<1>5. \A a, b \in Nat : a + b \in Words => Plus(a, b) = a + b
  BY WordFacts DEF Plus
<1>6. ASSUME NEW a \in Nat, NEW b \in Nat, a \in Words, b <= a PROVE Minus(a, b) = a - b
  <2>1. a - b \in Words
    BY <1>0, <1>6 DEF Words
  <2> QED BY <2>1, WordFacts DEF Minus
<1> QED BY <1>1, <1>2, <1>3, <1>5, <1>6

\* The sums of the accounts are natural numbers.
LEMMA CountersNat ==
    ASSUME Base
    PROVE  /\ sps \in Seq(SingleProviderSession) /\ 0 \notin 1..Len(sps) /\ SessionsStay(sps, sps)
           /\ \A e \in RequestEpochs : used[e] \in Words /\ used[e] \in Nat
<1>1. sps \in Seq(SingleProviderSession) /\ SessionsStay(sps, sps)
  BY DEF Base, Shared, SessionsStay
<1>2. Len(sps) \in Nat
  BY <1>1
<1>3. \A e \in RequestEpochs : used[e] \in Words
  BY DEF Base, Shared
<1>4. \A e \in RequestEpochs : used[e] \in Nat
  BY <1>3 DEF Words
<1>5. 0 \notin 1..Len(sps)
  BY <1>2
<1> QED BY <1>1, <1>3, <1>4, <1>5

\* A step outside of the sessions that leaves the counters alone.
LEMMA SoundQuiet ==
    ASSUME Base, Base', Locks, SoundInv, NEW r \in Relays, NEW g, relay' = [relay EXCEPT ![r] = g],
           relay[r].pc \notin Holding, g.pc \notin Holding,
           UNCHANGED <<sps, used, proofs>>,
           \A c \in Counters : Counter(badgeUsed', c) = Counter(badgeUsed, c),
           g.pc \in {"proof", "streaming"} =>
             relay[r].pc \in {"proof", "streaming"} /\ SameRequest(g, relay[r])
    PROVE  SoundInv'
<1>0. /\ sps \in Seq(SingleProviderSession) /\ 0 \notin 1..Len(sps) /\ SessionsStay(sps, sps)
      /\ \A e \in RequestEpochs : used[e] \in Nat
  BY CountersNat
<1>1. Touch(r, g, 0)
  BY <1>0 DEF Touch
<1>2. \A e : /\ Charge(g, e) = 0 /\ Charge(relay[r], e) = 0
             /\ \A x : BadgeCharge(g, x, e) = 0 /\ BadgeCharge(relay[r], x, e) = 0
  BY DEF Charge, BadgeCharge, Holding, Counted
<1>3. KeepsCover(r, g, 0)
  BY <1>0 DEF KeepsCover
<1>4. Accounts'
  BY <1>1, AccountsStep DEF SoundInv
<1>5. UsedSums'
  <2>1. \A e \in RequestEpochs : used'[e] <= Limit
    BY DEF SoundInv, UsedSums
  <2>2. \A e \in RequestEpochs :
          used'[e] = used[e] + (IF 0 \in 1..Len(sps) THEN CuOf(sps'[0], e) - CuOf(sps[0], e) ELSE 0)
                       + (Charge(g, e) - Charge(relay[r], e))
    BY <1>0, <1>2
  <2> QED BY <1>1, <2>1, <2>2, UsedStep DEF SoundInv
<1>6. BadgeSums'
  <2>1. relay[r] \in Goroutine /\ BadgeSums
    BY DEF Base, SoundInv
  <2>2. BadgeMoves(relay[r], sps[relay[r].obj], g, sps'[g.obj])
    BY <1>2, <2>1, BadgeStays
  <2> QED BY <1>1, <2>1, <2>2, BadgeStep
<1>7. RelaysBacked'
  <2>1. ASSUME g.pc \in {"proof", "streaming"} PROVE Backed(g.cu, <<g.epoch, g.id>>, relay', sps')
    <3>1. Backed(relay[r].cu, Key(r), relay, sps)
      BY <2>1 DEF SoundInv, RelaysBacked
    <3>2. relay[r].cu \in Nat
      <4>1. Local(relay[r], sps, past) /\ relay[r].pc # "idle"
        BY <2>1 DEF Base
      <4>2. relay[r].cu \in CuSums
        BY <4>1 DEF Local
      <4> QED BY <4>2, WordFacts
    <3>3. Backed(relay[r].cu, Key(r), relay', sps')
      BY <1>1, <1>3, <3>1, <3>2, BackedStep
    <3> QED BY <2>1, <3>3 DEF SameRequest, Key
  <2> QED BY <1>1, <1>3, <2>1, RelaysBackedStep DEF SoundInv
<1>8. ProofsBacked'
  BY <1>1, <1>3, ProofsBackedStep DEF SoundInv
<1> QED BY <1>4, <1>5, <1>6, <1>7, <1>8 DEF SoundInv

\* A step of a relay that has a session: the session becomes y, the used CU of the
\* parent become u.
HoldStep(r, g, y, u) ==
    /\ relay' = [relay EXCEPT ![r] = g]
    /\ y \in SingleProviderSession /\ y.key = Session(r).key
    /\ sps' = [sps EXCEPT ![relay[r].obj] = y] \/ (sps' = sps /\ y = Session(r))
    /\ g.pc \in Holding \cup {"proof", "streaming"} => SameRequest(g, relay[r])
    /\ g.pc \in Holding => Account(g, y)
    /\ u \in Int /\ u <= Limit
    /\ u = used[relay[r].epoch] + (y.CuSum - Session(r).CuSum)
             + (Charge(g, relay[r].epoch) - Charge(relay[r], relay[r].epoch))
    /\ \A e \in RequestEpochs : used'[e] = IF e = relay[r].epoch THEN u ELSE used[e]
    /\ BadgeMoves(relay[r], Session(r), g, y)
    /\ \A c \in Nat : /\ c <= Session(r).CuSum
                      /\ relay[r].pc \in Counted => c + relay[r].add <= Session(r).CuSum
                      => c <= y.CuSum /\ (g.pc \in Counted => c + g.add <= y.CuSum)
    /\ g.pc \in {"proof", "streaming"} => g.cu <= y.CuSum
    /\ proofs' = proofs

\* A step of a goroutine that holds its session.
LEMMA SoundHold ==
    ASSUME Base, Base', Locks, SoundInv, NEW r \in Relays, relay[r].pc \in Holding,
           NEW g, NEW y, NEW u, HoldStep(r, g, y, u)
    PROVE  SoundInv'
<1> USE DEF HoldStep
<1> DEFINE o == relay[r].obj
           f == relay[r].epoch
           x == Session(r)
<1>0. /\ o \in 1..Len(sps) /\ x \in SingleProviderSession /\ x = sps[o] /\ x.lock = r
      /\ f \in RequestEpochs /\ x.key = Key(r) /\ x.key[1] = f /\ y.key[1] = f
      /\ relay[r].pc # "idle" /\ sps \in Seq(SingleProviderSession)
      /\ x.CuSum \in Nat /\ y.CuSum \in Nat
      /\ \A e \in RequestEpochs : used[e] \in Nat
  <2>1. o \in 1..Len(sps) /\ x \in SingleProviderSession /\ x.key = Key(r) /\ f \in RequestEpochs
    BY HasObject DEF WithSession
  <2>2. x.key[1] = f /\ y.key[1] = f
    BY <2>1 DEF Key
  <2>3. x.lock = r
    BY HoldsOwn
  <2> QED BY <2>1, <2>2, <2>3, CountersNat, ObjectNumbers DEF Session, Holding
<1>1. /\ SessionsStay(sps, sps') /\ Len(sps') = Len(sps) /\ sps'[o] = y
      /\ \A p \in 1..Len(sps) \ {o} : sps'[p] = sps[p]
  <2>1. CASE sps' = sps /\ y = x
    BY <1>0, <2>1, CountersNat
  <2>2. CASE sps' = [sps EXCEPT ![o] = y]
    <3>1. SessionsStay(sps, sps') /\ Len(sps') = Len(sps)
      BY <2>2, ObjectStays DEF WithSession
    <3>2. sps'[o] = y /\ \A p \in 1..Len(sps) \ {o} : sps'[p] = sps[p]
      BY <1>0, <2>2, ChangeObject
    <3> QED BY <3>1, <3>2
  <2> QED BY <2>1, <2>2
<1>2. g.pc \in Holding \cup {"proof", "streaming"} => g.obj = o /\ g.epoch = f
  BY DEF SameRequest
<1>3. Touch(r, g, o)
  <2>1. \A p \in 1..Len(sps') \ {o} : p \in 1..Len(sps) /\ sps'[p] = sps[p]
    BY <1>1
  <2>2. o \in 1..Len(sps') /\ sps[o].lock = r
    BY <1>0, <1>1
  <2> HIDE DEF o
  <2> QED BY <1>0, <1>1, <1>2, <2>1, <2>2 DEF Touch, o
<1> HIDE DEF o, x, f
<1>4. KeepsCover(r, g, o)
  BY <1>0, <1>1 DEF KeepsCover, x
<1>5. Accounts'
  BY <1>1, <1>3, AccountsStep DEF SoundInv
<1>6. \A e \in RequestEpochs \ {f} :
        CuOf(x, e) = 0 /\ CuOf(y, e) = 0 /\ Charge(g, e) = 0 /\ Charge(relay[r], e) = 0
  BY <1>0, <1>2 DEF CuOf, Charge, Holding, f
<1>7. UsedSums'
  <2>0. CuOf(x, f) = x.CuSum /\ CuOf(y, f) = y.CuSum
    BY <1>0 DEF CuOf
  <2>1. \A e \in RequestEpochs : used'[e] <= Limit
    BY DEF SoundInv, UsedSums
  <2>2. ASSUME NEW e \in RequestEpochs
        PROVE  used'[e] = used[e] + (CuOf(y, e) - CuOf(x, e)) + (Charge(g, e) - Charge(relay[r], e))
    <3>1. CASE e = f
      BY <1>0, <2>0, <3>1 DEF f, x
    <3>2. CASE e # f
      BY <1>0, <1>6, <3>2 DEF f
    <3> QED BY <3>1, <3>2
  <2>3. \A e \in RequestEpochs :
          used'[e] = used[e] + (IF o \in 1..Len(sps) THEN CuOf(sps'[o], e) - CuOf(sps[o], e) ELSE 0)
                       + (Charge(g, e) - Charge(relay[r], e))
    BY <1>0, <1>1, <2>2
  <2> QED BY <1>3, <2>1, <2>3, UsedStep DEF SoundInv
<1>8. BadgeSums'
  <2>0. \A c : BadgeCharge(g, sps'[g.obj], c) = BadgeCharge(g, y, c)
    BY <1>1, <1>2 DEF BadgeCharge, Holding, Counted
  <2>1. BadgeMoves(relay[r], sps[relay[r].obj], g, sps'[g.obj])
    BY <1>0, <2>0 DEF BadgeMoves, o, x
  <2> QED BY <1>3, <2>1, BadgeStep DEF SoundInv
<1>9. RelaysBacked'
  <2>1. ASSUME g.pc \in {"proof", "streaming"} PROVE Backed(g.cu, <<g.epoch, g.id>>, relay', sps')
    <3>1. <<g.epoch, g.id>> = y.key /\ g.cu <= y.CuSum /\ g.pc \notin Holding
      BY <1>0, <2>1 DEF SameRequest, Key, x, Holding
    <3>2. ASSUME NEW q \in Relays, relay'[q].pc \in Counted, relay'[q].obj = o PROVE FALSE
      <4>1. q # r /\ relay'[q] = relay[q] /\ relay[q].pc \in Holding
        BY <1>3, <3>1, <3>2, OthersStay DEF Counted, Holding
      <4> QED BY <1>3, <3>2, <4>1, OthersStay
    <3>3. Covers(g.cu, o, relay', sps')
      BY <1>1, <3>1, <3>2 DEF Covers
    <3> QED BY <1>0, <1>1, <3>1, <3>3 DEF Backed
  <2> QED BY <1>3, <1>4, <2>1, RelaysBackedStep DEF SoundInv
<1>10. ProofsBacked'
  BY <1>3, <1>4, ProofsBackedStep DEF SoundInv
<1> QED BY <1>5, <1>7, <1>8, <1>9, <1>10 DEF SoundInv

\* What is known of a relay that has a session.
LEMMA HoldFacts ==
    ASSUME Base, Locks, SoundInv, NEW r \in Relays, relay[r].pc \in Holding
    PROVE  /\ relay[r].obj \in 1..Len(sps) /\ Session(r) = sps[relay[r].obj]
           /\ Session(r) \in SingleProviderSession /\ relay[r].epoch \in RequestEpochs
           /\ Session(r).lock = r /\ r # Free
           /\ relay[r].pc \in Fresh => Session(r).LatestRelayCu = 0
           /\ Account(relay[r], Session(r))
           /\ Session(r).CuSum \in Nat /\ Session(r).LatestRelayCu \in Nat /\ Session(r).CuSum \in Words
           /\ relay[r].cu \in CuSums /\ relay[r].cu \in Nat
           /\ relay[r].total \in Nat /\ relay[r].add \in Nat /\ relay[r].old \in Nat
           /\ relay[r].total \in Words
           /\ used[relay[r].epoch] \in Nat /\ used[relay[r].epoch] \in Words
           /\ used[relay[r].epoch] <= Limit /\ Session(r).CuSum <= used[relay[r].epoch]
<1>1. /\ relay[r].obj \in 1..Len(sps) /\ Session(r) = sps[relay[r].obj]
      /\ Session(r) \in SingleProviderSession /\ relay[r].epoch \in RequestEpochs
      /\ Session(r).key = Key(r)
  BY HasObject DEF WithSession, Session
<1>2. /\ Session(r).lock = r /\ r # Free
      /\ relay[r].pc \in Fresh => Session(r).LatestRelayCu = 0
  BY HoldsOwn
<1>3. Account(relay[r], Session(r))
  BY DEF SoundInv, Accounts, Session
<1>4. Session(r).CuSum \in Nat /\ Session(r).LatestRelayCu \in Nat /\ Session(r).CuSum \in Words
  BY <1>1, ObjectNumbers DEF SingleProviderSession
<1>5. relay[r].cu \in CuSums /\ relay[r].cu \in Nat
  <2>1. Local(relay[r], sps, past) /\ relay[r].pc # "idle"
    BY DEF Base, Holding
  <2>2. relay[r].cu \in CuSums
    BY <2>1 DEF Local
  <2> QED BY <2>2, WordFacts
<1>6. relay[r] \in Goroutine /\ relay \in [Relays -> Goroutine]
  BY DEF Base
<1>7. relay[r].total \in Words /\ relay[r].add \in Words /\ relay[r].old \in Words
  BY <1>6 DEF Goroutine
<1>8. relay[r].total \in Nat /\ relay[r].add \in Nat /\ relay[r].old \in Nat
  BY <1>7, WordFacts
<1> DEFINE f == relay[r].epoch
<1>9. used[f] \in Nat /\ used[f] \in Words
  BY <1>1, CountersNat
<1>10. used[f] <= Limit /\ used[f] = Total(sps, f) + Pending(relay, f)
  BY <1>1 DEF SoundInv, UsedSums
<1>11. Session(r).CuSum <= used[f]
  <2>1. sps \in Seq(SingleProviderSession) /\ Session(r).key[1] = f
    BY <1>1, CountersNat DEF Key
  <2>2. Session(r).CuSum <= Total(sps, f) /\ Total(sps, f) \in Nat /\ Pending(relay, f) \in Nat
    BY <1>1, <1>6, <2>1, TotalFacts, PendingFacts
  <2> QED BY <1>4, <1>10, <2>2
<1> QED BY <1>1, <1>2, <1>3, <1>4, <1>5, <1>7, <1>8, <1>9, <1>10, <1>11

\* The counter of a session with a badge: it has what its relay charged to it.
LEMMA BadgeFacts ==
    ASSUME Base, Pointers, Locks, SoundInv, NEW r \in Relays, relay[r].pc \in Holding,
           Session(r).badge # 0
    PROVE  /\ Session(r).badge \in 1..Len(badgeUsed) /\ Session(r).badge \in Counters
           /\ badgeUsed[Session(r).badge] \in Nat /\ badgeUsed[Session(r).badge] \in Words
           /\ badgeUsed[Session(r).badge] <= BadgeLimit
           /\ relay[r].pc \in Counted => relay[r].add <= badgeUsed[Session(r).badge]
<1> DEFINE c == Session(r).badge
<1>1. /\ relay[r].obj \in 1..Len(sps) /\ Session(r) = sps[relay[r].obj] /\ Session(r) \in SingleProviderSession
      /\ badgeUsed \in Seq(Words) /\ relay \in [Relays -> Goroutine] /\ relay[r].add \in Nat
  BY HoldFacts DEF Base, Shared
<1>2. c \in Nat /\ c <= Len(badgeUsed)
  BY <1>1 DEF Pointers, SingleProviderSession
<1>3. c \in 1..Len(badgeUsed) /\ c \in Counters
  BY <1>1, <1>2 DEF Counters
<1>4. badgeUsed[c] \in Words /\ badgeUsed[c] \in Nat
  <2>1. Words \subseteq Nat
    BY WordFacts
  <2>2. badgeUsed[c] \in Words
    BY <1>1, <1>3
  <2> QED BY <2>1, <2>2
<1>5. BadgePending(relay, sps, c) <= badgeUsed[c] /\ badgeUsed[c] <= BadgeLimit
  BY <1>3 DEF SoundInv, BadgeSums, Counter
<1>6. ASSUME relay[r].pc \in Counted PROVE relay[r].add <= badgeUsed[c]
  <2>1. BadgeCharge(relay[r], sps[relay[r].obj], c) = relay[r].add
    BY <1>1, <1>6 DEF BadgeCharge
  <2>2. /\ BadgeCharge(relay[r], sps[relay[r].obj], c) <= BadgePending(relay, sps, c)
        /\ BadgePending(relay, sps, c) \in Nat
    BY <1>1, PendingFacts
  <2> QED BY <1>1, <1>4, <1>5, <2>1, <2>2
<1> QED BY <1>3, <1>4, <1>5, <1>6

\* The badge's counters, when that of a session is set to w.
LEMMA BadgeChange ==
    ASSUME Base, SoundInv, NEW h \in Goroutine, NEW x, x.badge \in 1..Len(badgeUsed), NEW g, NEW y,
           NEW w \in Words, w <= BadgeLimit,
           badgeUsed' = [badgeUsed EXCEPT ![x.badge] = w],
           y.badge = x.badge \/ g.pc \notin {"apply", "write"} \cup Counted, g.add \in Nat,
           w + BadgeCharge(h, x, x.badge) >= badgeUsed[x.badge] + BadgeCharge(g, y, x.badge)
    PROVE  BadgeMoves(h, x, g, y)
<1>0. badgeUsed \in Seq(Words) /\ h.add \in Nat
  BY WordFacts DEF Base, Shared, Goroutine
<1>1. /\ Len(badgeUsed') = Len(badgeUsed) /\ badgeUsed'[x.badge] = w
      /\ \A c \in 1..Len(badgeUsed) \ {x.badge} : badgeUsed'[c] = badgeUsed[c]
  BY <1>0, ChangeObject
<1> SUFFICES ASSUME NEW c \in Counters
             PROVE  /\ Counter(badgeUsed', c) <= BadgeLimit
                    /\ Counter(badgeUsed', c) + BadgeCharge(h, x, c) >= Counter(badgeUsed, c) + BadgeCharge(g, y, c)
  BY DEF BadgeMoves
<1>2. CASE c = x.badge
  BY <1>1, <1>2 DEF Counter
<1>3. CASE c # x.badge
  <2>1. Counter(badgeUsed', c) = Counter(badgeUsed, c)
    BY <1>1, <1>3 DEF Counter
  <2>2. Counter(badgeUsed, c) \in Nat /\ Counter(badgeUsed, c) <= BadgeLimit
    BY <1>0, CounterNat DEF SoundInv, BadgeSums
  <2>3. BadgeCharge(g, y, c) = 0 /\ BadgeCharge(h, x, c) = 0
    BY <1>3 DEF BadgeCharge
  <2> QED BY <2>1, <2>2, <2>3
<1> QED BY <1>2, <1>3

\* A step of such a relay that leaves the session and the counters alone.
LEMMA SoundStays ==
    ASSUME Base, Base', Locks, SoundInv, NEW r \in Relays, relay[r].pc \in Holding,
           NEW g, relay' = [relay EXCEPT ![r] = g], g.pc \in Holding, SameRequest(g, relay[r]),
           Account(g, Session(r)), g.pc \in Counted <=> relay[r].pc \in Counted,
           g.pc \in Counted => g.add = relay[r].add,
           {g.pc, relay[r].pc} \cap {"badge", "apply", "write"} = {},
           UNCHANGED <<sps, used, badgeUsed, proofs>>
    PROVE  SoundInv'
<1> DEFINE f == relay[r].epoch
           x == Session(r)
<1>1. /\ x \in SingleProviderSession /\ f \in RequestEpochs /\ x.CuSum \in Nat
      /\ used[f] \in Nat /\ used[f] <= Limit
  BY HoldFacts
<1>2. Charge(g, f) = 0 /\ Charge(relay[r], f) = 0
  BY DEF Charge
<1>3. g.pc \notin {"proof", "streaming"}
  BY DEF Holding
<1>4. used[f] = used[f] + (x.CuSum - x.CuSum) + (Charge(g, f) - Charge(relay[r], f))
  BY <1>1, <1>2
<1>5. BadgeMoves(relay[r], x, g, x)
  <2>1. \A c : BadgeCharge(g, x, c) = BadgeCharge(relay[r], x, c)
    BY DEF BadgeCharge
  <2>2. relay[r] \in Goroutine /\ BadgeSums
    BY DEF Base, SoundInv
  <2> QED BY <2>1, <2>2, BadgeStays
<1>6. \A e \in RequestEpochs : used'[e] = IF e = f THEN used[f] ELSE used[e]
  OBVIOUS
<1>7. \A c \in Nat : /\ c <= x.CuSum /\ (relay[r].pc \in Counted => c + relay[r].add <= x.CuSum)
                     => c <= x.CuSum /\ (g.pc \in Counted => c + g.add <= x.CuSum)
  OBVIOUS
<1>8. x.key = Session(r).key /\ sps' = sps /\ x = Session(r) /\ proofs' = proofs
  OBVIOUS
<1>9. used[f] \in Int
  BY <1>1
<1> HIDE DEF f, x
<1>10. HoldStep(r, g, x, used[f])
  BY <1>1, <1>3, <1>4, <1>5, <1>6, <1>7, <1>8, <1>9 DEF HoldStep, f, x
<1> QED BY <1>10, SoundHold

\* The relays that prepare their session.
LEMMA SoundPrepare ==
    ASSUME Base, Base', Pointers, Locks, SoundInv, NEW r \in Relays, Prepare(r),
           past' \cap {"early", "wrapped"} = {}
    PROVE  SoundInv'
<1> DEFINE f == relay[r].epoch
           x == Session(r)
           o == relay[r].obj
<1>0. relay[r].pc \in Holding /\ proofs' = proofs
  BY DEF Prepare, CannotPrepare, PrepareSessionForUsage, ReadMissing, AddMissing, validateAndAddUsedCU,
         validateAndAddBadgeUsedCU, ReadCuSum, WriteCuSum, DisbandSession, At, Holding
<1>1. /\ o \in 1..Len(sps) /\ x = sps[o] /\ x \in SingleProviderSession /\ f \in RequestEpochs
      /\ Account(relay[r], x) /\ (relay[r].pc \in Fresh => x.LatestRelayCu = 0)
  BY <1>0, HoldFacts
<1>2. /\ x.CuSum \in Nat /\ x.CuSum \in Words
      /\ relay[r].cu \in CuSums /\ relay[r].cu \in Nat
      /\ relay[r].total \in Nat /\ relay[r].add \in Nat /\ relay[r].old \in Nat /\ relay[r].total \in Words
      /\ used[f] \in Nat /\ used[f] <= Limit
      /\ x.CuSum <= used[f]
  BY <1>0, HoldFacts
<1>3. relay[r] \in Goroutine /\ relay \in [Relays -> Goroutine] /\ Limit \in Nat /\ BadgeLimit \in Nat
        /\ used \in [RequestEpochs -> Words] /\ badgeUsed \in Seq(Words) /\ BadgeSums
  BY NoWrap DEF Base, Shared, SoundInv
<1>4. ASSUME NEW pc \in Steps \cap Holding, Goto(r, pc), UNCHANGED <<sps, used, badgeUsed>>,
             {pc, relay[r].pc} \cap ({"badge", "apply", "write"} \cup Counted) = {},
             pc \in {"missing", "missed", "charge"} => relay[r].pc \in {"missing", "missed", "charge"}
      PROVE  SoundInv'
  <2>1. PICK g : relay' = [relay EXCEPT ![r] = g] /\ g.pc = pc /\ Kept(g, relay[r])
    BY <1>4, GotoKeeps DEF Holding
  <2>2. Account(g, x)
    BY <1>1, <1>4, <2>1 DEF Account, Kept, SameRequest, Counted
  <2> QED BY <1>0, <1>4, <2>1, <2>2, SoundStays DEF Kept
<1>5. CASE CannotPrepare(r)
  BY <1>4, <1>5 DEF CannotPrepare, At, Steps, Holding, Counted, counters, badges
<1>6. CASE PrepareSessionForUsage(r)
  <2> DEFINE cu == relay[r].cu
             sum == x.CuSum
             paid == [relay[r] EXCEPT !.pc = "charge", !.total = cu]
             part == [relay[r] EXCEPT !.pc = "missing", !.total = cu, !.add = Minus(Plus(CuFromSpec, sum), cu)]
             none == [relay[r] EXCEPT !.pc = "missing", !.total = sum, !.add = CuFromSpec]
  <2>1. relay' = [relay EXCEPT ![r] = IF cu >= Plus(sum, CuFromSpec) THEN paid
                                      ELSE IF cu > sum THEN part ELSE none]
    BY <1>6 DEF PrepareSessionForUsage
  <2>2. Plus(sum, CuFromSpec) = sum + CuFromSpec /\ CuFromSpec \in Nat
    <3>1. "wrapped" \notin Overflow(sum + CuFromSpec)
      BY <1>6 DEF PrepareSessionForUsage
    <3>2. sum \in Nat /\ CuFromSpec \in Nat
      BY <1>2, CuAssumption
    <3> HIDE DEF sum
    <3> QED BY <3>1, <3>2, NoWrap
  <2>3. /\ SameRequest(paid, relay[r]) /\ paid.pc = "charge" /\ paid.total = cu /\ paid.cu = cu
        /\ SameRequest(part, relay[r]) /\ part.pc = "missing" /\ part.total = cu /\ part.cu = cu
        /\ SameRequest(none, relay[r]) /\ none.pc = "missing" /\ none.total = sum /\ none.cu = cu
    BY <1>3 DEF Goroutine, SameRequest
  <2>4. relay[r].pc = "prepare" /\ UNCHANGED <<sps, used, badgeUsed>>
    BY <1>6 DEF PrepareSessionForUsage, At, counters, badges
  <2>5. cu \in Nat /\ sum \in Nat /\ cu \in CuSums /\ sum = x.CuSum
    BY <1>2
  <2> HIDE DEF cu, sum, paid, part, none
  <2>6. ASSUME NEW g, relay' = [relay EXCEPT ![r] = g], SameRequest(g, relay[r]),
               g.pc \in {"charge", "missing"}, g.total >= sum, g.total >= g.cu
        PROVE  SoundInv'
    <3>1. Account(g, x)
      BY <2>5, <2>6 DEF Account, Counted
    <3> QED BY <1>0, <2>4, <2>6, <3>1, SoundStays DEF Holding, Counted
  <2>7. CASE cu >= Plus(sum, CuFromSpec)
    <3>1. relay' = [relay EXCEPT ![r] = paid]
      BY <2>1, <2>7
    <3>2. paid.total >= sum /\ paid.total >= paid.cu
      BY <2>2, <2>3, <2>5, <2>7
    <3> QED BY <2>3, <2>5, <2>6, <3>1, <3>2
  <2>8. CASE ~ (cu >= Plus(sum, CuFromSpec)) /\ cu > sum
    <3>1. relay' = [relay EXCEPT ![r] = part]
      BY <2>1, <2>8
    <3>2. part.total >= sum /\ part.total >= part.cu
      BY <2>3, <2>5, <2>8
    <3> QED BY <2>3, <2>5, <2>6, <3>1, <3>2
  <2>9. CASE ~ (cu >= Plus(sum, CuFromSpec)) /\ ~ (cu > sum)
    <3>1. relay' = [relay EXCEPT ![r] = none]
      BY <2>1, <2>9
    <3>2. none.total >= sum /\ none.total >= none.cu
      BY <2>3, <2>5, <2>9
    <3> QED BY <2>3, <2>5, <2>6, <3>1, <3>2
  <2> QED BY <2>7, <2>8, <2>9
<1>7. CASE ReadMissing(r)
  <2> DEFINE g == [relay[r] EXCEPT !.pc = "missed", !.old = missing[f]]
  <2>1. UNCHANGED <<sps, used, badgeUsed>> /\ relay[r].pc = "missing"
    BY <1>7 DEF ReadMissing, At, counters, badges
  <2>2. CASE Goto(r, "disband")
    BY <1>4, <2>1, <2>2 DEF Steps, Holding, Counted
  <2>3. CASE ~ Goto(r, "disband")
    <3>1. relay' = [relay EXCEPT ![r] = g]
      BY <1>3, <1>7, <2>3 DEF ReadMissing
    <3>2. g.pc = "missed" /\ SameRequest(g, relay[r]) /\ g.total = relay[r].total
      BY <1>3 DEF Goroutine, SameRequest
    <3> HIDE DEF g
    <3>3. Account(g, x)
      BY <1>1, <2>1, <3>2 DEF Account, SameRequest, Counted
    <3> QED BY <1>0, <2>1, <3>1, <3>2, <3>3, SoundStays DEF Holding, Counted
  <2> QED BY <2>2, <2>3
<1>8. CASE AddMissing(r)
  BY <1>4, <1>8 DEF AddMissing, At, Steps, Holding, Counted, badges
<1>9. CASE validateAndAddUsedCU(r)
  <2> DEFINE cuToAdd == Minus(relay[r].total, x.CuSum)
             g == [relay[r] EXCEPT !.add = cuToAdd, !.pc = IF x.badge # 0 THEN "badge" ELSE "apply"]
  <2>1. UNCHANGED <<sps, badgeUsed>> /\ relay[r].pc = "charge"
    BY <1>9 DEF validateAndAddUsedCU, At, badges
  <2>2. CASE Goto(r, "disband") /\ UNCHANGED used
    BY <1>4, <2>1, <2>2 DEF Steps, Holding, Counted
  <2>3. CASE ~ (Goto(r, "disband") /\ UNCHANGED used)
    <3>1. /\ relay' = [relay EXCEPT ![r] = g] /\ used' = [used EXCEPT ![f] = Plus(@, cuToAdd)]
          /\ ~ (Plus(used[f], cuToAdd) > Limit) /\ "wrapped" \notin Overflow(used[f] + cuToAdd)
      BY <1>3, <1>9, <2>3 DEF validateAndAddUsedCU
    <3>2. relay[r].total >= x.CuSum /\ relay[r].total >= relay[r].cu
      BY <1>1, <2>1 DEF Account
    <3>3. cuToAdd = relay[r].total - x.CuSum
      BY <1>2, <3>2, NoWrap
    <3>4. cuToAdd \in Nat /\ x.CuSum + cuToAdd = relay[r].total /\ cuToAdd <= relay[r].total
      BY <1>2, <3>2, <3>3
    <3>5. Plus(used[f], cuToAdd) = used[f] + cuToAdd
      BY <1>2, <3>1, <3>4, NoWrap
    <3>6. /\ g.add = cuToAdd /\ g.pc = (IF x.badge # 0 THEN "badge" ELSE "apply")
          /\ SameRequest(g, relay[r]) /\ g.total = relay[r].total
      BY <1>3 DEF Goroutine, SameRequest
    <3> DEFINE u == used[f] + cuToAdd
    <3>7. u \in Int /\ u <= Limit /\ \A e \in RequestEpochs : used'[e] = IF e = f THEN u ELSE used[e]
      BY <1>1, <1>2, <1>3, <3>1, <3>4, <3>5
    <3> HIDE DEF g, cuToAdd
    <3>8. Account(g, x)
      BY <3>2, <3>4, <3>6 DEF Account, SameRequest, Counted
    <3>9. Charge(g, f) = cuToAdd /\ Charge(relay[r], f) = 0 /\ g.pc \in {"badge", "apply"}
      BY <2>1, <3>6 DEF Charge, SameRequest
    <3>10. u = used[f] + (x.CuSum - x.CuSum) + (Charge(g, f) - Charge(relay[r], f))
      BY <1>2, <3>4, <3>9
    <3>11. BadgeMoves(relay[r], x, g, x)
      <4>1. \A c \in Counters : BadgeCharge(g, x, c) = 0
        BY <3>6 DEF BadgeCharge, Counted, Counters
      <4> QED BY <1>3, <2>1, <4>1, BadgeStays
    <3>12. g.pc \notin Counted \cup {"proof", "streaming"} /\ relay[r].pc \notin Counted
      BY <2>1, <3>9, SMTT(60) DEF Counted
    <3> HIDE DEF u
    <3>14. HoldStep(r, g, x, u)
      BY <1>0, <1>1, <1>2, <2>1, <3>1, <3>6, <3>7, <3>8, <3>10, <3>11, <3>12 DEF HoldStep
    <3> QED BY <1>0, <3>14, SoundHold
  <2> QED BY <2>2, <2>3
<1>10. CASE validateAndAddBadgeUsedCU(r)
  <2> DEFINE c == x.badge
             b == badgeUsed[c] + relay[r].add
  <2>1. UNCHANGED used /\ relay[r].pc = "badge"
    BY <1>10 DEF validateAndAddBadgeUsedCU, At
  <2>2. /\ ~ (Plus(badgeUsed[c], relay[r].add) > BadgeLimit) /\ "wrapped" \notin Overflow(b)
        /\ badgeUsed' = [badgeUsed EXCEPT ![c] = Plus(@, relay[r].add)]
        /\ Goto(r, "apply") /\ UNCHANGED sps
    BY <1>10 DEF validateAndAddBadgeUsedCU
  <2>3. PICK g : relay' = [relay EXCEPT ![r] = g] /\ g.pc = "apply" /\ Kept(g, relay[r])
    BY <2>2, GotoKeeps DEF Steps
  <2>4. x.badge # 0
    BY <1>1, <2>1 DEF Account
  <2>5. c \in 1..Len(badgeUsed) /\ badgeUsed[c] \in Nat
    BY <1>0, <2>4, BadgeFacts
  <2>6. Plus(badgeUsed[c], relay[r].add) = b
    BY <1>2, <2>2, <2>5, NoWrap
  <2>7. b \in Words
    <3>1. badgeUsed[c] \in Words /\ relay[r].add \in Words
      BY <1>3, <2>5 DEF Goroutine
    <3> QED BY <2>6, <3>1, WordOps
  <2>8. Account(g, x)
    BY <1>1, <2>1, <2>3 DEF Account, Kept, SameRequest, Counted
  <2>9. /\ Charge(g, f) = relay[r].add /\ Charge(relay[r], f) = relay[r].add
        /\ BadgeCharge(g, x, c) = relay[r].add /\ BadgeCharge(relay[r], x, c) = 0 /\ g.add = relay[r].add
    BY <2>1, <2>3 DEF Charge, BadgeCharge, Kept, SameRequest, Counted
  <2>10. used[f] = used[f] + (x.CuSum - x.CuSum) + (Charge(g, f) - Charge(relay[r], f)) /\ used[f] \in Int
    BY <1>2, <2>9
  <2>11. BadgeMoves(relay[r], x, g, x)
    <3>1. b <= BadgeLimit /\ badgeUsed' = [badgeUsed EXCEPT ![c] = b]
      BY <1>2, <1>3, <2>2, <2>5, <2>6
    <3>2. b + BadgeCharge(relay[r], x, c) >= badgeUsed[c] + BadgeCharge(g, x, c)
      BY <1>2, <2>5, <2>9
    <3>3. g.add \in Nat
      BY <1>2, <2>9
    <3> HIDE DEF b
    <3> QED BY <1>3, <2>5, <2>7, <3>1, <3>2, <3>3, BadgeChange
  <2>12. g.pc \notin Counted \cup {"proof", "streaming"} /\ relay[r].pc \notin Counted
    BY <2>1, <2>3 DEF Counted
  <2>13. \A e \in RequestEpochs : used'[e] = IF e = f THEN used[f] ELSE used[e]
    BY <2>1
  <2>14. HoldStep(r, g, x, used[f])
    BY <1>0, <1>1, <1>2, <2>2, <2>3, <2>8, <2>10, <2>11, <2>12, <2>13 DEF HoldStep, Kept
  <2> QED BY <1>0, <2>14, SoundHold
<1>11. /\ \A e \in RequestEpochs : used[e] = IF e = f THEN used[f] ELSE used[e]
       /\ used[f] \in Int
  BY <1>2
<1>12. CASE ReadCuSum(r)
  <2> DEFINE y == [x EXCEPT !.LatestRelayCu = relay[r].add]
             g == [relay[r] EXCEPT !.pc = "write", !.old = x.CuSum]
  <2>1. /\ relay' = [relay EXCEPT ![r] = g] /\ sps' = [sps EXCEPT ![o] = y] /\ relay[r].pc = "apply"
        /\ UNCHANGED <<used, badgeUsed>>
    BY <1>3, <1>12 DEF ReadCuSum, Session, At, counters, badges
  <2>2. /\ y \in SingleProviderSession /\ y.key = x.key /\ y.CuSum = x.CuSum /\ y.badge = x.badge
        /\ y.LatestRelayCu = relay[r].add
    BY <1>1, <1>3 DEF Goroutine, SingleProviderSession
  <2>3. /\ g.pc = "write" /\ SameRequest(g, relay[r]) /\ g.old = x.CuSum /\ g.total = relay[r].total
        /\ g.add = relay[r].add
    BY <1>3 DEF Goroutine, SameRequest
  <2> HIDE DEF g, y
  <2>4. Account(g, y)
    BY <1>1, <2>1, <2>2, <2>3 DEF Account, SameRequest, Counted
  <2>5. /\ Charge(g, f) = relay[r].add /\ Charge(relay[r], f) = relay[r].add
        /\ \A c : BadgeCharge(g, y, c) = BadgeCharge(relay[r], x, c)
    BY <2>1, <2>2, <2>3 DEF Charge, BadgeCharge, SameRequest
  <2>6. used[f] = used[f] + (y.CuSum - x.CuSum) + (Charge(g, f) - Charge(relay[r], f))
    BY <1>2, <2>2, <2>5
  <2>7. BadgeMoves(relay[r], x, g, y)
    BY <1>3, <2>1, <2>5, BadgeStays
  <2>8. g.pc \notin Counted \cup {"proof", "streaming"} /\ relay[r].pc \notin Counted
    BY <2>1, <2>3 DEF Counted
  <2>9. HoldStep(r, g, y, used[f])
    BY <1>0, <1>2, <1>11, <2>1, <2>2, <2>3, <2>4, <2>6, <2>7, <2>8 DEF HoldStep
  <2> QED BY <1>0, <2>9, SoundHold
<1>13. CASE WriteCuSum(r)
  <2> DEFINE c == Plus(relay[r].old, relay[r].add)
             y == [x EXCEPT !.CuSum = c]
  <2>1. /\ Goto(r, "serve") /\ sps' = [sps EXCEPT ![o] = y] /\ relay[r].pc = "write"
        /\ UNCHANGED <<used, badgeUsed>>
    BY <1>13 DEF WriteCuSum, Session, At, counters, badges
  <2>2. /\ relay[r].total = x.CuSum + relay[r].add /\ relay[r].total >= relay[r].cu
        /\ relay[r].old = x.CuSum /\ x.LatestRelayCu = relay[r].add
    BY <1>1, <2>1 DEF Account
  <2>3. c = relay[r].total
    BY <1>2, <2>2, NoWrap
  <2>4. PICK g : relay' = [relay EXCEPT ![r] = g] /\ g.pc = "serve" /\ Kept(g, relay[r])
    BY <2>1, GotoKeeps DEF Steps
  <2>5. /\ y \in SingleProviderSession /\ y.key = x.key /\ y.CuSum = relay[r].total
        /\ y.badge = x.badge /\ y.LatestRelayCu = relay[r].add
    <3> HIDE DEF c
    <3> QED BY <1>1, <1>2, <2>2, <2>3 DEF SingleProviderSession
  <2> HIDE DEF y
  <2>6. Account(g, y)
    <3>1. relay[r].add <= relay[r].total
      BY <1>2, <2>2
    <3> QED BY <2>2, <2>4, <2>5, <3>1 DEF Account, Kept, SameRequest
  <2>7. /\ Charge(g, f) = 0 /\ Charge(relay[r], f) = relay[r].add
        /\ \A d : BadgeCharge(g, y, d) = BadgeCharge(relay[r], x, d)
    BY <2>1, <2>4, <2>5 DEF Charge, BadgeCharge, Kept, SameRequest, Counted
  <2>8. used[f] = used[f] + (y.CuSum - x.CuSum) + (Charge(g, f) - Charge(relay[r], f))
    BY <1>2, <2>2, <2>5, <2>7
  <2>9. BadgeMoves(relay[r], x, g, y)
    BY <1>3, <2>1, <2>7, BadgeStays
  <2>10. \A n \in Nat : n <= x.CuSum => n <= y.CuSum /\ n + g.add <= y.CuSum
    BY <1>2, <2>2, <2>4, <2>5 DEF Kept
  <2>11. HoldStep(r, g, y, used[f])
    BY <1>0, <1>2, <1>11, <2>1, <2>4, <2>5, <2>6, <2>8, <2>9, <2>10 DEF HoldStep, Kept
  <2> QED BY <1>0, <2>11, SoundHold
<1>14. CASE DisbandSession(r)
  <2> DEFINE y == Unlocked(x)
  <2>1. /\ relay' = [relay EXCEPT ![r] = Idle] /\ sps' = [sps EXCEPT ![o] = y] /\ relay[r].pc = "disband"
        /\ UNCHANGED <<used, badgeUsed>>
    BY <1>1, <1>14 DEF DisbandSession, Session, At, counters, badges, Goto, Fresh
  <2>2. y \in SingleProviderSession /\ y.key = x.key /\ y.CuSum = x.CuSum
    BY <1>1 DEF Unlocked, SingleProviderSession
  <2> HIDE DEF y
  <2>3. /\ Charge(Idle, f) = 0 /\ Charge(relay[r], f) = 0 /\ \A c : BadgeCharge(Idle, y, c) = 0
        /\ Idle.pc \notin Holding \cup Counted \cup {"proof", "streaming"} /\ relay[r].pc \notin Counted
    BY <2>1 DEF Charge, BadgeCharge, Counted, Idle, Holding
  <2>4. used[f] = used[f] + (y.CuSum - x.CuSum) + (Charge(Idle, f) - Charge(relay[r], f))
    BY <1>2, <2>2, <2>3
  <2>5. BadgeMoves(relay[r], x, Idle, y)
    BY <1>3, <2>1, <2>3, BadgeStays
  <2>6. HoldStep(r, Idle, y, used[f])
    BY <1>0, <1>2, <1>11, <2>1, <2>2, <2>3, <2>4, <2>5 DEF HoldStep
  <2> QED BY <1>0, <2>6, SoundHold
<1> QED BY <1>5, <1>6, <1>7, <1>8, <1>9, <1>10, <1>12, <1>13, <1>14 DEF Prepare

\* The relays that are done with their session, or fail.
LEMMA SoundServe ==
    ASSUME Base, Base', Pointers, Locks, SoundInv, NEW r \in Relays, Serve(r), relay[r].pc \in Holding
    PROVE  SoundInv'
<1> DEFINE f == relay[r].epoch
           x == Session(r)
           o == relay[r].obj
<1>0. proofs' = proofs /\ relay[r].pc \in Counted
  BY DEF Serve, RelayDone, RelayFailed, SubscribeRefused, ReleaseSession, Subscribed,
         SubscribeFailed, OnSessionFailure, onSessionFailure, At, Counted, Holding
<1>1. /\ o \in 1..Len(sps) /\ x = sps[o] /\ x \in SingleProviderSession /\ f \in RequestEpochs
      /\ x.lock # Free /\ Account(relay[r], x)
  BY HoldFacts
<1>2. /\ x.CuSum \in Nat /\ x.CuSum \in Words /\ x.LatestRelayCu \in Nat
      /\ relay[r].cu \in Nat /\ relay[r].add \in Nat
      /\ used[f] \in Nat /\ used[f] <= Limit /\ used[f] \in Words /\ x.CuSum <= used[f]
  BY HoldFacts
<1>3. /\ relay[r] \in Goroutine /\ relay \in [Relays -> Goroutine]
      /\ Limit \in Nat /\ BadgeLimit \in Nat
      /\ used \in [RequestEpochs -> Words] /\ badgeUsed \in Seq(Words) /\ BadgeSums
  BY NoWrap DEF Base, Shared, SoundInv
<1>4. /\ x.LatestRelayCu = relay[r].add /\ relay[r].add <= x.CuSum /\ relay[r].cu <= x.CuSum
      /\ relay[r].pc = "undo" => relay[r].old = x.CuSum
  BY <1>0, <1>1 DEF Account
<1>5. /\ \A e \in RequestEpochs : used[e] = IF e = f THEN used[f] ELSE used[e]
      /\ used[f] \in Int /\ relay[r].num \in RelayNums
  <2>1. Local(relay[r], sps, past) /\ relay[r].pc # "idle"
    BY DEF Base, Holding
  <2>2. relay[r].num \in RelayNums
    BY <2>1 DEF Local
  <2> QED BY <1>2, <2>2
<1>6. Charge(relay[r], f) = 0
  BY <1>0 DEF Charge, Counted
<1>7. ASSUME onSessionDone(r), NEW pc \in {"idle", "proof", "streaming"}, Goto(r, pc),
             UNCHANGED <<used, badgeUsed>>
      PROVE  SoundInv'
  <2> DEFINE y == Done(x, relay[r].num)
  <2>1. PICK g : /\ relay' = [relay EXCEPT ![r] = g] /\ g.pc = pc
                 /\ pc # "idle" => Kept(g, relay[r])
    BY <1>7, GotoKeeps DEF Steps
  <2>2. sps' = [sps EXCEPT ![o] = y]
    BY <1>1, <1>7 DEF onSessionDone
  <2>3. y \in SingleProviderSession /\ y.key = x.key
    BY <1>1, <1>5, LeftOfObject
  <2>4. y.CuSum = x.CuSum
    <3>1. Unlocked(x) \in SingleProviderSession /\ Unlocked(x).CuSum = x.CuSum
      BY <1>1 DEF Unlocked, SingleProviderSession
    <3> QED BY <3>1 DEF Done, SingleProviderSession
  <2> HIDE DEF y
  <2>5. /\ Charge(g, f) = 0 /\ (\A c : BadgeCharge(g, y, c) = 0) /\ g.pc \notin Holding /\ g.pc \notin Counted
    BY <2>1 DEF Charge, BadgeCharge, Counted, Holding
  <2>6. used[f] = used[f] + (y.CuSum - x.CuSum) + (Charge(g, f) - Charge(relay[r], f))
    BY <1>2, <1>6, <2>4, <2>5
  <2>7. BadgeMoves(relay[r], x, g, y)
    BY <1>3, <1>7, <2>5, BadgeStays
  <2>8. g.pc \in {"proof", "streaming"} => SameRequest(g, relay[r]) /\ g.cu <= y.CuSum
    BY <1>4, <2>1, <2>4 DEF Kept, SameRequest
  <2>9. HoldStep(r, g, y, used[f])
    BY <1>0, <1>2, <1>5, <1>7, <2>1, <2>2, <2>3, <2>4, <2>5, <2>6, <2>7, <2>8 DEF HoldStep
  <2> QED BY <2>9, SoundHold
<1>8. CASE RelayDone(r)
  BY <1>7, <1>8 DEF RelayDone, counters, badges
<1>9. CASE SubscribeRefused(r)
  BY <1>7, <1>9 DEF SubscribeRefused, counters, badges
<1>10. CASE ReleaseSession(r)
  <2>1. onSessionDone(r) /\ Goto(r, "streaming") /\ UNCHANGED <<used, badgeUsed>>
    BY <1>1, <1>10 DEF ReleaseSession, counters, badges
  <2> QED BY <1>7, <2>1
<1>11. CASE RelayFailed(r)
  <2>1. Goto(r, "fail") /\ UNCHANGED <<sps, used, badgeUsed>>
    BY <1>11 DEF RelayFailed, counters, badges
  <2>2. PICK g : relay' = [relay EXCEPT ![r] = g] /\ g.pc = "fail" /\ Kept(g, relay[r])
    BY <2>1, GotoKeeps DEF Steps
  <2>3. Account(g, x)
    BY <1>4, <2>2 DEF Account, Kept, SameRequest
  <2> QED BY <1>0, <2>1, <2>2, <2>3, SoundStays DEF Kept, Holding, Counted
<1>12. CASE OnSessionFailure(r)
  <2>1. UNCHANGED <<used, badgeUsed>>
    BY <1>12 DEF OnSessionFailure, counters, badges
  <2>2. CASE onSessionDone(r) /\ Goto(r, "idle")
    BY <1>7, <2>1, <2>2
  <2>3. CASE ~ (onSessionDone(r) /\ Goto(r, "idle"))
    <3> DEFINE g == [relay[r] EXCEPT !.pc = "undo", !.old = x.CuSum]
    <3>1. relay' = [relay EXCEPT ![r] = g] /\ UNCHANGED sps
      BY <1>1, <1>3, <1>12, <2>3 DEF OnSessionFailure
    <3>2. /\ g.pc = "undo" /\ SameRequest(g, relay[r]) /\ g.old = x.CuSum /\ g.add = relay[r].add
          /\ g.cu = relay[r].cu
      BY <1>3 DEF Goroutine, SameRequest
    <3> HIDE DEF g
    <3>3. Account(g, x)
      BY <1>4, <3>2 DEF Account
    <3> QED BY <1>0, <2>1, <3>1, <3>2, <3>3, SoundStays DEF Holding, Counted
  <2> QED BY <2>2, <2>3
<1>13. CASE onSessionFailure(r)
  <2> DEFINE cu == x.LatestRelayCu
             y == Undone(x, relay[r].old)
             u == used[f] - cu
             c == x.badge
  <2>1. /\ relay' = [relay EXCEPT ![r] = Idle] /\ sps' = [sps EXCEPT ![o] = y] /\ relay[r].pc = "undo"
        /\ used' = [used EXCEPT ![f] = Minus(@, cu)]
        /\ badgeUsed' = IF c = 0 THEN badgeUsed ELSE [badgeUsed EXCEPT ![c] = Minus(@, cu)]
    BY <1>1, <1>13 DEF onSessionFailure, Session, Goto, At
  <2>2. cu \in Nat /\ cu = relay[r].add /\ cu <= x.CuSum /\ cu <= used[f] /\ relay[r].old = x.CuSum
    BY <1>2, <1>4, <2>1
  <2>3. /\ y \in SingleProviderSession /\ y.key = x.key /\ y.CuSum = x.CuSum - cu
    <3>1. Minus(relay[r].old, cu) = x.CuSum - cu /\ relay[r].old \in Words
      BY <1>2, <2>2, NoWrap
    <3>2. y \in SingleProviderSession /\ y.key = x.key
      BY <1>1, <3>1, LeftOfObject
    <3>3. Unlocked(x) \in SingleProviderSession /\ Unlocked(x).LatestRelayCu = x.LatestRelayCu
      BY <1>1 DEF Unlocked, SingleProviderSession
    <3>4. y.CuSum = Minus(relay[r].old, cu)
      BY <3>3 DEF Undone, SingleProviderSession
    <3> QED BY <3>1, <3>2, <3>4
  <2>4. Minus(used[f], cu) = u
    BY <1>2, <2>2, NoWrap
  <2>5. u \in Int /\ u <= Limit
    BY <1>2, <1>3, <2>2
  <2>6. \A e \in RequestEpochs : used'[e] = IF e = f THEN u ELSE used[e]
    BY <1>1, <1>3, <2>1, <2>4
  <2> HIDE DEF y, cu
  <2>7. /\ Charge(Idle, f) = 0 /\ (\A d : BadgeCharge(Idle, y, d) = 0) /\ Idle.add = 0
        /\ Idle.pc \notin Holding \cup Counted \cup {"proof", "streaming"}
    BY DEF Charge, BadgeCharge, Counted, Idle, Holding
  <2>8. u = used[f] + (y.CuSum - x.CuSum) + (Charge(Idle, f) - Charge(relay[r], f))
    BY <1>2, <1>6, <2>2, <2>3, <2>7
  <2>9. BadgeMoves(relay[r], x, Idle, y)
    <3>1. CASE c = 0
      BY <1>3, <2>1, <2>7, <3>1, BadgeStays
    <3>2. CASE c # 0
      <4> DEFINE w == badgeUsed[c] - cu
      <4>1. /\ c \in 1..Len(badgeUsed) /\ badgeUsed[c] \in Nat /\ badgeUsed[c] \in Words
            /\ badgeUsed[c] <= BadgeLimit /\ cu <= badgeUsed[c]
        BY <1>0, <2>2, <3>2, BadgeFacts
      <4>2. Minus(badgeUsed[c], cu) = w
        BY <2>2, <4>1, NoWrap
      <4>3. cu \in Words /\ w \in Words
        <5>1. cu \in Words
          BY <1>1 DEF cu, SingleProviderSession
        <5> QED BY <4>1, <4>2, <5>1, WordOps
      <4>4. w <= BadgeLimit /\ badgeUsed' = [badgeUsed EXCEPT ![c] = w]
        BY <1>3, <2>1, <2>2, <3>2, <4>1, <4>2
      <4>5. BadgeCharge(relay[r], x, c) = cu
        BY <1>0, <2>2 DEF BadgeCharge
      <4>6. w + BadgeCharge(relay[r], x, c) >= badgeUsed[c] + BadgeCharge(Idle, y, c)
        BY <2>2, <2>7, <4>1, <4>5
      <4>7. Idle.pc \notin {"apply", "write"} \cup Counted
        BY DEF Idle, Counted
      <4>8. relay[r] \in Goroutine /\ Idle.add \in Nat
        BY <2>7 DEF Base, Shared
      <4> HIDE DEF w
      <4> QED BY <1>0, <4>1, <4>3, <4>4, <4>6, <4>7, <4>8, BadgeChange
    <3> QED BY <3>1, <3>2
  <2>10. \A n \in Nat : n + relay[r].add <= x.CuSum => n <= y.CuSum
    BY <1>2, <2>2, <2>3
  <2> HIDE DEF u
  <2>11. HoldStep(r, Idle, y, u)
    BY <1>0, <2>1, <2>3, <2>5, <2>6, <2>7, <2>8, <2>9, <2>10 DEF HoldStep
  <2> QED BY <2>11, SoundHold
<1>14. CASE Subscribed(r) \/ SubscribeFailed(r)
  BY <1>14 DEF Subscribed, SubscribeFailed, At, Holding
<1> QED BY <1>8, <1>9, <1>10, <1>11, <1>12, <1>13, <1>14 DEF Serve

\* The steps outside of the sessions; only UpdateSessionCU touches a sum.
LEMMA SoundOutside ==
    ASSUME Base, Base', Locks, SoundInv, NEW r \in Relays, Outside(r),
           past \cap {"early", "raised"} = {}, past' \cap {"early", "raised"} = {}
    PROVE  SoundInv'
<1> USE DEF Holding, Steps
<1>0. relay \in [Relays -> Goroutine] /\ relay[r] \in Goroutine /\ Local(relay[r], sps, past)
  BY DEF Base
<1>1. ASSUME relay[r].pc \notin Holding, NEW pc \in Steps \ (Holding \cup {"proof", "streaming"}),
             Goto(r, pc), UNCHANGED <<sps, used, badgeUsed, proofs>>
      PROVE  SoundInv'
  <2>1. PICK g : relay' = [relay EXCEPT ![r] = g] /\ g.pc = pc
    BY <1>1, GotoKeeps
  <2> QED BY <1>1, <2>1, SoundQuiet
<1>2. CASE Receive(r)
  <2>1. PICK kind \in Kinds, k \in Keys, n \in RelayNums, c \in CuSums :
          relay' = [relay EXCEPT ![r] = [Idle EXCEPT !.pc = "get", !.kind = kind,
                      !.epoch = k[1], !.id = k[2], !.num = n, !.cu = c]]
    BY <1>2 DEF Receive
  <2> DEFINE g == [Idle EXCEPT !.pc = "get", !.kind = kind, !.epoch = k[1], !.id = k[2],
                               !.num = n, !.cu = c]
  <2>2. g.pc = "get"
    BY DEF Idle
  <2>3. /\ relay[r].pc \notin Holding /\ UNCHANGED <<sps, used, badgeUsed, proofs>>
        /\ relay' = [relay EXCEPT ![r] = g]
    BY <1>2, <2>1 DEF Receive, At, counters, badges
  <2> HIDE DEF g
  <2> QED BY <2>2, <2>3, SoundQuiet
<1>3. CASE GetSession(r)
  BY <1>1, <1>3 DEF GetSession, At, counters, badges
<1>4. CASE NotPaired(r)
  BY <1>1, <1>4 DEF NotPaired, At, counters, badges
<1>5. CASE registerNewConsumer(r)
  BY <1>1, <1>5 DEF registerNewConsumer, At, counters, badges
<1>6. CASE tryLockForUseFails(r)
  BY <1>1, <1>6 DEF tryLockForUseFails, At, counters, badges
<1>7. CASE Subscribed(r)
  <2>1. /\ relay[r].pc = "streaming" /\ Goto(r, "proof")
        /\ UNCHANGED <<sps, used, badgeUsed, proofs>>
    BY <1>7 DEF Subscribed, At, counters, badges
  <2>2. PICK g : relay' = [relay EXCEPT ![r] = g] /\ g.pc = "proof" /\ Kept(g, relay[r])
    BY <2>1, GotoKeeps
  <2> QED BY <2>1, <2>2, SoundQuiet DEF Kept
<1>8. CASE SubscribeFailed(r)
  BY <1>8 DEF SubscribeFailed
<1>13. CASE getBadgeEpochData(r) \/ registerBadgeEpochData(r)
  <2>1. relay[r].pc \notin Holding /\ UNCHANGED <<sps, used, proofs>> /\ badgeUsed \in Seq(Words)
    BY <1>13 DEF getBadgeEpochData, registerBadgeEpochData, At, counters, badges, Base, Shared
  <2>2. \A c \in Counters : Counter(badgeUsed', c) = Counter(badgeUsed, c)
    <3>1. CASE badgeUsed' = badgeUsed
      BY <3>1
    <3>2. CASE badgeUsed' = Append(badgeUsed, 0)
      <4>1. /\ Len(badgeUsed) \in Nat /\ Len(badgeUsed') = Len(badgeUsed) + 1
            /\ badgeUsed'[Len(badgeUsed) + 1] = 0 /\ \A c \in 1..Len(badgeUsed) : badgeUsed'[c] = badgeUsed[c]
        <5>1. 0 \in Words
          BY WordFacts
        <5> HIDE DEF Words
        <5> QED BY <2>1, <3>2, <5>1
      <4> QED BY <4>1 DEF Counter, Counters
    <3> QED BY <1>13, <3>1, <3>2 DEF getBadgeEpochData, registerBadgeEpochData, counters, badges
  <2>3. CASE Goto(r, "newuser")
    <3>1. PICK g : relay' = [relay EXCEPT ![r] = g] /\ g.pc = "newuser"
      BY <2>3, GotoKeeps
    <3> QED BY <2>1, <2>2, <3>1, SoundQuiet
  <2>4. ASSUME NEW c, relay' = [relay EXCEPT ![r].pc = "lookup", ![r].badge = c] PROVE SoundInv'
    <3> DEFINE g == [relay[r] EXCEPT !.pc = "lookup", !.badge = c]
    <3>1. relay' = [relay EXCEPT ![r] = g] /\ g.pc = "lookup"
      BY <1>0, <2>4 DEF Goroutine
    <3> HIDE DEF g
    <3> QED BY <2>1, <2>2, <3>1, SoundQuiet
  <2> QED BY <1>13, <2>3, <2>4 DEF getBadgeEpochData, registerBadgeEpochData
<1>9. CASE SendProof(r)
  <2> DEFINE stored == proofs[Key(r)]
             cu == relay[r].cu
             k == Key(r)
  <2>1. /\ relay[r].pc = "proof" /\ UNCHANGED <<sps, used, badgeUsed>> /\ proofs' = Stored(k, cu)
    BY <1>9 DEF SendProof, At, counters, badges
  <2>2. k \in Keys /\ cu \in CuSums /\ cu \in Nat
    <3>1. <<relay[r].epoch, relay[r].id>> \in Keys /\ relay[r].cu \in CuSums
      BY <1>0, <2>1 DEF Local
    <3> QED BY <3>1, WordFacts DEF Key
  <2>3. proofs \in [Keys -> CuSums \cup RestoredCus] /\ stored \in Nat
    <3>1. proofs \in [Keys -> CuSums \cup RestoredCus]
      BY DEF Base, Shared
    <3> QED BY <2>2, <3>1, WordFacts
  <2>4. \E g : relay' = [relay EXCEPT ![r] = g] /\ g.pc \in {"idle", "update"}
    <3>1. CASE Goto(r, "idle")
      BY <3>1, GotoKeeps
    <3>2. CASE ~ Goto(r, "idle")
      <4> DEFINE g == [relay[r] EXCEPT !.pc = "update", !.total = stored]
      <4>1. relay' = [relay EXCEPT ![r] = g]
        BY <1>0, <1>9, <3>2 DEF SendProof
      <4>2. g.pc = "update"
        BY <1>0 DEF Goroutine
      <4> HIDE DEF g
      <4> QED BY <4>1, <4>2
    <3> QED BY <3>1, <3>2
  <2>5. PICK g : relay' = [relay EXCEPT ![r] = g] /\ g.pc \in {"idle", "update"}
    BY <2>4
\* ProofsBacked is the only part that sees the new proof.
  <2>6. Touch(r, g, 0) /\ KeepsCover(r, g, 0)
    BY <2>1, <2>5, CountersNat DEF Touch, KeepsCover
  <2>7. \A e : /\ Charge(g, e) = 0 /\ Charge(relay[r], e) = 0
               /\ \A x : BadgeCharge(g, x, e) = 0 /\ BadgeCharge(relay[r], x, e) = 0
    BY <2>1, <2>5 DEF Charge, BadgeCharge, Counted
  <2>8. Accounts'
    BY <2>5, <2>6, AccountsStep DEF SoundInv
  <2>9. UsedSums'
    <3>1. \A e \in RequestEpochs : used'[e] <= Limit
      BY <2>1 DEF SoundInv, UsedSums
    <3>2. \A e \in RequestEpochs :
            used'[e] = used[e] + (IF 0 \in 1..Len(sps) THEN CuOf(sps'[0], e) - CuOf(sps[0], e) ELSE 0)
                         + (Charge(g, e) - Charge(relay[r], e))
      BY <2>1, <2>7, CountersNat
    <3> QED BY <2>6, <3>1, <3>2, UsedStep DEF SoundInv
  <2>10. BadgeSums'
    <3>1. BadgeMoves(relay[r], sps[relay[r].obj], g, sps'[g.obj])
      BY <1>0, <2>1, <2>7, BadgeStays DEF SoundInv
    <3> QED BY <2>6, <3>1, BadgeStep DEF SoundInv
  <2>11. RelaysBacked'
    BY <2>5, <2>6, RelaysBackedStep DEF SoundInv
  <2>12. ProofsBacked'
    <3>1. Backed(cu, k, relay', sps')
      <4>1. Backed(cu, k, relay, sps)
        BY <2>1 DEF SoundInv, RelaysBacked
      <4> QED BY <2>2, <2>6, <4>1, BackedStep
    <3>2. stored \in RestoredCus \/ Backed(stored, k, relay', sps')
      <4>1. stored \in RestoredCus \/ Backed(stored, k, relay, sps)
        BY <2>2 DEF SoundInv, ProofsBacked
      <4> HIDE DEF stored
      <4> QED BY <2>3, <2>6, <4>1, BackedStep
    <3>3. Max({stored, cu}) \in {stored, cu}
      <4> HIDE DEF stored, cu
      <4> QED BY <2>2, <2>3 DEF Max
    <3>4. proofs'[k] = Max({stored, cu}) /\ \A j \in Keys \ {k} : proofs'[j] = proofs[j]
      BY <2>1, <2>2, <2>3 DEF Stored
    <3>5. ASSUME NEW j \in Keys PROVE proofs'[j] \in RestoredCus \/ Backed(proofs'[j], j, relay', sps')
      <4> HIDE DEF stored, cu, k
      <4>1. CASE j = k
        BY <3>1, <3>2, <3>3, <3>4, <4>1
      <4>2. CASE j # k
        <5>1. proofs'[j] = proofs[j] /\ proofs[j] \in CuSums \cup RestoredCus
          BY <2>3, <3>4, <4>2
        <5>2. proofs[j] \in Nat
          BY <5>1, WordFacts
        <5>3. proofs[j] \in RestoredCus \/ Backed(proofs[j], j, relay, sps)
          BY DEF SoundInv, ProofsBacked
        <5> QED BY <2>6, <5>1, <5>2, <5>3, BackedStep
      <4> QED BY <4>1, <4>2
    <3> QED BY <3>5 DEF ProofsBacked
  <2> QED BY <2>8, <2>9, <2>10, <2>11, <2>12 DEF SoundInv
<1>10. CASE UpdateSessionCU(r)
  <2>1. relay[r].pc = "update" /\ UNCHANGED <<sps, used, badgeUsed, proofs>>
    BY <1>10 DEF UpdateSessionCU, At, counters, badges
  <2>2. CASE Goto(r, "idle")
    BY <1>1, <2>1, <2>2
  <2>3. CASE ~ Goto(r, "idle")
    <3> DEFINE g == [relay[r] EXCEPT !.pc = "raise", !.obj = Sessions[Key(r)],
                                     !.old = sps[Sessions[Key(r)]].CuSum]
    <3>1. relay' = [relay EXCEPT ![r] = g]
      BY <1>0, <1>10, <2>3 DEF UpdateSessionCU
    <3>2. g.pc = "raise"
      BY <1>0 DEF Goroutine
    <3> HIDE DEF g
    <3> QED BY <2>1, <3>1, <3>2, SoundQuiet
  <2> QED BY <2>2, <2>3
<1>11. CASE writeCuSumAtomically(r)
  BY <1>11 DEF writeCuSumAtomically
<1>12. CASE atomicReadUsedComputeUnits(r) \/ atomicWriteUsedComputeUnits(r)
  BY <1>0, <1>12 DEF atomicReadUsedComputeUnits, atomicWriteUsedComputeUnits, At, Local
<1> QED BY <1>2, <1>3, <1>4, <1>5, <1>6, <1>7, <1>8, <1>9, <1>10, <1>11, <1>12, <1>13 DEF Outside, Prove

\* A session is taken, or left because of the relay's number: no sum changes.
Taken(r, g, o) ==
    /\ Touch(r, g, o) /\ g.pc \in {"create", "prepare", "idle"}
    /\ o \in 1..Len(sps) => sps'[o].CuSum = sps[o].CuSum

LEMMA SoundTaken ==
    ASSUME Base, Base', Locks, SoundInv, NEW r \in Relays, relay[r].pc \in {"lookup", "create"},
           NEW g, NEW o, Taken(r, g, o), UNCHANGED <<used, badgeUsed, proofs>>
    PROVE  SoundInv'
<1> USE DEF Taken
<1>0. /\ \A e \in RequestEpochs : used[e] \in Nat
      /\ \A e : /\ Charge(g, e) = 0 /\ Charge(relay[r], e) = 0
                /\ \A x : BadgeCharge(g, x, e) = 0 /\ BadgeCharge(relay[r], x, e) = 0
  BY CountersNat DEF Charge, BadgeCharge, Counted
<1>1. KeepsCover(r, g, o)
  BY DEF KeepsCover, Counted
<1>2. Accounts'
  <2>1. Account(g, sps'[o])
    BY DEF Account, Counted
  <2> QED BY <2>1, AccountsStep DEF SoundInv
<1>3. UsedSums'
  <2>1. \A e \in RequestEpochs : used'[e] <= Limit
    BY DEF SoundInv, UsedSums
  <2>2. ASSUME NEW e \in RequestEpochs, o \in 1..Len(sps) PROVE CuOf(sps'[o], e) - CuOf(sps[o], e) = 0
    <3>1. sps[o] \in SingleProviderSession /\ sps'[o].key = sps[o].key
      BY <2>2 DEF Touch, SessionsStay
    <3>2. sps[o].CuSum \in Nat
      BY <3>1, ObjectNumbers
    <3> QED BY <2>2, <3>1, <3>2 DEF CuOf
  <2>3. \A e \in RequestEpochs :
          used'[e] = used[e] + (IF o \in 1..Len(sps) THEN CuOf(sps'[o], e) - CuOf(sps[o], e) ELSE 0)
                       + (Charge(g, e) - Charge(relay[r], e))
    BY <1>0, <2>2
  <2> QED BY <2>1, <2>3, UsedStep DEF SoundInv
<1>4. BadgeSums'
  <2>1. relay[r] \in Goroutine /\ BadgeSums
    BY DEF Base, SoundInv
  <2>2. BadgeMoves(relay[r], sps[relay[r].obj], g, sps'[g.obj])
    BY <1>0, <2>1, BadgeStays
  <2> QED BY <2>1, <2>2, BadgeStep
<1>5. RelaysBacked'
  BY <1>1, RelaysBackedStep DEF SoundInv
<1>6. ProofsBacked'
  BY <1>1, ProofsBackedStep DEF SoundInv
<1> QED BY <1>2, <1>3, <1>4, <1>5, <1>6 DEF SoundInv

\* A session is looked up or created.
LEMMA Takes ==
    ASSUME Base, Base', NEW r \in Relays,
           getExistingSession(r) \/ createNewSingleProviderSession(r)
    PROVE  /\ relay[r].pc \in {"lookup", "create"} /\ UNCHANGED <<used, badgeUsed, proofs>>
           /\ \E g, o : Taken(r, g, o)
<1>0. /\ relay \in [Relays -> Goroutine] /\ relay[r] \in Goroutine /\ sps \in Seq(SingleProviderSession)
      /\ SessionsStay(sps, sps) /\ Len(sps) \in Nat /\ Local(relay[r], sps, past) /\ Shared
      /\ UNCHANGED <<used, badgeUsed, proofs>> /\ relay[r].pc \in {"lookup", "create"}
  BY CountersNat DEF Base, getExistingSession, createNewSingleProviderSession, At, counters, badges
<1> SUFFICES \E h, p : Taken(r, h, p)
  BY <1>0
<1>1. Key(r) \in Keys /\ relay[r].pc # "idle" /\ relay[r].pc \notin Holding
  BY <1>0 DEF Local, Key, Holding
<1>2. ASSUME NEW objects, SessionsStay(sps, objects), NEW o \in 1..Len(objects),
             \A p \in 1..Len(objects) \ {o} : p \in 1..Len(sps) /\ objects[p] = sps[p],
             o \in 1..Len(sps) => objects[o] = sps[o],
             o \notin 1..Len(sps) => objects[o].CuSum = 0,
             objects[o].lock = Free, objects[o].key = Key(r), Keep(r, objects, o)
      PROVE  \E h, p : Taken(r, h, p)
  <2>0. objects \in Seq(SingleProviderSession) /\ objects[o] \in SingleProviderSession /\ o \in Nat
    BY <1>2 DEF SessionsStay
  <2>1. SessionsStay(objects, sps') /\ Len(sps') = Len(objects)
    BY <1>1, <1>2, KeepTakes
  <2>2. SessionsStay(sps, sps')
    BY <1>2, <2>1 DEF SessionsStay
  <2>3. ASSUME NEW g, relay' = [relay EXCEPT ![r] = g], g.pc \in {"prepare", "idle"},
               g.pc = "prepare" => g.obj = o,
               sps'[o].CuSum = objects[o].CuSum, \A p \in 1..Len(objects) \ {o} : sps'[p] = objects[p]
        PROVE  \E h, p : Taken(r, h, p)
    <3>1. o \in 1..Len(sps) => sps[o].lock = Free /\ sps'[o].CuSum = sps[o].CuSum
      BY <1>2, <2>3
    <3>2. \A p \in 1..Len(sps') \ {o} : p \in 1..Len(sps) /\ sps'[p] = sps[p]
      BY <1>2, <2>1, <2>3
    <3>3. g.pc \in Holding => g.obj = o /\ o \in 1..Len(sps')
      BY <2>1, <2>3 DEF Holding
    <3>4. o \notin 1..Len(sps) => sps'[o].CuSum = 0
      BY <1>2, <2>3
    <3>5. Touch(r, g, o)
      BY <1>1, <2>2, <2>3, <3>1, <3>2, <3>3, <3>4 DEF Touch
    <3> QED BY <2>3, <3>1, <3>5 DEF Taken
  <2>4. CASE RelayNumTaken(objects[o], relay[r].num)
    <3>1. sps' = objects /\ relay' = [relay EXCEPT ![r] = Idle] /\ Idle.pc = "idle"
      BY <2>4, <1>2 DEF Keep, Goto, Idle
    <3> QED BY <2>3, <3>1
  <2>5. CASE ~ RelayNumTaken(objects[o], relay[r].num)
    <3> DEFINE b == IF relay[r].badge # 0 THEN relay[r].badge ELSE objects[o].badge
               x == [objects[o] EXCEPT !.lock = r, !.badge = b]
               g == [relay[r] EXCEPT !.pc = "prepare", !.obj = o]
    <3>1. sps' = [objects EXCEPT ![o] = x] /\ relay' = [relay EXCEPT ![r] = g]
      BY <1>0, <1>2, <2>0, <2>5 DEF Keep
    <3>2. g.pc = "prepare" /\ g.obj = o
      BY <1>0 DEF Goroutine
    <3>3. x.CuSum = objects[o].CuSum /\ x \in SingleProviderSession
      <4>1. b \in Nat
        BY <1>0, <2>0 DEF SingleProviderSession, Goroutine
      <4> HIDE DEF b
      <4> QED BY <2>0, <4>1 DEF SingleProviderSession
    <3> HIDE DEF g, x
    <3>4. sps'[o] = x /\ \A p \in 1..Len(objects) \ {o} : sps'[p] = objects[p]
      BY <2>0, <3>1, <3>3, ChangeObject
    <3> QED BY <2>3, <3>1, <3>2, <3>3, <3>4
  <2> QED BY <2>4, <2>5
<1>3. CASE getExistingSession(r) /\ Sessions[Key(r)] = 0
  <2>1. Goto(r, "create") /\ UNCHANGED sps
    BY <1>3 DEF getExistingSession
  <2>2. PICK g : relay' = [relay EXCEPT ![r] = g] /\ g.pc = "create"
    BY <2>1, GotoKeeps DEF Steps
  <2>3. Taken(r, g, 0)
    BY <1>0, <1>1, <2>1, <2>2, CountersNat DEF Taken, Touch, Holding
  <2> QED BY <2>3
<1>4. CASE getExistingSession(r) /\ Sessions[Key(r)] # 0
  <2> DEFINE o == Sessions[Key(r)]
  <2>1. o \in 1..Len(sps) /\ sps[o].key = Key(r) /\ sps[o].lock = Free /\ Keep(r, sps, o)
    BY <1>0, <1>1, <1>4 DEF Shared, getExistingSession
  <2> HIDE DEF o
  <2> QED BY <1>0, <1>2, <2>1
<1>5. CASE createNewSingleProviderSession(r)
  <2> DEFINE x == NewSession(Key(r))
             objects == Append(sps, x)
             n == Len(sps) + 1
  <2>1. x \in SingleProviderSession /\ x.key = Key(r) /\ x.lock = Free /\ x.CuSum = 0
    BY <1>1, WordFacts DEF NewSession, SingleProviderSession
  <2>2. Keep(r, objects, n)
    BY <1>5 DEF createNewSingleProviderSession
  <2> HIDE DEF x
  <2>3. /\ SessionsStay(sps, objects) /\ Len(objects) = n /\ objects[n] = x
        /\ \A p \in 1..Len(sps) : objects[p] = sps[p]
    BY <1>0, <2>1 DEF SessionsStay
  <2>4. n \in 1..Len(objects) /\ n \notin 1..Len(sps) /\ 1..Len(objects) \ {n} = 1..Len(sps)
    BY <1>0, <2>3
  <2> HIDE DEF objects, n
  <2> QED BY <1>2, <2>1, <2>2, <2>3, <2>4
<1> QED BY <1>0, <1>3, <1>4, <1>5

\* The accounts when a session is looked up or created.
LEMMA SoundTake ==
    ASSUME Base, Base', Locks, SoundInv, NEW r \in Relays,
           getExistingSession(r) \/ createNewSingleProviderSession(r)
    PROVE  SoundInv'
  BY Takes, SoundTaken
-----------------------------------------------------------------------------
\* The accounts are exact at the start.
LEMMA SoundInit == Init => SoundInv
<1> SUFFICES ASSUME Init PROVE SoundInv
  OBVIOUS
<1>0. /\ Base /\ sps = <<>> /\ 1..Len(sps) = {} /\ Limit \in Nat /\ BadgeLimit \in Nat
      /\ \A r \in Relays : relay[r] = Idle
  BY InitBase, NoWrap DEF Init
<1>1. \A e : Total(sps, e) = 0
  <2> DEFINE f(e) == [o \in 1..Len(sps) |-> CuOf(sps[o], e)]
  <2>1. \A e : Total(sps, e) = SumFunctionOnSet(f(e), {})
    BY <1>0 DEF Total
  <2> HIDE DEF f
  <2> QED BY <2>1, SumEmpty
<1>2. \A r \in Relays : \A e, x :
        Charge(relay[r], e) = 0 /\ BadgeCharge(relay[r], x, e) = 0
  BY <1>0 DEF Charge, BadgeCharge, Idle, Counted
<1>3. ASSUME NEW e PROVE Pending(relay, e) = 0 /\ BadgePending(relay, sps, e) = 0
  <2> DEFINE f == [r \in Relays |-> Charge(relay[r], e)]
             h == [r \in Relays |-> BadgeCharge(relay[r], sps[relay[r].obj], e)]
  <2>1. \A r \in Relays : f[r] = 0 /\ h[r] = 0
    BY <1>2
  <2>2. Pending(relay, e) = SumFunctionOnSet(f, Relays) /\ BadgePending(relay, sps, e) = SumFunctionOnSet(h, Relays)
    BY DEF Pending, BadgePending
  <2> HIDE DEF f, h
  <2> QED BY <2>1, <2>2, RelaysAssumption, SumZero
<1>4. UsedSums /\ BadgeSums
  BY <1>0, <1>1, <1>3 DEF Init, UsedSums, BadgeSums, Counter
<1>5. Accounts /\ RelaysBacked
  BY <1>0 DEF Accounts, RelaysBacked, Idle, Holding
<1>6. ProofsBacked
  BY DEF Init, ProofsBacked
<1> QED BY <1>4, <1>5, <1>6 DEF SoundInv

\* The inductive invariant: with the locks exact, the accounts hold until a sum
\* wraps around or something else that is unusual happens.
AccountInv == LockInv /\ Pointers /\ (Sound => SoundInv)

\* Every step keeps the accounts.
LEMMA AccountNext == AccountInv /\ [Next]_vars => AccountInv'
<1> SUFFICES ASSUME AccountInv, [Next]_vars, past' \subseteq {"recreated"} PROVE SoundInv'
  BY LockNext, PointersNext DEF AccountInv, LockInv, Sound
<1>0. Base /\ Base' /\ Pointers /\ Locks /\ SoundInv /\ past \subseteq {"recreated"}
  <2>1. past \subseteq {"recreated"}
    BY PastGrows
  <2> QED BY <2>1, LockNext DEF AccountInv, LockInv, Sound
<1>1. CASE UNCHANGED <<sps, relay, used, badgeUsed, proofs>>
  BY <1>0, <1>1 DEF SoundInv, Accounts, UsedSums, BadgeSums, RelaysBacked, ProofsBacked, Key
<1>2. ASSUME NEW r \in Relays, Lookup(r) \/ Prepare(r) \/ Serve(r) \/ Prove(r)
      PROVE  SoundInv'
  <2>0. /\ past \cap {"early", "raised"} = {} /\ past' \cap {"early", "raised"} = {}
        /\ past' \cap {"early", "wrapped"} = {}
    BY <1>0
  <2>1. CASE Outside(r)
    BY <1>0, <2>0, <2>1, SoundOutside
  <2>2. CASE getExistingSession(r) \/ createNewSingleProviderSession(r)
    BY <1>0, <2>2, SoundTake
  <2>3. CASE Prepare(r)
    BY <1>0, <2>0, <2>3, SoundPrepare
  <2>4. CASE Serve(r) /\ ~ Outside(r)
    <3>1. relay[r].pc \in Holding
      BY <2>4 DEF Serve, RelayDone, RelayFailed, SubscribeRefused, ReleaseSession, OnSessionFailure,
                  onSessionFailure, At, Holding, Outside
    <3> QED BY <1>0, <2>4, <3>1, SoundServe
  <2> QED BY <1>2, <2>1, <2>2, <2>3, <2>4 DEF Lookup, Outside
<1> QED BY <1>1, <1>2 DEF Next, UpdateEpoch, vars, counters, badges

\* All of the invariant holds at the start.
LEMMA AccountInit == Init => AccountInv
  BY LockInit, TypeInvariant, SoundInit DEF AccountInv, TypeInv

\* A limit that wraps is the lower for it.
LEMMA LimitsBounded ==
    /\ Limit \in Nat /\ Limit <= MaxComputeUnits * (VirtualEpoch + 1)
    /\ BadgeLimit \in Nat /\ BadgeLimit <= BadgeComputeUnits * (VirtualEpoch + 1)
<1>0. Word \in Nat \ {0} /\ MaxComputeUnits \in Nat /\ BadgeComputeUnits \in Nat /\ VirtualEpoch \in Nat
  BY CuAssumption
<1>1. \A n \in Nat : n % Word \in Nat /\ n % Word <= n
  <2> TAKE n \in Nat
  <2>1. CASE n < Word
    BY <1>0, <2>1
  <2>2. CASE n >= Word
    BY <1>0, <2>2
  <2> QED BY <1>0, <2>1, <2>2
<1>2. MaxComputeUnits * (VirtualEpoch + 1) \in Nat
  BY <1>0
<1>3. LET m == Min({MaxComputeUnits, BadgeComputeUnits})
      IN  m \in Nat /\ m <= BadgeComputeUnits
  BY <1>0 DEF Min
<1>4. LET m == Min({MaxComputeUnits, BadgeComputeUnits})
      IN  m * (VirtualEpoch + 1) \in Nat /\ m * (VirtualEpoch + 1) <= BadgeComputeUnits * (VirtualEpoch + 1)
  BY <1>0, <1>3
<1>5. Limit \in Nat /\ Limit <= MaxComputeUnits * (VirtualEpoch + 1)
  BY <1>1, <1>2 DEF Limit
<1>6. BadgeLimit \in Nat /\ BadgeLimit <= BadgeComputeUnits * (VirtualEpoch + 1)
  <2> DEFINE n == Min({MaxComputeUnits, BadgeComputeUnits}) * (VirtualEpoch + 1)
  <2>1. n \in Nat /\ n <= BadgeComputeUnits * (VirtualEpoch + 1) /\ BadgeLimit = n % Word
    BY <1>4 DEF BadgeLimit
  <2>2. BadgeComputeUnits * (VirtualEpoch + 1) \in Nat
    BY <1>0
  <2> HIDE DEF n
  <2>3. n % Word \in Nat /\ n % Word <= n
    BY <1>1, <2>1
  <2> QED BY <2>1, <2>2, <2>3
<1> QED BY <1>5, <1>6

\* validateAndAddUsedCU holds the consumer to its CU of an epoch, and
\* validateAndAddBadgeUsedCU every counter of its badge's user to the badge's, however
\* relays interleave: for any word, as long as no sum has passed its end.
THEOREM StaysWithinLimit == Spec => []WithinLimit
<1>1. ASSUME AccountInv, Sound, NEW c \in 1..Len(badgeUsed) PROVE badgeUsed[c] <= BadgeLimit
  <2>1. badgeUsed \in Seq(Words)
    BY <1>1 DEF AccountInv, LockInv, Base, Shared
  <2>2. c \in Counters
    BY <2>1 DEF Counters
  <2> QED BY <1>1, <2>2 DEF AccountInv, SoundInv, BadgeSums, Counter
<1>2. /\ Limit \in Nat /\ Limit <= MaxComputeUnits * (VirtualEpoch + 1)
      /\ BadgeLimit \in Nat /\ BadgeLimit <= BadgeComputeUnits * (VirtualEpoch + 1)
  BY LimitsBounded
<1>3. ASSUME AccountInv, Sound PROVE WithinLimit
  <2>1. used \in [RequestEpochs -> Words] /\ badgeUsed \in Seq(Words) /\ Words \subseteq Nat
    BY <1>3, WordFacts DEF AccountInv, LockInv, Base, Shared
  <2>2. \A e \in RequestEpochs : used[e] \in Nat /\ used[e] <= Limit
    BY <1>3, <2>1 DEF AccountInv, SoundInv, UsedSums
  <2>3. ASSUME NEW c \in 1..Len(badgeUsed) PROVE badgeUsed[c] \in Nat /\ badgeUsed[c] <= BadgeLimit
    <3>1. badgeUsed[c] \in Words
      BY <2>1
    <3>2. badgeUsed[c] <= BadgeLimit
      BY <1>1, <1>3
    <3> QED BY <2>1, <3>1, <3>2
  <2>4. MaxComputeUnits * (VirtualEpoch + 1) \in Nat /\ BadgeComputeUnits * (VirtualEpoch + 1) \in Nat
    BY CuAssumption
  <2> QED BY <1>2, <2>2, <2>3, <2>4 DEF WithinLimit
<1>4. AccountInv => WithinLimit
  BY <1>3 DEF WithinLimit
<1> QED BY <1>4, AccountInit, AccountNext, PTL DEF Spec

\* Every proof the reward server stores was there at the start or is covered by the
\* CU of a session that it is the proof of, also when later relays of it fail: for
\* any word, as long as no sum has passed its end.
THEOREM ProofsAreCovered == Spec => []ProofCovered
<1>1. AccountInv => ProofCovered
  BY DEF AccountInv, SoundInv, ProofsBacked, Backed, Covers, ProofCovered
<1> QED BY <1>1, AccountInit, AccountNext, PTL DEF Spec
-----------------------------------------------------------------------------
(* The same account modulo Word, whatever has wrapped around. *)

\* Division with remainder.
LEMMA DivMod ==
    ASSUME NEW w \in Nat \ {0}, NEW a \in Int
    PROVE  \E q \in Int : a = w * q + (a % w)
<1>1. a \div w \in Int
  OBVIOUS
<1>2. a = w * (a \div w) + (a % w)
  OBVIOUS
<1> QED BY <1>1, <1>2

\* The remainder is unique.
LEMMA Remainder ==
    ASSUME NEW w \in Nat \ {0}, NEW p \in Int, NEW q \in Int, NEW x \in 0..(w-1), NEW y \in 0..(w-1),
           w * p + x = w * q + y
    PROVE  x = y
<1>1. CASE p = q
  BY <1>1
<1>2. ASSUME NEW d \in Nat \ {0} PROVE w * d >= w
  BY <1>2
<1>3. CASE p > q
  <2>1. w * (p - q) >= w
    BY <1>2, <1>3
  <2>2. w * (p - q) = w * p - w * q
    OBVIOUS
  <2> QED BY <2>1, <2>2
<1>4. CASE q > p
  <2>1. w * (q - p) >= w
    BY <1>2, <1>4
  <2>2. w * (q - p) = w * q - w * p
    OBVIOUS
  <2> QED BY <2>1, <2>2
<1> QED BY <1>1, <1>3, <1>4

\* A remainder may be taken before a sum or after it.
LEMMA ModPlus ==
    ASSUME NEW w \in Nat \ {0}, NEW a \in Int, NEW b \in Int
    PROVE  ((a % w) + b) % w = (a + b) % w
<1>1. PICK q \in Int : a = w * q + (a % w)
  BY DivMod
<1>2. a % w \in 0..(w-1) /\ (a % w) + b \in Int /\ a + b \in Int
  OBVIOUS
<1>3. PICK p \in Int : (a % w) + b = w * p + (((a % w) + b) % w)
  BY <1>2, DivMod
<1>4. PICK s \in Int : a + b = w * s + ((a + b) % w)
  BY <1>2, DivMod
<1>5. ((a % w) + b) % w \in 0..(w-1) /\ (a + b) % w \in 0..(w-1)
  BY <1>2
<1> DEFINE x == a % w
           y == (x + b) % w
           z == (a + b) % w
<1>6. x \in Int /\ y \in 0..(w-1) /\ z \in 0..(w-1) /\ a = w * q + x /\ x + b = w * p + y /\ a + b = w * s + z
  BY <1>1, <1>2, <1>3, <1>4, <1>5
<1> HIDE DEF x, y, z
<1>7. w * (q + p) = w * q + w * p /\ w * q \in Int /\ w * p \in Int /\ w * s \in Int /\ q + p \in Int
  OBVIOUS
<1>8. w * (q + p) + y = w * s + z
  BY <1>6, <1>7
<1>9. y = z
  BY <1>6, <1>7, <1>8, Remainder
<1> QED BY <1>9 DEF x, y, z

Olds ==
    \A r \in Relays : relay[r].pc \in {"write", "undo"} => relay[r].old = sps[relay[r].obj].CuSum
UsedMod == \A e \in RequestEpochs : used[e] = (Total(sps, e) + Pending(relay, e)) % Word
ModInv == Olds /\ UsedMod

\* What a step of r to g, with session o, adds to the account of epoch e.
Added(r, g, o, e) ==
    (IF o \in 1..Len(sps) THEN CuOf(sps'[o], e) - CuOf(sps[o], e) ELSE 0)
      + (Charge(g, e) - Charge(relay[r], e))

\* A step of one goroutine on one session.
LEMMA ModStep ==
    ASSUME Base, Base', Locks, ModInv, NEW r \in Relays, NEW g, NEW o, Touch(r, g, o),
           \A e \in RequestEpochs : used'[e] = (used[e] + Added(r, g, o, e)) % Word,
           g.pc \in {"write", "undo"} => g.old = sps'[o].CuSum
    PROVE  ModInv'
<1>0. /\ relay \in [Relays -> Goroutine] /\ relay' \in [Relays -> Goroutine]
      /\ sps \in Seq(SingleProviderSession) /\ relay'[r] = g /\ Word \in Nat \ {0}
  BY CuAssumption DEF Base, Shared, Touch
<1>1. ASSUME NEW q \in Relays, relay'[q].pc \in {"write", "undo"}
      PROVE  relay'[q].old = sps'[relay'[q].obj].CuSum
  <2>1. CASE q = r
    <3>1. g.obj = o
      BY <1>0, <1>1, <2>1 DEF Touch, Holding
    <3> QED BY <1>0, <1>1, <2>1, <3>1
  <2>2. CASE q # r
    <3>1. relay'[q] = relay[q] /\ relay[q].pc \in {"write", "undo"}
      BY <1>1, <2>2, OthersStay
    <3>2. sps'[relay[q].obj] = sps[relay[q].obj]
      BY <2>2, <3>1, OthersStay DEF Holding
    <3> QED BY <3>1, <3>2 DEF ModInv, Olds
  <2> QED BY <2>1, <2>2
<1>2. ASSUME NEW e \in RequestEpochs
      PROVE  used'[e] = (Total(sps', e) + Pending(relay', e)) % Word
  <2> DEFINE d == IF o \in 1..Len(sps) THEN CuOf(sps'[o], e) - CuOf(sps[o], e) ELSE 0
             c == Charge(g, e) - Charge(relay[r], e)
             n == Total(sps, e) + Pending(relay, e)
  <2>1. Total(sps', e) = Total(sps, e) + d
    <3>1. \A p \in 1..Len(sps') \ {o} : p \in 1..Len(sps) /\ sps'[p].CuSum = sps[p].CuSum
      BY DEF Touch
    <3> QED BY <3>1, TotalStep DEF Touch
  <2>2. Pending(relay', e) = Pending(relay, e) + Charge(g, e) - Charge(relay[r], e)
    <3>1. \A q \in Relays \ {r} : relay'[q] = relay[q]
      BY OthersStay
    <3> QED BY <1>0, <3>1, PendingStep
  <2>3. /\ Total(sps, e) \in Nat /\ Pending(relay, e) \in Nat /\ Charge(relay[r], e) \in Nat
        /\ Charge(g, e) \in Nat
    BY <1>0, TotalFacts, PendingFacts
  <2>4. d \in Int
    <3>1. CASE o \in 1..Len(sps)
      <4>1. sps[o] \in SingleProviderSession /\ sps'[o] \in SingleProviderSession
        BY <3>1 DEF Touch, SessionsStay
      <4> QED BY <3>1, <4>1, ObjectNumbers DEF CuOf
    <3> QED BY <3>1
  <2>5. n \in Int /\ c \in Int /\ Added(r, g, o, e) = d + c
    BY <2>3 DEF Added
  <2>6. used'[e] = ((n % Word) + (d + c)) % Word
    BY <1>2, <2>5 DEF ModInv, UsedMod
  <2>7. Total(sps', e) + Pending(relay', e) = n + (d + c)
    BY <2>1, <2>2, <2>3, <2>4
  <2> HIDE DEF d, c, n
  <2>8. ((n % Word) + (d + c)) % Word = (n + (d + c)) % Word
    <3>1. d + c \in Int
      BY <2>4, <2>5
    <3> QED BY <1>0, <2>5, <3>1, ModPlus
  <2> QED BY <2>6, <2>7, <2>8
<1> QED BY <1>1, <1>2 DEF ModInv, Olds, UsedMod

\* A step that adds nothing.
LEMMA ModStays ==
    ASSUME Base, Base', Locks, ModInv, NEW r \in Relays, NEW g, NEW o, Touch(r, g, o),
           o \in 1..Len(sps) => sps'[o].CuSum = sps[o].CuSum,
           \A e \in RequestEpochs : Charge(g, e) = Charge(relay[r], e),
           used' = used, g.pc \in {"write", "undo"} => g.old = sps'[o].CuSum
    PROVE  ModInv'
<1>1. ASSUME NEW e \in RequestEpochs PROVE used'[e] = (used[e] + Added(r, g, o, e)) % Word
  <2>1. relay[r] \in Goroutine /\ relay \in [Relays -> Goroutine]
    BY DEF Base
  <2>2. Charge(relay[r], e) \in Nat
    BY <2>1, PendingFacts
  <2>3. o \in 1..Len(sps) => CuOf(sps'[o], e) = CuOf(sps[o], e) /\ CuOf(sps[o], e) \in Nat
    <3>1. SUFFICES ASSUME o \in 1..Len(sps)
                   PROVE  CuOf(sps'[o], e) = CuOf(sps[o], e) /\ CuOf(sps[o], e) \in Nat
      OBVIOUS
    <3>2. sps[o] \in SingleProviderSession /\ sps'[o].key = sps[o].key
      BY <3>1 DEF Touch, SessionsStay
    <3> QED BY <3>1, <3>2, ObjectNumbers DEF CuOf
  <2>4. Added(r, g, o, e) = 0
    BY <2>2, <2>3 DEF Added
  <2>5. used[e] \in Words /\ used[e] \in Nat
    BY CountersNat
  <2>6. used[e] % Word = used[e]
    BY <2>5, WordFacts
  <2>7. used[e] + 0 = used[e]
    BY <2>5
  <2> QED BY <2>4, <2>6, <2>7
<1> QED BY <1>1, ModStep

\* A step of a relay that has a session: the session becomes y.
LEMMA ModHold ==
    ASSUME Base, Base', Locks, ModInv, NEW r \in Relays, relay[r].pc \in Holding, NEW g,
           relay' = [relay EXCEPT ![r] = g], g.pc \in Holding => SameRequest(g, relay[r]),
           NEW y \in SingleProviderSession, y.key = Session(r).key,
           sps' = [sps EXCEPT ![relay[r].obj] = y] \/ (sps' = sps /\ y = Session(r)),
           \A e \in RequestEpochs \ {relay[r].epoch} : used'[e] = used[e],
           used'[relay[r].epoch] =
             (used[relay[r].epoch] + ((y.CuSum - Session(r).CuSum)
               + (Charge(g, relay[r].epoch) - Charge(relay[r], relay[r].epoch)))) % Word,
           g.pc \in {"write", "undo"} => g.old = y.CuSum
    PROVE  ModInv'
<1> DEFINE o == relay[r].obj
           f == relay[r].epoch
           x == Session(r)
<1>0. /\ o \in 1..Len(sps) /\ x \in SingleProviderSession /\ x = sps[o] /\ x.lock = r
      /\ f \in RequestEpochs /\ x.key[1] = f /\ y.key[1] = f /\ sps \in Seq(SingleProviderSession)
  <2>1. o \in 1..Len(sps) /\ x \in SingleProviderSession /\ x.key = Key(r) /\ f \in RequestEpochs
    BY HasObject DEF WithSession
  <2>2. x.key[1] = f /\ y.key[1] = f
    BY <2>1 DEF Key
  <2>3. x.lock = r
    BY HoldsOwn
  <2> QED BY <2>1, <2>2, <2>3, CountersNat DEF Session
<1>1. /\ SessionsStay(sps, sps') /\ Len(sps') = Len(sps) /\ sps'[o] = y
      /\ \A p \in 1..Len(sps) \ {o} : sps'[p] = sps[p]
  <2>1. CASE sps' = sps /\ y = x
    BY <1>0, <2>1, CountersNat
  <2>2. CASE sps' = [sps EXCEPT ![o] = y]
    <3>1. SessionsStay(sps, sps') /\ Len(sps') = Len(sps)
      BY <2>2, ObjectStays DEF WithSession
    <3>2. sps'[o] = y /\ \A p \in 1..Len(sps) \ {o} : sps'[p] = sps[p]
      BY <1>0, <2>2, ChangeObject
    <3> QED BY <3>1, <3>2
  <2> QED BY <2>1, <2>2
<1>2. g.pc \in Holding => g.obj = o /\ g.epoch = f
  BY DEF SameRequest
<1>3. Touch(r, g, o)
  <2>1. \A p \in 1..Len(sps') \ {o} : p \in 1..Len(sps) /\ sps'[p] = sps[p]
    BY <1>1
  <2>2. o \in 1..Len(sps') /\ sps[o].lock = r
    BY <1>0, <1>1
  <2> HIDE DEF o
  <2> QED BY <1>0, <1>1, <1>2, <2>1, <2>2 DEF Touch, o
<1>4. ASSUME NEW e \in RequestEpochs PROVE used'[e] = (used[e] + Added(r, g, o, e)) % Word
  <2>1. CASE e = f
    <3>1. CuOf(x, f) = x.CuSum /\ CuOf(y, f) = y.CuSum
      BY <1>0 DEF CuOf
    <3>2. Added(r, g, o, f) = (y.CuSum - x.CuSum) + (Charge(g, f) - Charge(relay[r], f))
      BY <1>0, <1>1, <3>1 DEF Added
    <3> QED BY <2>1, <3>2
  <2>2. CASE e # f
    <3>1. CuOf(x, e) = 0 /\ CuOf(y, e) = 0 /\ Charge(g, e) = 0 /\ Charge(relay[r], e) = 0
      BY <1>0, <1>2, <2>2 DEF CuOf, Charge, Holding
    <3>2. Added(r, g, o, e) = 0
      BY <1>0, <1>1, <3>1 DEF Added
    <3>3. used[e] \in Words /\ used[e] \in Nat
      BY CountersNat
    <3>4. used[e] % Word = used[e]
      BY <3>3, WordFacts
    <3>5. used[e] + 0 = used[e] /\ used'[e] = used[e]
      BY <2>2, <3>3
    <3> QED BY <3>2, <3>4, <3>5
  <2> QED BY <2>1, <2>2
<1>5. g.pc \in {"write", "undo"} => g.old = sps'[o].CuSum
  BY <1>1
<1> QED BY <1>3, <1>4, <1>5, ModStep

\* Such a step that adds nothing.
LEMMA ModHoldStays ==
    ASSUME Base, Base', Locks, ModInv, NEW r \in Relays, relay[r].pc \in Holding, NEW g,
           relay' = [relay EXCEPT ![r] = g], g.pc \in Holding => SameRequest(g, relay[r]),
           NEW y \in SingleProviderSession, y.key = Session(r).key, y.CuSum = Session(r).CuSum,
           sps' = [sps EXCEPT ![relay[r].obj] = y] \/ (sps' = sps /\ y = Session(r)),
           used' = used, Charge(g, relay[r].epoch) = Charge(relay[r], relay[r].epoch),
           g.pc \in {"write", "undo"} => g.old = y.CuSum
    PROVE  ModInv'
<1> DEFINE f == relay[r].epoch
           c == Charge(relay[r], f)
<1>1. f \in RequestEpochs /\ Session(r) \in SingleProviderSession
  BY HasObject DEF WithSession
<1>2. used[f] \in Words /\ used[f] \in Nat /\ Session(r).CuSum \in Nat
  BY <1>1, CountersNat, ObjectNumbers
<1>3. c \in Nat
  <2>1. relay \in [Relays -> Goroutine]
    BY DEF Base
  <2> QED BY <2>1, PendingFacts
<1>4. used[f] + ((y.CuSum - Session(r).CuSum) + (Charge(g, f) - c)) = used[f]
  BY <1>2, <1>3
<1>5. used[f] % Word = used[f]
  BY <1>2, WordFacts
<1>6. used'[f] = (used[f] + ((y.CuSum - Session(r).CuSum) + (Charge(g, f) - c))) % Word
  BY <1>4, <1>5
<1> QED BY <1>6, ModHold

\* Steps of goroutines without a session leave sessions and counters alone.
LEMMA OutsideQuiet ==
    ASSUME Base, NEW r \in Relays, Outside(r),
           past \cap {"early", "raised"} = {}, past' \cap {"early", "raised"} = {}
    PROVE  /\ relay[r].pc \notin Holding /\ UNCHANGED <<sps, used>>
           /\ \E g : relay' = [relay EXCEPT ![r] = g] /\ g.pc \notin Holding
<1> USE DEF Holding, Steps
<1>0. relay \in [Relays -> Goroutine] /\ relay[r] \in Goroutine /\ Local(relay[r], sps, past)
  BY DEF Base
<1>1. ASSUME NEW pc \in Steps \ Holding, Goto(r, pc)
      PROVE  \E g : relay' = [relay EXCEPT ![r] = g] /\ g.pc \notin Holding
  BY <1>1, GotoKeeps
<1>2. CASE Receive(r)
  <2>1. PICK kind \in Kinds, k \in Keys, n \in RelayNums, c \in CuSums :
          relay' = [relay EXCEPT ![r] = [Idle EXCEPT !.pc = "get", !.kind = kind,
                      !.epoch = k[1], !.id = k[2], !.num = n, !.cu = c]]
    BY <1>2 DEF Receive
  <2> DEFINE g == [Idle EXCEPT !.pc = "get", !.kind = kind, !.epoch = k[1], !.id = k[2],
                               !.num = n, !.cu = c]
  <2>2. g.pc = "get"
    BY DEF Idle
  <2>3. relay' = [relay EXCEPT ![r] = g] /\ relay[r].pc = "idle" /\ UNCHANGED <<sps, used>>
    BY <1>2, <2>1 DEF Receive, At, counters
  <2> HIDE DEF g
  <2> QED BY <2>2, <2>3
<1>3. CASE GetSession(r)
  BY <1>1, <1>3 DEF GetSession, At, counters
<1>4. CASE NotPaired(r) \/ registerNewConsumer(r) \/ tryLockForUseFails(r) \/ Subscribed(r)
  BY <1>1, <1>4 DEF NotPaired, registerNewConsumer, tryLockForUseFails, Subscribed, At, counters
<1>5. CASE SubscribeFailed(r)
  BY <1>5 DEF SubscribeFailed
<1>6. CASE getBadgeEpochData(r) \/ registerBadgeEpochData(r)
  <2>1. relay[r].pc \in {"user", "newuser"} /\ UNCHANGED <<sps, used>>
    BY <1>6 DEF getBadgeEpochData, registerBadgeEpochData, At, counters
  <2>2. ASSUME NEW c, relay' = [relay EXCEPT ![r].pc = "lookup", ![r].badge = c]
        PROVE  \E g : relay' = [relay EXCEPT ![r] = g] /\ g.pc \notin Holding
    <3> DEFINE g == [relay[r] EXCEPT !.pc = "lookup", !.badge = c]
    <3>1. relay' = [relay EXCEPT ![r] = g] /\ g.pc = "lookup"
      BY <1>0, <2>2 DEF Goroutine
    <3> HIDE DEF g
    <3> QED BY <3>1
  <2> QED BY <1>1, <1>6, <2>1, <2>2 DEF getBadgeEpochData, registerBadgeEpochData
<1>7. CASE SendProof(r)
  <2>1. relay[r].pc = "proof" /\ UNCHANGED <<sps, used>>
    BY <1>7 DEF SendProof, At, counters
  <2>2. CASE Goto(r, "idle")
    BY <1>1, <2>1, <2>2
  <2>3. CASE ~ Goto(r, "idle")
    <3> DEFINE g == [relay[r] EXCEPT !.pc = "update", !.total = proofs[Key(r)]]
    <3>1. relay' = [relay EXCEPT ![r] = g]
      BY <1>0, <1>7, <2>3 DEF SendProof
    <3>2. g.pc = "update"
      BY <1>0 DEF Goroutine
    <3> HIDE DEF g
    <3> QED BY <2>1, <3>1, <3>2
  <2> QED BY <2>2, <2>3
<1>8. CASE UpdateSessionCU(r)
  <2>1. relay[r].pc = "update" /\ UNCHANGED <<sps, used>>
    BY <1>8 DEF UpdateSessionCU, At, counters
  <2>2. CASE Goto(r, "idle")
    BY <1>1, <2>1, <2>2
  <2>3. CASE ~ Goto(r, "idle")
    <3> DEFINE g == [relay[r] EXCEPT !.pc = "raise", !.obj = Sessions[Key(r)],
                                     !.old = sps[Sessions[Key(r)]].CuSum]
    <3>1. relay' = [relay EXCEPT ![r] = g]
      BY <1>0, <1>8, <2>3 DEF UpdateSessionCU
    <3>2. g.pc = "raise"
      BY <1>0 DEF Goroutine
    <3> HIDE DEF g
    <3> QED BY <2>1, <3>1, <3>2
  <2> QED BY <2>2, <2>3
<1>9. CASE writeCuSumAtomically(r)
  BY <1>9 DEF writeCuSumAtomically
<1>10. CASE atomicReadUsedComputeUnits(r) \/ atomicWriteUsedComputeUnits(r)
  BY <1>0, <1>10 DEF atomicReadUsedComputeUnits, atomicWriteUsedComputeUnits, At, Local
<1> QED BY <1>2, <1>3, <1>4, <1>5, <1>6, <1>7, <1>8, <1>9, <1>10 DEF Outside, Prove

\* What is known of a relay that has a session, whatever has wrapped around.
LEMMA ModFacts ==
    ASSUME Base, Locks, ModInv, NEW r \in Relays, relay[r].pc \in Holding
    PROVE  /\ relay[r].obj \in 1..Len(sps) /\ Session(r) = sps[relay[r].obj]
           /\ Session(r) \in SingleProviderSession /\ relay[r].epoch \in RequestEpochs
           /\ Session(r).lock # Free
           /\ relay[r].pc \in Fresh => Session(r).LatestRelayCu = 0
           /\ relay[r].pc \in {"write", "undo"} => relay[r].old = Session(r).CuSum
           /\ Session(r).CuSum \in Words /\ Session(r).LatestRelayCu \in Words
           /\ relay[r].total \in Words /\ relay[r].add \in Words
           /\ used[relay[r].epoch] \in Words /\ used \in [RequestEpochs -> Words]
           /\ relay[r] \in Goroutine /\ relay \in [Relays -> Goroutine]
           /\ relay[r].num \in RelayNums
<1>1. /\ relay[r].obj \in 1..Len(sps) /\ Session(r) = sps[relay[r].obj]
      /\ Session(r) \in SingleProviderSession /\ relay[r].epoch \in RequestEpochs
  BY HasObject DEF WithSession, Session
<1>2. Session(r).lock # Free /\ (relay[r].pc \in Fresh => Session(r).LatestRelayCu = 0)
  BY HoldsOwn
<1>3. relay[r].pc \in {"write", "undo"} => relay[r].old = Session(r).CuSum
  BY DEF ModInv, Olds, Session
<1>4. Session(r).CuSum \in Words /\ Session(r).LatestRelayCu \in Words
  BY <1>1 DEF SingleProviderSession
<1>5. relay[r] \in Goroutine /\ relay \in [Relays -> Goroutine] /\ used \in [RequestEpochs -> Words]
  BY DEF Base, Shared
<1>6. relay[r].total \in Words /\ relay[r].add \in Words
  BY <1>5 DEF Goroutine
<1>7. relay[r].num \in RelayNums
  <2>1. Local(relay[r], sps, past) /\ relay[r].pc # "idle"
    BY DEF Base, Holding
  <2> QED BY <2>1 DEF Local
<1> QED BY <1>1, <1>2, <1>3, <1>4, <1>5, <1>6, <1>7

\* The relays that prepare their session.
LEMMA ModPrepare ==
    ASSUME Base, Base', Locks, ModInv, NEW r \in Relays, Prepare(r), "early" \notin past'
    PROVE  ModInv'
<1> DEFINE f == relay[r].epoch
           x == Session(r)
           o == relay[r].obj
<1>0. relay[r].pc \in Holding
  BY DEF Prepare, CannotPrepare, PrepareSessionForUsage, ReadMissing, AddMissing, validateAndAddUsedCU,
         validateAndAddBadgeUsedCU, ReadCuSum, WriteCuSum, DisbandSession, At, Holding
<1>1. /\ o \in 1..Len(sps) /\ x = sps[o] /\ x \in SingleProviderSession /\ f \in RequestEpochs
      /\ (relay[r].pc \in Fresh => x.LatestRelayCu = 0)
      /\ (relay[r].pc = "write" => relay[r].old = x.CuSum)
  BY <1>0, ModFacts
<1>2. /\ x.CuSum \in Words /\ relay[r].add \in Words /\ relay[r].total \in Words /\ used[f] \in Words
      /\ relay[r] \in Goroutine /\ relay \in [Relays -> Goroutine] /\ used \in [RequestEpochs -> Words]
  BY <1>0, ModFacts
<1>3. Words \subseteq Nat /\ Word \in Nat \ {0}
  BY WordFacts
<1>15. x.CuSum \in Nat /\ relay[r].add \in Nat /\ used[f] \in Nat
  <2> HIDE DEF x, f
  <2> QED BY <1>2, <1>3
\* The session and the counters stay, and so does the charge.
<1>4. ASSUME NEW g, relay' = [relay EXCEPT ![r] = g], SameRequest(g, relay[r]), g.pc \notin {"write", "undo"},
             \/ {g.pc, relay[r].pc} \cap {"badge", "apply", "write"} = {}
             \/ {g.pc, relay[r].pc} \subseteq {"badge", "apply", "write"} /\ g.add = relay[r].add,
             UNCHANGED <<sps, used>>
      PROVE  ModInv'
  <2>1. Charge(g, f) = Charge(relay[r], f)
    BY <1>4 DEF Charge, SameRequest
  <2> QED BY <1>0, <1>1, <1>4, <2>1, ModHoldStays
<1>5. ASSUME NEW pc \in Steps \ {"idle"}, Goto(r, pc), UNCHANGED <<sps, used>>, pc # "write", pc # "undo",
             \/ {pc, relay[r].pc} \cap {"badge", "apply", "write"} = {}
             \/ {pc, relay[r].pc} \subseteq {"badge", "apply", "write"}
      PROVE  ModInv'
  <2>1. PICK g : relay' = [relay EXCEPT ![r] = g] /\ g.pc = pc /\ Kept(g, relay[r])
    BY <1>5, GotoKeeps
  <2> QED BY <1>4, <1>5, <2>1 DEF Kept
<1>6. CASE CannotPrepare(r)
  BY <1>5, <1>6 DEF CannotPrepare, At, Steps, counters
<1>7. CASE PrepareSessionForUsage(r)
  <2> DEFINE paid == [relay[r] EXCEPT !.pc = "charge", !.total = relay[r].cu]
             part == [relay[r] EXCEPT !.pc = "missing", !.total = relay[r].cu,
                                      !.add = Minus(Plus(CuFromSpec, x.CuSum), relay[r].cu)]
             none == [relay[r] EXCEPT !.pc = "missing", !.total = x.CuSum, !.add = CuFromSpec]
  <2>1. relay' \in {[relay EXCEPT ![r] = paid], [relay EXCEPT ![r] = part], [relay EXCEPT ![r] = none]}
    BY <1>7 DEF PrepareSessionForUsage
  <2>2. relay[r].pc = "prepare" /\ UNCHANGED <<sps, used>>
    BY <1>7 DEF PrepareSessionForUsage, At, counters
  <2>3. /\ paid.pc = "charge" /\ SameRequest(paid, relay[r])
        /\ part.pc = "missing" /\ SameRequest(part, relay[r])
        /\ none.pc = "missing" /\ SameRequest(none, relay[r])
    BY <1>2 DEF Goroutine, SameRequest
  <2> HIDE DEF paid, part, none
  <2> QED BY <1>4, <2>1, <2>2, <2>3
<1>8. CASE ReadMissing(r)
  <2> DEFINE g == [relay[r] EXCEPT !.pc = "missed", !.old = missing[f]]
  <2>1. relay[r].pc = "missing" /\ UNCHANGED <<sps, used>>
    BY <1>8 DEF ReadMissing, At, counters
  <2>2. CASE Goto(r, "disband")
    BY <1>5, <2>1, <2>2 DEF Steps
  <2>3. CASE ~ Goto(r, "disband")
    <3>1. relay' = [relay EXCEPT ![r] = g]
      BY <1>2, <1>8, <2>3 DEF ReadMissing
    <3>2. g.pc = "missed" /\ SameRequest(g, relay[r])
      BY <1>2 DEF Goroutine, SameRequest
    <3> HIDE DEF g
    <3> QED BY <1>4, <2>1, <3>1, <3>2
  <2> QED BY <2>2, <2>3
<1>9. CASE AddMissing(r)
  BY <1>5, <1>9 DEF AddMissing, At, Steps
<1>10. CASE validateAndAddUsedCU(r)
  <2> DEFINE cuToAdd == Minus(relay[r].total, x.CuSum)
             g == [relay[r] EXCEPT !.add = cuToAdd, !.pc = IF x.badge # 0 THEN "badge" ELSE "apply"]
  <2>1. UNCHANGED sps /\ relay[r].pc = "charge"
    BY <1>10 DEF validateAndAddUsedCU, At
  <2>2. CASE Goto(r, "disband") /\ UNCHANGED used
    BY <1>5, <2>1, <2>2 DEF Steps
  <2>3. CASE ~ (Goto(r, "disband") /\ UNCHANGED used)
    <3>1. relay' = [relay EXCEPT ![r] = g] /\ used' = [used EXCEPT ![f] = Plus(@, cuToAdd)]
      BY <1>2, <1>10, <2>3 DEF validateAndAddUsedCU
    <3>2. cuToAdd \in Words
      BY <1>2, WordOps
    <3>3. g.add = cuToAdd /\ g.pc \in {"badge", "apply"} /\ SameRequest(g, relay[r])
      BY <1>2 DEF Goroutine, SameRequest
    <3> HIDE DEF g, cuToAdd
    <3>4. Charge(g, f) = cuToAdd /\ Charge(relay[r], f) = 0
      BY <2>1, <3>3 DEF Charge, SameRequest
    <3>5. used[f] + ((x.CuSum - x.CuSum) + (Charge(g, f) - Charge(relay[r], f))) = used[f] + cuToAdd
      <4>1. cuToAdd \in Nat
        BY <1>3, <3>2
      <4> HIDE DEF x, f
      <4> QED BY <1>15, <3>4, <4>1
    <3>6. used'[f] = (used[f] + cuToAdd) % Word /\ \A e \in RequestEpochs \ {f} : used'[e] = used[e]
      BY <1>1, <1>2, <3>1 DEF Plus
    <3> QED BY <1>0, <1>1, <2>1, <3>1, <3>3, <3>5, <3>6, ModHold
  <2> QED BY <2>2, <2>3
<1>11. CASE validateAndAddBadgeUsedCU(r)
  <2>1. UNCHANGED used /\ relay[r].pc = "badge" /\ Goto(r, "apply") /\ UNCHANGED sps
    BY <1>11 DEF validateAndAddBadgeUsedCU, At
  <2> QED BY <1>5, <2>1 DEF Steps
<1>12. CASE ReadCuSum(r)
  <2> DEFINE y == [x EXCEPT !.LatestRelayCu = relay[r].add]
             g == [relay[r] EXCEPT !.pc = "write", !.old = x.CuSum]
  <2>1. /\ relay' = [relay EXCEPT ![r] = g] /\ sps' = [sps EXCEPT ![o] = y] /\ relay[r].pc = "apply"
        /\ UNCHANGED used
    BY <1>2, <1>12 DEF ReadCuSum, Session, At, counters
  <2>2. y \in SingleProviderSession /\ y.key = x.key /\ y.CuSum = x.CuSum
    BY <1>1, <1>2 DEF Goroutine, SingleProviderSession
  <2>3. /\ g.pc = "write" /\ SameRequest(g, relay[r]) /\ g.old = x.CuSum /\ g.add = relay[r].add
    BY <1>2 DEF Goroutine, SameRequest
  <2> HIDE DEF g, y
  <2>4. Charge(g, f) = Charge(relay[r], f)
    BY <2>1, <2>3 DEF Charge, SameRequest
  <2> QED BY <1>0, <2>1, <2>2, <2>3, <2>4, ModHoldStays
<1>13. CASE WriteCuSum(r)
  <2> DEFINE s == x.CuSum + relay[r].add
             y == [x EXCEPT !.CuSum = s % Word]
  <2>1. /\ Goto(r, "serve") /\ relay[r].pc = "write" /\ UNCHANGED used
        /\ sps' = [sps EXCEPT ![o] = [x EXCEPT !.CuSum = Plus(relay[r].old, relay[r].add)]]
    BY <1>13 DEF WriteCuSum, Session, At, counters
  <2>2. sps' = [sps EXCEPT ![o] = y]
    BY <1>1, <2>1 DEF Plus
  <2>3. PICK g : relay' = [relay EXCEPT ![r] = g] /\ g.pc = "serve" /\ Kept(g, relay[r])
    BY <2>1, GotoKeeps DEF Steps
  <2>4. s \in Int /\ s % Word \in Words
    <3>1. s \in Int
      BY <1>15
    <3> HIDE DEF s
    <3> QED BY <3>1, WordFacts
  <2>5. y \in SingleProviderSession /\ y.key = x.key /\ y.CuSum = s % Word
    <3> DEFINE w == s % Word
    <3> HIDE DEF w
    <3>1. w \in Words /\ y = [x EXCEPT !.CuSum = w]
      BY <2>4 DEF w
    <3>2. y \in SingleProviderSession /\ y.key = x.key /\ y.CuSum = w
      <4> HIDE DEF y
      <4> QED BY <1>1, <3>1 DEF SingleProviderSession
    <3> QED BY <3>2 DEF w
  <2> HIDE DEF y
  <2>6. Charge(g, f) = 0 /\ Charge(relay[r], f) = relay[r].add
    BY <2>1, <2>3 DEF Charge
  <2>7. (used[f] + ((y.CuSum - x.CuSum) + (Charge(g, f) - Charge(relay[r], f)))) % Word = used[f]
    <3> DEFINE w == s % Word
               b == used[f] - s
    <3>0. w \in Int /\ x.CuSum \in Int /\ relay[r].add \in Int /\ used[f] \in Int /\ b \in Int
      <4>1. w \in Int
        <5> HIDE DEF s
        <5> QED BY <1>3, <2>4
      <4> QED BY <1>15, <4>1
    <3>1. (w + b) % Word = (s + b) % Word
      BY <1>3, <2>4, <3>0, ModPlus
    <3> HIDE DEF w
    <3>2. used[f] + ((w - x.CuSum) + (0 - relay[r].add)) = w + b
      BY <3>0
    <3>3. s + b = used[f] /\ used[f] % Word = used[f]
      <4>1. used[f] % Word = used[f]
        BY <1>2, WordFacts
      <4> QED BY <3>0, <4>1
    <3> HIDE DEF s, b
    <3> QED BY <2>5, <2>6, <3>1, <3>2, <3>3 DEF w
  <2>8. SameRequest(g, relay[r]) /\ g.pc \notin {"write", "undo"}
    BY <2>3 DEF Kept
  <2> HIDE DEF s
  <2> QED BY <1>0, <2>1, <2>2, <2>3, <2>5, <2>7, <2>8, ModHold
<1>14. CASE DisbandSession(r)
  <2> DEFINE y == Unlocked(x)
  <2>1. /\ relay' = [relay EXCEPT ![r] = Idle] /\ sps' = [sps EXCEPT ![o] = y] /\ relay[r].pc = "disband"
        /\ UNCHANGED used
    BY <1>1, <1>14 DEF DisbandSession, Session, At, counters, Goto, Fresh
  <2>2. y \in SingleProviderSession /\ y.key = x.key /\ y.CuSum = x.CuSum
    BY <1>1 DEF Unlocked, SingleProviderSession
  <2> HIDE DEF y
  <2>3. Charge(Idle, f) = Charge(relay[r], f) /\ Idle.pc \notin Holding \cup {"write", "undo"}
    BY <2>1 DEF Charge, Idle, Holding
  <2> QED BY <1>0, <2>1, <2>2, <2>3, ModHoldStays
<1> QED BY <1>6, <1>7, <1>8, <1>9, <1>10, <1>11, <1>12, <1>13, <1>14 DEF Prepare

\* The relays that are done with their session, or fail.
LEMMA ModServe ==
    ASSUME Base, Base', Locks, ModInv, NEW r \in Relays, Serve(r), relay[r].pc \in Holding
    PROVE  ModInv'
<1> DEFINE f == relay[r].epoch
           x == Session(r)
           o == relay[r].obj
<1>0. relay[r].pc \in Counted
  BY DEF Serve, RelayDone, RelayFailed, SubscribeRefused, ReleaseSession, Subscribed,
         SubscribeFailed, OnSessionFailure, onSessionFailure, At, Counted, Holding
<1>1. /\ o \in 1..Len(sps) /\ x = sps[o] /\ x \in SingleProviderSession /\ f \in RequestEpochs
      /\ x.lock # Free /\ relay[r].num \in RelayNums
      /\ (relay[r].pc = "undo" => relay[r].old = x.CuSum)
  BY ModFacts
<1>2. /\ x.CuSum \in Words /\ x.LatestRelayCu \in Words /\ used[f] \in Words
      /\ relay[r] \in Goroutine /\ relay \in [Relays -> Goroutine] /\ used \in [RequestEpochs -> Words]
  BY ModFacts
<1>3. Words \subseteq Nat /\ Word \in Nat \ {0}
  BY WordFacts
<1>4. Charge(relay[r], f) = 0
  BY <1>0 DEF Charge, Counted
<1>5. ASSUME onSessionDone(r), NEW pc \in {"idle", "proof", "streaming"}, Goto(r, pc), UNCHANGED used
      PROVE  ModInv'
  <2> DEFINE y == Done(x, relay[r].num)
  <2>1. PICK g : relay' = [relay EXCEPT ![r] = g] /\ g.pc = pc
    BY <1>5, GotoKeeps DEF Steps
  <2>2. sps' = [sps EXCEPT ![o] = y]
    BY <1>1, <1>5 DEF onSessionDone
  <2>3. y \in SingleProviderSession /\ y.key = x.key
    BY <1>1, LeftOfObject
  <2>4. y.CuSum = x.CuSum
    <3>1. Unlocked(x) \in SingleProviderSession /\ Unlocked(x).CuSum = x.CuSum
      BY <1>1 DEF Unlocked, SingleProviderSession
    <3> QED BY <3>1 DEF Done, SingleProviderSession
  <2> HIDE DEF y
  <2>5. Charge(g, f) = Charge(relay[r], f) /\ g.pc \notin Holding \cup {"write", "undo"}
    BY <1>4, <2>1 DEF Charge, Holding
  <2> QED BY <1>5, <2>1, <2>2, <2>3, <2>4, <2>5, ModHoldStays
<1>6. CASE RelayDone(r)
  BY <1>5, <1>6 DEF RelayDone, counters
<1>7. CASE SubscribeRefused(r)
  BY <1>5, <1>7 DEF SubscribeRefused, counters
<1>8. CASE ReleaseSession(r)
  <2>1. onSessionDone(r) /\ Goto(r, "streaming") /\ UNCHANGED used
    BY <1>1, <1>8 DEF ReleaseSession, counters
  <2> QED BY <1>5, <2>1
<1>9. ASSUME NEW g, relay' = [relay EXCEPT ![r] = g], g.pc \in {"fail", "undo"}, SameRequest(g, relay[r]),
             g.pc = "undo" => g.old = x.CuSum, UNCHANGED <<sps, used>>
      PROVE  ModInv'
  <2>1. Charge(g, f) = Charge(relay[r], f)
    BY <1>4, <1>9 DEF Charge
  <2>2. g.pc \in {"write", "undo"} => g.old = x.CuSum
    BY <1>9
  <2> QED BY <1>1, <1>9, <2>1, <2>2, ModHoldStays
<1>10. CASE RelayFailed(r)
  <2>1. Goto(r, "fail") /\ UNCHANGED <<sps, used>>
    BY <1>10 DEF RelayFailed, counters
  <2>2. PICK g : relay' = [relay EXCEPT ![r] = g] /\ g.pc = "fail" /\ Kept(g, relay[r])
    BY <2>1, GotoKeeps DEF Steps
  <2> QED BY <1>9, <2>1, <2>2 DEF Kept
<1>11. CASE OnSessionFailure(r)
  <2>1. UNCHANGED used
    BY <1>11 DEF OnSessionFailure, counters
  <2>2. CASE onSessionDone(r) /\ Goto(r, "idle")
    BY <1>5, <2>1, <2>2
  <2>3. CASE ~ (onSessionDone(r) /\ Goto(r, "idle"))
    <3> DEFINE g == [relay[r] EXCEPT !.pc = "undo", !.old = x.CuSum]
    <3>1. relay' = [relay EXCEPT ![r] = g] /\ UNCHANGED sps
      BY <1>1, <1>2, <1>11, <2>3 DEF OnSessionFailure
    <3>2. g.pc = "undo" /\ SameRequest(g, relay[r]) /\ g.old = x.CuSum
      BY <1>2 DEF Goroutine, SameRequest
    <3> HIDE DEF g
    <3> QED BY <1>9, <2>1, <3>1, <3>2
  <2> QED BY <2>2, <2>3
<1>12. CASE onSessionFailure(r)
  <2> DEFINE cu == x.LatestRelayCu
             y == Undone(x, relay[r].old)
             s == x.CuSum - cu
  <2>1. /\ relay' = [relay EXCEPT ![r] = Idle] /\ sps' = [sps EXCEPT ![o] = y] /\ relay[r].pc = "undo"
        /\ used' = [used EXCEPT ![f] = Minus(@, cu)]
    BY <1>1, <1>12 DEF onSessionFailure, Session, Goto, At
  <2>2. y \in SingleProviderSession /\ y.key = x.key /\ y.CuSum = s % Word
    <3>1. Unlocked(x) \in SingleProviderSession /\ Unlocked(x).LatestRelayCu = x.LatestRelayCu
      BY <1>1 DEF Unlocked, SingleProviderSession
    <3>2. y.CuSum = Minus(relay[r].old, cu)
      BY <3>1 DEF Undone, SingleProviderSession
    <3>3. y \in SingleProviderSession /\ y.key = x.key
      BY <1>1, <1>2, <2>1, LeftOfObject
    <3> QED BY <1>1, <2>1, <3>2, <3>3 DEF Minus
  <2>3. cu \in Int /\ x.CuSum \in Int /\ used[f] \in Int
    <3>1. Words \subseteq Nat
      BY <1>3
    <3> HIDE DEF x, f
    <3>2. cu \in Nat /\ x.CuSum \in Nat /\ used[f] \in Nat
      BY <1>2, <3>1
    <3> QED BY <3>2
  <2>4. used'[f] = (used[f] - cu) % Word /\ \A e \in RequestEpochs \ {f} : used'[e] = used[e]
    BY <1>1, <1>2, <2>1 DEF Minus
  <2> HIDE DEF y, cu
  <2>5. Charge(Idle, f) = 0 /\ Idle.pc \notin Holding \cup {"write", "undo"}
    BY DEF Charge, Idle, Holding
  <2>6. (used[f] + ((y.CuSum - x.CuSum) + (Charge(Idle, f) - Charge(relay[r], f)))) % Word
          = (used[f] - cu) % Word
    <3> DEFINE w == s % Word
               b == used[f] - x.CuSum
    <3>1. s \in Int /\ b \in Int
      BY <2>3
    <3>2. w \in Int
      <4> HIDE DEF s
      <4>1. w \in Words
        BY <3>1, WordFacts
      <4> HIDE DEF w
      <4>2. w \in Nat
        BY <1>3, <4>1
      <4> QED BY <4>2
    <3>3. (w + b) % Word = (s + b) % Word
      BY <1>3, <3>1, ModPlus
    <3> HIDE DEF w
    <3>4. used[f] + ((w - x.CuSum) + (0 - 0)) = w + b /\ s + b = used[f] - cu
      BY <2>3, <3>2
    <3> HIDE DEF s, b
    <3> QED BY <1>4, <2>2, <2>5, <3>3, <3>4 DEF w
  <2> QED BY <2>1, <2>2, <2>4, <2>5, <2>6, ModHold
<1>13. CASE Subscribed(r) \/ SubscribeFailed(r)
  BY <1>13 DEF Subscribed, SubscribeFailed, At, Holding
<1> QED BY <1>6, <1>7, <1>8, <1>10, <1>11, <1>12, <1>13 DEF Serve

\* The account as it is kept whatever the consumer sends.
WordInv == LockInv /\ (past \subseteq {"recreated", "wrapped"} => ModInv)

\* Every step keeps it.
LEMMA WordNext == WordInv /\ [Next]_vars => WordInv'
<1> SUFFICES ASSUME WordInv, [Next]_vars, past' \subseteq {"recreated", "wrapped"} PROVE ModInv'
  BY LockNext DEF WordInv
<1>0. /\ Base /\ Base' /\ Locks /\ ModInv /\ "early" \notin past'
      /\ past \cap {"early", "raised"} = {} /\ past' \cap {"early", "raised"} = {}
  <2>1. past \subseteq {"recreated", "wrapped"}
    BY PastGrows
  <2> QED BY <2>1, LockNext DEF WordInv, LockInv
<1>1. CASE UNCHANGED <<sps, relay, used>>
  BY <1>0, <1>1 DEF ModInv, Olds, UsedMod
<1>2. ASSUME NEW r \in Relays, Lookup(r) \/ Prepare(r) \/ Serve(r) \/ Prove(r)
      PROVE  ModInv'
  <2>1. CASE Outside(r)
    <3>1. PICK g : relay' = [relay EXCEPT ![r] = g] /\ g.pc \notin Holding
      BY <1>0, <2>1, OutsideQuiet
    <3>2. relay[r].pc \notin Holding /\ UNCHANGED <<sps, used>>
      BY <1>0, <2>1, OutsideQuiet
    <3>3. Touch(r, g, 0) /\ 0 \notin 1..Len(sps)
      BY <1>0, <3>1, <3>2, CountersNat DEF Touch
    <3>4. \A e \in RequestEpochs : Charge(g, e) = Charge(relay[r], e)
      BY <3>1, <3>2 DEF Charge, Holding
    <3>5. g.pc \notin {"write", "undo"}
      BY <3>1 DEF Holding
    <3> QED BY <1>0, <3>2, <3>3, <3>4, <3>5, ModStays
  <2>2. CASE getExistingSession(r) \/ createNewSingleProviderSession(r)
    <3>1. PICK g, o : Taken(r, g, o)
      BY <1>0, <2>2, Takes
    <3>2. relay[r].pc \in {"lookup", "create"} /\ UNCHANGED used
      BY <1>0, <2>2, Takes
    <3>3. \A e \in RequestEpochs : Charge(g, e) = Charge(relay[r], e)
      BY <3>1, <3>2 DEF Taken, Charge
    <3> QED BY <1>0, <3>1, <3>2, <3>3, ModStays DEF Taken
  <2>3. CASE Prepare(r)
    BY <1>0, <2>3, ModPrepare
  <2>4. CASE Serve(r) /\ ~ Outside(r)
    <3>1. relay[r].pc \in Holding
      BY <2>4 DEF Serve, RelayDone, RelayFailed, SubscribeRefused, ReleaseSession, OnSessionFailure,
                  onSessionFailure, At, Holding, Outside
    <3> QED BY <1>0, <2>4, <3>1, ModServe
  <2> QED BY <1>2, <2>1, <2>2, <2>3, <2>4 DEF Lookup, Outside
<1> QED BY <1>1, <1>2 DEF Next, UpdateEpoch, vars, counters

\* It holds at the start.
LEMMA WordInit == Init => WordInv
<1> SUFFICES ASSUME Init PROVE ModInv
  BY LockInit DEF WordInv
<1>1. UsedSums
  BY SoundInit DEF SoundInv
<1>2. ASSUME NEW e \in RequestEpochs PROVE used[e] = (Total(sps, e) + Pending(relay, e)) % Word
  <2>1. used[e] = Total(sps, e) + Pending(relay, e) /\ used[e] = 0
    BY <1>1 DEF UsedSums, Init
  <2>2. 0 % Word = 0
    BY WordFacts
  <2> QED BY <2>1, <2>2
<1>3. Olds
  BY DEF Init, Olds, Idle
<1> QED BY <1>2, <1>3 DEF ModInv, UsedMod

\* As long as no lock is given up early and no sum raised behind a relay's back, the
\* CU a parent has used in an epoch are, to the word, those of all its sessions and
\* what relays are about to add: nothing that was charged is lost or counted twice,
\* for any number of goroutines, sessions and relays, and for any uint64 the
\* consumer sends, those that wrap around included.
THEOREM UsedIsAccounted == Spec => []UsedAccounted
<1>1. WordInv => UsedAccounted
  BY SumsMatch DEF WordInv, ModInv, UsedMod, UsedAccounted
<1> QED BY <1>1, WordInit, WordNext, PTL DEF Spec
=============================================================================

