------------------------ MODULE ConsumerSessionProofs ------------------------
(***************************************************************************)
(* The consumer's session manager, for any providers, relays, keys, epochs *)
(* and limits.                                                             *)
(***************************************************************************)
EXTENDS ConsumerSession, SumTheorems, SequenceTheorems

--------------------------------------------------------------------------------
(* Types. *)

SingleConsumerSession ==
    [locked : BOOLEAN, latest : Nat, cuSum : Nat, errors : Nat, blocked : BOOLEAN]

ConsumerSessionsWithProvider ==
    [used : Nat, refusals : Nat, sessions : Seq(SingleConsumerSession)]

\* An entry of a relay's sessions map, and the map.
Hold == [epoch : Epochs, session : Nat \ {0}, stage : {"held", "decrease", "block"},
         cu : Nat, report : BOOLEAN]
Maps == UNION {[D -> Hold] : D \in SUBSET Providers}

\* The steps at which a relay deals with one provider it has chosen.
Trying == {"session", "add", "disabled", "unusable"}

Goroutine ==
    [pc : {"idle", "reset", "choose", "fetch", "using"} \cup Trying,
     key : Keys, cu : Nat, resets : Nat, ignored : SUBSET Providers,
     ignoredEpoch : 0 .. LastEpoch, todo : SUBSET (Epochs \X Providers), wanted : Nat,
     held : Maps, epoch : 0 .. LastEpoch, provider : Providers \cup {0}, session : Nat]

\* The manager's own state, with what it says of the lists.
Manager ==
    /\ currentEpoch \in Epochs /\ setting \in Settings /\ numberOfResets \in Nat
    /\ validAddresses \in SUBSET Providers /\ addonAddresses \in [Keys -> SUBSET Providers]
    /\ CachesFresh

Types ==
    /\ Manager
    /\ cswp \in [Epochs \X Providers -> ConsumerSessionsWithProvider]
    /\ relay \in [Relays -> Goroutine]

\* A relay tries a provider once in an epoch: the ones it chose are ignored from
\* then on, so that none of them is in its map for that epoch already.
HasFor(g, e, p) == p \in DOMAIN g.held /\ g.held[p].epoch = e
Tries(g, now) ==
    /\ g.ignoredEpoch <= now
    /\ \A p \in DOMAIN g.held :
         /\ g.held[p].epoch <= g.ignoredEpoch
         /\ g.held[p].epoch = g.ignoredEpoch => p \in g.ignored
         /\ g.pc # "using" => g.held[p].stage = "held"
    /\ \A c \in g.todo : c[1] = g.ignoredEpoch /\ c[2] \in g.ignored /\ ~HasFor(g, c[1], c[2])
    /\ g.pc \in Trying =>
         /\ g.epoch = g.ignoredEpoch /\ g.epoch \in Epochs /\ g.provider \in g.ignored
         /\ <<g.epoch, g.provider>> \notin g.todo /\ ~HasFor(g, g.epoch, g.provider)
    /\ g.pc \in {"idle", "reset"} => g.held = <<>> /\ g.todo = {}

Base == Types /\ \A r \in Relays : Tries(relay[r], currentEpoch)

\* The maps a relay may have.
LEMMA MapFacts ==
    /\ \A m \in Maps : /\ DOMAIN m \subseteq Providers /\ m \in [DOMAIN m -> Hold]
                       /\ \A p \in DOMAIN m : m[p] \in Hold
    /\ \A D \in SUBSET Providers : \A m \in [D -> Hold] : m \in Maps
    /\ <<>> \in Maps /\ DOMAIN <<>> = {}
<1>1. \A m \in Maps : /\ DOMAIN m \subseteq Providers /\ m \in [DOMAIN m -> Hold]
                      /\ \A p \in DOMAIN m : m[p] \in Hold
  <2> SUFFICES ASSUME NEW m \in Maps
               PROVE  /\ DOMAIN m \subseteq Providers /\ m \in [DOMAIN m -> Hold]
                      /\ \A p \in DOMAIN m : m[p] \in Hold
    OBVIOUS
  <2>1. PICK D \in SUBSET Providers : m \in [D -> Hold]
    BY DEF Maps
  <2> QED BY <2>1
<1>2. \A D \in SUBSET Providers : \A m \in [D -> Hold] : m \in Maps
  BY DEF Maps
<1>3. <<>> \in [{} -> Hold] /\ DOMAIN <<>> = {}
  OBVIOUS
<1> QED BY <1>1, <1>2, <1>3, Zenon

\* What the constants are.
LEMMA ConstantFacts ==
    /\ LastEpoch \in Nat \ {0} /\ Epochs = 1 .. LastEpoch
    /\ RelayCu \subseteq Nat \ {0}
    /\ \A e \in Epochs : PairingOf(e) \subseteq Providers
    /\ DefaultKey \in Keys /\ Supports(DefaultKey) = Providers
    /\ \A x \in Settings : x.epochs \in Epochs /\ x.keys \subseteq Keys
    /\ MaxComputeUnits * (VirtualEpoch + 1) \in Nat
  BY NumbersAssumption, RelayAssumption, PairingAssumption, KeysAssumption, SettingsAssumption
  DEF Epochs

\* A relay that has not begun.
LEMMA IdleFacts ==
    /\ Idle \in Goroutine /\ Idle.pc = "idle" /\ Idle.held = <<>> /\ Idle.todo = {}
    /\ \A now \in Epochs : Tries(Idle, now)
<1>1. Idle \in Goroutine /\ Idle.pc = "idle" /\ Idle.held = <<>> /\ Idle.todo = {}
        /\ Idle.ignoredEpoch = 0
  BY MapFacts, ConstantFacts DEF Idle, Goroutine, Trying
<1>2. \A now \in Epochs : 0 <= now
  BY ConstantFacts
<1> QED BY <1>1, <1>2, MapFacts DEF Tries, Trying

\* The first pairing has arrived and no relay has begun.
LEMMA InitBase == Init => Base
<1> SUFFICES ASSUME Init PROVE Base
  OBVIOUS
<1>1. 1 \in Epochs /\ PairingOf(1) \subseteq Providers
  BY ConstantFacts
<1>2. Manager
  BY <1>1 DEF Init, Manager, CachesFresh, Pairing, NoAddresses
<1>3. NewConsumerSessionWithProvider \in ConsumerSessionsWithProvider
  BY DEF NewConsumerSessionWithProvider, ConsumerSessionsWithProvider
<1>4. cswp \in [Epochs \X Providers -> ConsumerSessionsWithProvider]
  BY <1>3 DEF Init
<1>5. relay \in [Relays -> Goroutine] /\ \A r \in Relays : relay[r] = Idle
  BY IdleFacts DEF Init
<1>6. \A r \in Relays : Tries(relay[r], currentEpoch)
  BY <1>1, <1>5, IdleFacts DEF Init
<1> QED BY <1>2, <1>4, <1>5, <1>6 DEF Base, Types

--------------------------------------------------------------------------------
(* What the steps leave alone. *)

\* The sessions and the compute units of every provider stay what they are.
SameUnits ==
    \A c \in Epochs \X Providers : /\ cswp'[c].sessions = cswp[c].sessions
                                   /\ cswp'[c].used = cswp[c].used

SameManager == UNCHANGED <<manager, setting>>

\* Steps outside the manager leave its lists as they are.
LEMMA SameManagerFresh == ASSUME Manager, SameManager PROVE Manager'
  BY DEF Manager, SameManager, manager, CachesFresh, Pairing

\* blockProvider removes the provider from the valid ones and drops the lists.
LEMMA BlockFresh ==
    ASSUME Manager, NEW p, NEW report, NEW e, NEW errored, NEW callback,
           BlockProvider(p, report, e, errored, callback), setting' = setting
    PROVE  Manager' /\ currentEpoch' = currentEpoch
<1>1. currentEpoch' = currentEpoch /\ numberOfResets' = numberOfResets
  BY DEF BlockProvider
<1>2. \/ /\ validAddresses' = validAddresses \ {p}
         /\ addonAddresses' = IF p \in validAddresses THEN NoAddresses ELSE addonAddresses
      \/ UNCHANGED <<validAddresses, addonAddresses>>
  BY DEF BlockProvider, RemoveAddressFromValidAddresses
<1>3. CASE p \notin validAddresses
  <2>1. validAddresses' = validAddresses /\ addonAddresses' = addonAddresses
    BY <1>2, <1>3
  <2> QED BY <1>1, <2>1 DEF Manager, CachesFresh, Pairing
<1>4. CASE p \in validAddresses
  BY <1>1, <1>2, <1>4 DEF Manager, CachesFresh, Pairing, NoAddresses
<1> QED BY <1>3, <1>4

\* A connection attempt counts refusals and nothing else.
LEMMA FetchStep ==
    ASSUME Types, NEW c, NEW f \in FetchOutcomes(cswp[c]),
           cswp' = [cswp EXCEPT ![c].refusals = f.refusals]
    PROVE  SameUnits /\ cswp' \in [Epochs \X Providers -> ConsumerSessionsWithProvider]
<1>1. CASE c \notin Epochs \X Providers
  <2>1. cswp' = cswp
    BY <1>1 DEF Types
  <2> QED BY <2>1, Zenon DEF SameUnits, Types
<1>2. CASE c \in Epochs \X Providers
  <2>1. cswp[c] \in ConsumerSessionsWithProvider
    BY <1>2 DEF Types
  <2>2. f.refusals \in Nat
    BY <2>1 DEF FetchOutcomes, ConsumerSessionsWithProvider
  <2> DEFINE y == [cswp[c] EXCEPT !.refusals = f.refusals]
  <2>3. y \in ConsumerSessionsWithProvider /\ y.sessions = cswp[c].sessions /\ y.used = cswp[c].used
    BY <2>1, <2>2 DEF ConsumerSessionsWithProvider
  <2>4. cswp' = [cswp EXCEPT ![c] = y]
    OBVIOUS
  <2> HIDE DEF y
  <2> QED BY <1>2, <2>3, <2>4 DEF SameUnits, Types
<1> QED BY <1>1, <1>2

\* A step of relay r, which moves to g.
LEMMA RelayStep ==
    ASSUME Base, Manager', currentEpoch' = currentEpoch,
           cswp' \in [Epochs \X Providers -> ConsumerSessionsWithProvider],
           NEW r \in Relays, NEW g \in Goroutine, Tries(g, currentEpoch),
           relay' = [relay EXCEPT ![r] = g]
    PROVE  Base'
<1>1. relay' \in [Relays -> Goroutine] /\ \A q \in Relays : relay'[q] = IF q = r THEN g ELSE relay[q]
  BY DEF Base, Types
<1> QED BY <1>1 DEF Base, Types

\* A step that moves no relay.
LEMMA OtherStep ==
    ASSUME Base, Manager', currentEpoch' >= currentEpoch,
           cswp' \in [Epochs \X Providers -> ConsumerSessionsWithProvider], relay' = relay
    PROVE  Base'
<1>1. ASSUME NEW r \in Relays PROVE Tries(relay'[r], currentEpoch')
  <2>1. relay[r] \in Goroutine /\ Tries(relay[r], currentEpoch) /\ relay'[r] = relay[r]
    BY DEF Base, Types
  <2>2. relay[r].ignoredEpoch \in Int /\ currentEpoch \in Int /\ currentEpoch' \in Int
          /\ relay[r].ignoredEpoch <= currentEpoch
    BY <2>1, ConstantFacts DEF Base, Types, Manager, Goroutine, Tries
  <2>3. relay[r].ignoredEpoch <= currentEpoch'
    BY <2>2
  <2> QED BY <2>1, <2>3 DEF Tries
<1> QED BY <1>1 DEF Base, Types

--------------------------------------------------------------------------------
(* The steps of the search that take no session. *)

\* No relay's sessions change, nor what it is about to enter.
Still ==
    /\ SameUnits
    /\ \A q \in Relays : \/ relay'[q] = relay[q]
                         \/ /\ relay'[q].held = relay[q].held
                            /\ "add" \notin {relay[q].pc, relay'[q].pc}

\* A relay that moves with the same map, and does not enter a session.
LEMMA StillStep ==
    ASSUME Base, SameUnits, NEW r \in Relays, NEW g, relay' = [relay EXCEPT ![r] = g],
           g.held = relay[r].held, "add" \notin {relay[r].pc, g.pc}
    PROVE  Still
<1>1. \A q \in Relays : relay'[q] = IF q = r THEN g ELSE relay[q]
  BY DEF Base, Types
<1> QED BY <1>1 DEF Still

\* Steps that leave the providers' records alone.
LEMMA SameCswp ==
    ASSUME Types, cswp' = cswp
    PROVE  SameUnits /\ cswp' \in [Epochs \X Providers -> ConsumerSessionsWithProvider]
  BY DEF Types, SameUnits

\* What the invariant says of one relay.
LEMMA RelayFacts ==
    ASSUME Base, NEW r \in Relays
    PROVE  /\ relay[r] \in Goroutine /\ Tries(relay[r], currentEpoch)
           /\ currentEpoch \in Epochs /\ currentEpoch \in 0 .. LastEpoch /\ currentEpoch \in Nat
           /\ relay \in [Relays -> Goroutine]
  BY ConstantFacts DEF Base, Types, Manager

\* The list of a key has valid providers that support it.
LEMMA ListFacts ==
    ASSUME Manager, NEW k \in Keys
    PROVE  GetValidAddresses(k) \subseteq validAddresses \cap Supports(k)
  BY DEF GetValidAddresses, CalculateAddonValidAddresses, Manager, CachesFresh

\* A search that has begun and has tried nothing.
LEMMA BegunTries ==
    ASSUME NEW g, NEW now \in Nat, g.ignoredEpoch = now, g.held = <<>>, g.todo = {},
           g.pc \in {"reset", "choose"}
    PROVE  Tries(g, now)
<1>1. DOMAIN g.held = {} /\ now <= now
  OBVIOUS
<1>2. g.pc \notin Trying
  BY DEF Trying
<1> QED BY <1>1, <1>2 DEF Tries

\* validatePairingListNotEmpty caches the list of the key.
LEMMA ValidateBase ==
    ASSUME Base, NEW r \in Relays, Validate(r) PROVE Base' /\ Still
<1>1. PICK k \in setting.keys, cu \in RelayCu :
        LET addresses == GetValidAddresses(k)
        IN  /\ addonAddresses' = [addonAddresses EXCEPT ![k] = addresses]
            /\ relay' = [relay EXCEPT ![r] =
                 [Idle EXCEPT !.pc = IF addresses = {} THEN "reset" ELSE "choose",
                              !.key = k, !.cu = cu, !.resets = numberOfResets,
                              !.ignoredEpoch = currentEpoch]]
  BY Zenon DEF Validate
<1>2. k \in Keys /\ cu \in Nat /\ Manager
  BY ConstantFacts DEF Base, Types, Manager
<1>3. relay[r].pc = "idle" /\ relay[r].held = <<>> /\ SameUnits
        /\ cswp' \in [Epochs \X Providers -> ConsumerSessionsWithProvider]
  BY RelayFacts, SameCswp, Zenon DEF Validate, Tries, Base
<1>4. Manager' /\ currentEpoch' = currentEpoch
  BY <1>1, <1>2, ListFacts, Zenon DEF Validate, Manager, CachesFresh, Pairing
<1> DEFINE pc == IF GetValidAddresses(k) = {} THEN "reset" ELSE "choose"
           g == [Idle EXCEPT !.pc = pc, !.key = k, !.cu = cu, !.resets = numberOfResets,
                             !.ignoredEpoch = currentEpoch]
<1>5. g \in Goroutine /\ g.pc = pc /\ g.held = <<>> /\ g.todo = {} /\ g.ignoredEpoch = currentEpoch
  BY <1>2, IdleFacts, RelayFacts, Zenon DEF Goroutine, Manager
<1>6. relay' = [relay EXCEPT ![r] = g] /\ pc \in {"reset", "choose"}
  BY <1>1
<1> HIDE DEF g
<1>7. Tries(g, currentEpoch)
  BY <1>5, <1>6, RelayFacts, BegunTries
<1> QED BY <1>3, <1>4, <1>5, <1>6, <1>7, RelayStep, StillStep, Zenon

\* resetValidAddresses makes paired providers valid again.
LEMMA ResetBase ==
    ASSUME Base, NEW r \in Relays, ResetValidAddresses(r) PROVE Base' /\ Still
<1>1. /\ relay[r] \in Goroutine /\ relay[r].pc = "reset" /\ relay[r].held = <<>> /\ relay[r].todo = {}
      /\ relay[r].key \in Keys
  BY RelayFacts, Zenon DEF ResetValidAddresses, Tries, Goroutine
<1>2. SameUnits /\ cswp' \in [Epochs \X Providers -> ConsumerSessionsWithProvider]
        /\ currentEpoch' = currentEpoch /\ setting' = setting
  BY SameCswp DEF ResetValidAddresses, Base
<1>3. Manager'
  <2>1. CASE GetValidAddresses(relay[r].key) # {}
    BY <1>2, <2>1 DEF ResetValidAddresses, Base, Types, Manager, CachesFresh, Pairing
  <2>2. CASE GetValidAddresses(relay[r].key) = {}
    <3> DEFINE k == relay[r].key
               D == Pairing \cap Supports(k)
    <3>1. /\ validAddresses' = validAddresses \cup D
          /\ addonAddresses' = IF k = DefaultKey THEN addonAddresses ELSE [addonAddresses EXCEPT ![k] = D]
          /\ numberOfResets' = numberOfResets + 1
      BY <2>2 DEF ResetValidAddresses, SetValidAddressesToDefaultValue
    <3>2. D \subseteq Providers /\ D \subseteq Pairing /\ D \subseteq Supports(k)
      BY ConstantFacts DEF Base, Types, Manager, Pairing
    <3> HIDE DEF D
    <3>3. Pairing' = Pairing
      BY <1>2 DEF Pairing
    <3>4. CachesFresh'
      BY <1>1, <3>1, <3>2, <3>3 DEF Base, Types, Manager, CachesFresh
    <3> QED BY <1>1, <1>2, <3>1, <3>2, <3>4 DEF Base, Types, Manager
  <2> QED BY <2>1, <2>2
<1> DEFINE n == numberOfResets'
           g == [relay[r] EXCEPT !.pc = "choose", !.resets = n, !.ignoredEpoch = currentEpoch]
<1>4. n \in Nat
  BY <1>3 DEF Manager
<1>5. relay' = [relay EXCEPT ![r] = g]
  BY RelayFacts, Zenon DEF ResetValidAddresses
<1> HIDE DEF n
<1>6. g \in Goroutine /\ g.pc = "choose" /\ g.held = <<>> /\ g.todo = {} /\ g.ignoredEpoch = currentEpoch
  BY <1>1, <1>4, RelayFacts, Zenon DEF Goroutine
<1> HIDE DEF g
<1>7. Tries(g, currentEpoch)
  BY <1>6, RelayFacts, BegunTries
<1> QED BY <1>1, <1>2, <1>3, <1>5, <1>6, <1>7, RelayStep, StillStep, Zenon

\* After a provider the relay goes on with the search.
LEMMA ContinueFacts ==
    ASSUME NEW rec \in Goroutine, NEW now, Tries(rec, now), rec.pc \in Trying \cup {"fetch"},
           NEW I \in SUBSET Providers
    PROVE  /\ Continue(rec, I) \in Goroutine /\ Tries(Continue(rec, I), now)
           /\ Continue(rec, I).held = rec.held /\ Continue(rec, I).pc \in {"choose", "fetch"}
           /\ Continue(rec, I).ignored = rec.ignored \cup I
           /\ Continue(rec, I).ignoredEpoch = rec.ignoredEpoch /\ Continue(rec, I).todo = rec.todo
<1> DEFINE g == Continue(rec, I)
<1>1. /\ g \in Goroutine /\ g.held = rec.held /\ g.pc \in {"choose", "fetch"} /\ g.todo = rec.todo
      /\ g.ignored = rec.ignored \cup I /\ g.ignoredEpoch = rec.ignoredEpoch
  BY Zenon DEF Goroutine, Continue
<1> HIDE DEF g
<1>2. Tries(g, now)
  BY <1>1 DEF Tries, Trying, HasFor
<1> QED BY <1>1, <1>2 DEF g

\* The providers chosen were not tried in this epoch.
LEMMA ChooseBase ==
    ASSUME Base, NEW r \in Relays, Choose(r) PROVE Base' /\ Still
<1>0. /\ relay[r] \in Goroutine /\ Tries(relay[r], currentEpoch) /\ relay[r].pc = "choose"
      /\ SameUnits /\ cswp' \in [Epochs \X Providers -> ConsumerSessionsWithProvider]
      /\ Manager' /\ currentEpoch' = currentEpoch
  BY RelayFacts, SameCswp, SameManagerFresh DEF Choose, Base, Types, SameManager, manager
<1>1. PICK chosen \in SUBSET Paying(r) \ {{}}, unpaid \in SUBSET (Candidates(r) \ Paying(r)) :
        relay' = [relay EXCEPT ![r] =
              [@ EXCEPT !.pc = "fetch",
                        !.ignored = Ignored(r) \cup chosen \cup unpaid,
                        !.ignoredEpoch = currentEpoch,
                        !.wanted = IF relay[r].wanted = 0 THEN Cardinality(chosen) ELSE relay[r].wanted,
                        !.todo = {<<currentEpoch, p>> : p \in chosen}]]
  BY Zenon DEF Choose
<1>2. Candidates(r) \subseteq Providers \ Ignored(r) /\ Paying(r) \subseteq Candidates(r)
  <2>1. GetValidAddresses(relay[r].key) \subseteq validAddresses /\ validAddresses \subseteq Providers
    BY <1>0, ListFacts DEF Base, Types, Manager, Goroutine
  <2> QED BY <2>1, Zenon DEF Candidates, Paying
<1>3. chosen \subseteq Providers /\ unpaid \subseteq Providers /\ Ignored(r) \subseteq Providers
        /\ chosen \cap Ignored(r) = {}
  BY <1>0, <1>2 DEF Ignored, Goroutine
<1>4. Cardinality(chosen) \in Nat
  BY <1>3, FS_Subset, FS_CardinalityType, FiniteAssumption
<1> DEFINE w == IF relay[r].wanted = 0 THEN Cardinality(chosen) ELSE relay[r].wanted
           I == Ignored(r) \cup chosen \cup unpaid
           todo == {<<currentEpoch, p>> : p \in chosen}
           g == [relay[r] EXCEPT !.pc = "fetch", !.ignored = I, !.ignoredEpoch = currentEpoch,
                                 !.wanted = w, !.todo = todo]
<1>5. relay' = [relay EXCEPT ![r] = g]
  BY <1>1
<1>6. w \in Nat /\ I \subseteq Providers /\ todo \subseteq Epochs \X Providers
        /\ \A c \in todo : c[1] = currentEpoch /\ c[2] \in chosen
  BY <1>0, <1>3, <1>4, RelayFacts DEF Goroutine
<1> HIDE DEF w, todo
<1>7. g \in Goroutine /\ g.pc = "fetch" /\ g.held = relay[r].held /\ g.todo = todo
        /\ g.ignored = I /\ g.ignoredEpoch = currentEpoch
  BY <1>0, <1>6, RelayFacts, Zenon DEF Goroutine
<1> HIDE DEF g
<1>8. Tries(g, currentEpoch)
  <2>0. \A p \in DOMAIN relay[r].held : relay[r].held[p].epoch \in Int
    BY <1>0, MapFacts, ConstantFacts DEF Goroutine, Hold
  <2>1. currentEpoch \in Nat /\ relay[r].ignoredEpoch \in Int
    BY <1>0, RelayFacts, ConstantFacts DEF Goroutine
  <2>2. \A p \in DOMAIN relay[r].held : /\ relay[r].held[p].epoch <= currentEpoch
                                        /\ relay[r].held[p].stage = "held"
    BY <1>0, <2>0, <2>1 DEF Tries
  <2>3. \A p \in DOMAIN relay[r].held : relay[r].held[p].epoch = currentEpoch => p \in Ignored(r)
    BY <1>0, <2>0, <2>1 DEF Tries, Ignored
  <2>4. \A c \in todo : ~HasFor(g, c[1], c[2])
    BY <1>3, <1>6, <1>7, <2>3 DEF HasFor
  <2>5. currentEpoch <= currentEpoch /\ "fetch" \notin Trying
    BY <2>1 DEF Trying
  <2> QED BY <1>6, <1>7, <2>2, <2>3, <2>4, <2>5 DEF Tries
<1> QED BY <1>0, <1>5, <1>7, <1>8, RelayStep, StillStep, Zenon

\* A search without candidates ends.
LEMMA NoneLeftBase ==
    ASSUME Base, NEW r \in Relays, NoneLeft(r) PROVE Base' /\ Still
<1>0. /\ relay[r] \in Goroutine /\ Tries(relay[r], currentEpoch) /\ relay[r].pc = "choose"
      /\ SameUnits /\ cswp' \in [Epochs \X Providers -> ConsumerSessionsWithProvider]
      /\ Manager' /\ currentEpoch' = currentEpoch
  BY RelayFacts, SameCswp, SameManagerFresh DEF NoneLeft, Base, Types, SameManager, manager
<1>1. CASE relay[r].held = <<>>
  <2>1. relay' = [relay EXCEPT ![r] = Idle]
    BY <1>1, RelayFacts DEF NoneLeft
  <2> QED BY <1>0, <1>1, <2>1, IdleFacts, RelayFacts, RelayStep, StillStep, Zenon
<1>2. CASE relay[r].held # <<>>
  <2> DEFINE g == [relay[r] EXCEPT !.pc = "using"]
  <2>1. relay' = [relay EXCEPT ![r] = g]
    BY <1>2, RelayFacts DEF NoneLeft
  <2>2. g \in Goroutine /\ g.pc = "using" /\ g.held = relay[r].held /\ g.todo = relay[r].todo
          /\ g.ignored = relay[r].ignored /\ g.ignoredEpoch = relay[r].ignoredEpoch
    BY <1>0 DEF Goroutine
  <2> HIDE DEF g
  <2>3. Tries(g, currentEpoch)
    BY <1>0, <2>2 DEF Tries, Trying, HasFor
  <2> QED BY <1>0, <2>1, <2>2, <2>3, RelayStep, StillStep, Zenon
<1> QED BY <1>1, <1>2

\* A connection attempt leads to a session, to a block or to the next provider.
LEMMA FetchBase ==
    ASSUME Base, NEW r \in Relays, Fetch(r) PROVE Base' /\ Still
<1>0. /\ relay[r] \in Goroutine /\ Tries(relay[r], currentEpoch) /\ relay[r].pc = "fetch"
      /\ Manager' /\ currentEpoch' = currentEpoch
  BY RelayFacts, SameManagerFresh DEF Fetch, Base, Types, SameManager, manager
<1>1. PICK c \in relay[r].todo : \E f \in FetchOutcomes(cswp[c]) :
         LET rec == [relay[r] EXCEPT !.todo = @ \ {c}, !.epoch = c[1], !.provider = c[2]]
         IN  /\ cswp' = [cswp EXCEPT ![c].refusals = f.refusals]
             /\ relay' = [relay EXCEPT ![r] =
                  IF f.connected THEN [rec EXCEPT !.pc = "session"]
                  ELSE IF AllDisabled(f) THEN [rec EXCEPT !.pc = "disabled"]
                  ELSE Continue(rec, {c[2]})]
  BY Zenon DEF Fetch
<1> DEFINE rec == [relay[r] EXCEPT !.todo = @ \ {c}, !.epoch = c[1], !.provider = c[2]]
<1>2. PICK f \in FetchOutcomes(cswp[c]) :
         /\ cswp' = [cswp EXCEPT ![c].refusals = f.refusals]
         /\ relay' = [relay EXCEPT ![r] =
              IF f.connected THEN [rec EXCEPT !.pc = "session"]
              ELSE IF AllDisabled(f) THEN [rec EXCEPT !.pc = "disabled"]
              ELSE Continue(rec, {c[2]})]
  BY <1>1, Zenon
<1>3. SameUnits /\ cswp' \in [Epochs \X Providers -> ConsumerSessionsWithProvider]
  BY <1>2, FetchStep, Zenon DEF Base
<1>4. c \in Epochs \X Providers /\ c[1] \in Epochs /\ c[1] \in 0 .. LastEpoch /\ c[2] \in Providers
        /\ <<c[1], c[2]>> = c
  BY <1>0, ConstantFacts DEF Goroutine
<1>5. c[1] = relay[r].ignoredEpoch /\ c[2] \in relay[r].ignored /\ ~HasFor(relay[r], c[1], c[2])
  BY <1>0 DEF Tries
<1>6. /\ rec \in Goroutine /\ rec.pc = "fetch" /\ rec.held = relay[r].held
      /\ rec.ignored = relay[r].ignored /\ rec.ignoredEpoch = relay[r].ignoredEpoch
      /\ rec.todo = relay[r].todo \ {c} /\ rec.epoch = c[1] /\ rec.provider = c[2]
  BY <1>0, <1>4, Zenon DEF Goroutine
<1> HIDE DEF rec
<1>7. Tries(rec, currentEpoch)
  BY <1>0, <1>6 DEF Tries, Trying, HasFor
<1>8. ASSUME NEW pc \in {"session", "disabled"}, relay' = [relay EXCEPT ![r] = [rec EXCEPT !.pc = pc]]
      PROVE  Base' /\ Still
  <2> DEFINE g == [rec EXCEPT !.pc = pc]
  <2>1. /\ g \in Goroutine /\ g.pc = pc /\ g.held = rec.held /\ g.todo = rec.todo
        /\ g.ignored = rec.ignored /\ g.ignoredEpoch = rec.ignoredEpoch
        /\ g.epoch = rec.epoch /\ g.provider = rec.provider
    BY <1>6 DEF Goroutine, Trying
  <2>2. relay' = [relay EXCEPT ![r] = g]
    BY <1>8
  <2> HIDE DEF g
  <2>3. g.epoch = g.ignoredEpoch /\ g.epoch \in Epochs /\ g.provider \in g.ignored
          /\ <<g.epoch, g.provider>> \notin g.todo /\ ~HasFor(g, g.epoch, g.provider)
    BY <1>4, <1>5, <1>6, <2>1 DEF HasFor
  <2>4. Tries(g, currentEpoch)
    BY <1>6, <1>7, <2>1, <2>3 DEF Tries, HasFor
  <2> QED BY <1>0, <1>3, <1>6, <2>1, <2>2, <2>4, RelayStep, StillStep, Zenon
<1>9. CASE relay' = [relay EXCEPT ![r] = Continue(rec, {c[2]})]
  <2>1. {c[2]} \in SUBSET Providers /\ rec.pc \in Trying \cup {"fetch"}
    BY <1>4, <1>6
  <2> DEFINE g == Continue(rec, {c[2]})
  <2>2. g \in Goroutine /\ Tries(g, currentEpoch) /\ g.held = rec.held /\ g.pc \in {"choose", "fetch"}
    BY <1>6, <1>7, <2>1, ContinueFacts
  <2> HIDE DEF g
  <2>3. relay' = [relay EXCEPT ![r] = g]
    BY <1>9 DEF g
  <2> QED BY <1>0, <1>3, <1>6, <2>2, <2>3, RelayStep, StillStep, Zenon
<1> QED BY <1>2, <1>8, <1>9, Zenon

\* The two steps of the search that block a provider.
LEMMA SearchBlocksBase ==
    ASSUME Base, NEW r \in Relays, FetchBlocks(r) \/ SessionsBlock(r) PROVE Base' /\ Still
<1>1. Manager' /\ currentEpoch' = currentEpoch
  BY BlockFresh, Zenon DEF FetchBlocks, SessionsBlock, Base, Types
<1>2. SameUnits /\ cswp' \in [Epochs \X Providers -> ConsumerSessionsWithProvider]
  BY SameCswp, Zenon DEF FetchBlocks, SessionsBlock, Base
<1>3. relay' = [relay EXCEPT ![r] = Continue(relay[r], {})] /\ relay[r].pc \in {"disabled", "unusable"}
  BY RelayFacts, Zenon DEF FetchBlocks, SessionsBlock
<1>4. relay[r].pc \in Trying \cup {"fetch"} /\ relay[r].pc # "add"
  BY <1>3 DEF Trying
<1> QED BY <1>1, <1>2, <1>3, <1>4, ContinueFacts, RelayFacts, RelayStep, StillStep, Zenon

--------------------------------------------------------------------------------
(* Who has which session. *)

Pairs == Epochs \X Providers
Has(g, c, s) == HoldsIn(g, c[1], c[2], s)
Enters(g, c, s) == g.pc = "add" /\ <<g.epoch, g.provider, g.session>> = <<c[1], c[2], s>>

\* A session a relay has exists, is locked and is not blocklisted; no two relays
\* have it; and nothing is spent on it before the relay enters it in its map.
Borrowed ==
    \A r \in Relays, c \in Pairs, s \in Nat : Has(relay[r], c, s) =>
        /\ s \in DOMAIN cswp[c].sessions
        /\ cswp[c].sessions[s].locked /\ ~cswp[c].sessions[s].blocked
        /\ Enters(relay[r], c, s) => cswp[c].sessions[s].latest = 0
        /\ \A q \in Relays : Has(relay[q], c, s) => q = r

\* A session that is not locked has nothing spent on it that was not answered; one
\* that is locked, in this epoch or a later one, some relay has.
Kept ==
    \A c \in Pairs : \A s \in DOMAIN cswp[c].sessions :
        /\ ~cswp[c].sessions[s].locked => cswp[c].sessions[s].latest = 0
        /\ c[1] >= currentEpoch /\ cswp[c].sessions[s].locked => \E r \in Relays : Has(relay[r], c, s)

\* The relays have the sessions they had, and the sessions are the same.
SameHolders ==
    /\ \A c \in Pairs : cswp'[c].sessions = cswp[c].sessions
    /\ \A r \in Relays, c \in Pairs, s \in Nat :
         /\ Has(relay'[r], c, s) <=> Has(relay[r], c, s)
         /\ Enters(relay'[r], c, s) <=> Enters(relay[r], c, s)

\* The types of a provider's sessions and counters.
LEMMA SessionFacts ==
    ASSUME Types, NEW c \in Pairs
    PROVE  /\ cswp[c] \in ConsumerSessionsWithProvider /\ cswp[c].sessions \in Seq(SingleConsumerSession)
           /\ cswp[c].used \in Nat /\ cswp[c].refusals \in Nat
           /\ Len(cswp[c].sessions) \in Nat /\ DOMAIN cswp[c].sessions = 1 .. Len(cswp[c].sessions)
           /\ \A s \in DOMAIN cswp[c].sessions : s \in Nat /\ cswp[c].sessions[s] \in SingleConsumerSession
           /\ c[1] \in Epochs /\ c[2] \in Providers /\ c = <<c[1], c[2]>>
<1>1. cswp[c] \in ConsumerSessionsWithProvider
  BY DEF Types, Pairs
<1>2. cswp[c].sessions \in Seq(SingleConsumerSession) /\ cswp[c].used \in Nat /\ cswp[c].refusals \in Nat
  BY <1>1 DEF ConsumerSessionsWithProvider
<1> QED BY <1>1, <1>2 DEF Pairs

\* While holders and sessions stay, so does what is said of them; a later epoch asks for less.
LEMMA SameHoldersKeep ==
    ASSUME Types, Borrowed, Kept, SameHolders, currentEpoch' \in Int, currentEpoch' >= currentEpoch
    PROVE  Borrowed' /\ Kept'
<1>1. Borrowed'
  BY DEF Borrowed, SameHolders
<1>2. Kept'
  <2> SUFFICES ASSUME NEW c \in Pairs, NEW s \in DOMAIN cswp[c].sessions
      PROVE  /\ ~cswp[c].sessions[s].locked => cswp[c].sessions[s].latest = 0
             /\ c[1] >= currentEpoch' /\ cswp[c].sessions[s].locked => \E r \in Relays : Has(relay'[r], c, s)
    BY DEF SameHolders, Kept
  <2>1. s \in Nat /\ c[1] \in Int /\ currentEpoch \in Int
    BY SessionFacts, ConstantFacts DEF Types, Manager
  <2> QED BY <2>1 DEF SameHolders, Kept
<1> QED BY <1>1, <1>2

\* Steps without a session change no holder.
LEMMA StillHolders == ASSUME Still PROVE SameHolders
  BY DEF Still, SameUnits, SameHolders, Has, HoldsIn, Enters, Pairs

\* A step of relay r on session s with provider c: the session becomes x, which is
\* new if there was no session s, u units are counted and the relay moves to g.
SessionStep(r, c, s, x, u, g) ==
    /\ r \in Relays /\ c \in Pairs /\ s \in Nat /\ x \in SingleConsumerSession /\ u \in Nat
    /\ g \in Goroutine /\ relay' = [relay EXCEPT ![r] = g]
    /\ cswp' \in [Pairs -> ConsumerSessionsWithProvider]
    /\ \A d \in Pairs \ {c} : cswp'[d] = cswp[d]
    /\ cswp'[c].used = u
    /\ DOMAIN cswp'[c].sessions = DOMAIN cswp[c].sessions \cup {s}
    /\ cswp'[c].sessions[s] = x
    /\ \A t \in DOMAIN cswp[c].sessions \ {s} : cswp'[c].sessions[t] = cswp[c].sessions[t]

\* What such a step does to the holders: r keeps what it has in this epoch but for
\* s, gets nothing but s, and no other relay has s.
HolderStep(r, c, s, x, g) ==
    /\ \A d \in Pairs, t \in Nat : Has(g, d, t) => Has(relay[r], d, t) \/ (d = c /\ t = s)
    /\ \A d \in Pairs, t \in Nat : Has(relay[r], d, t) /\ d[1] >= currentEpoch /\ ~(d = c /\ t = s)
                                     => Has(g, d, t)
    /\ \A d \in Pairs, t \in Nat : Enters(g, d, t) => d = c /\ t = s
    /\ \A q \in Relays \ {r} : ~Has(relay[q], c, s)
    /\ x.locked <=> Has(g, c, s)
    /\ x.locked => ~x.blocked
    /\ ~x.locked \/ Enters(g, c, s) => x.latest = 0

\* A step on one session keeps what is said of every session.
LEMMA HolderStepKeeps ==
    ASSUME Base, Borrowed, Kept, NEW r, NEW c, NEW s, NEW x, NEW u, NEW g,
           SessionStep(r, c, s, x, u, g), HolderStep(r, c, s, x, g), currentEpoch' = currentEpoch
    PROVE  Borrowed' /\ Kept'
<1>0. /\ r \in Relays /\ c \in Pairs /\ s \in Nat
      /\ \A q \in Relays : relay'[q] = IF q = r THEN g ELSE relay[q]
  BY DEF SessionStep, Base, Types
<1>1. Borrowed'
  <2> SUFFICES ASSUME NEW q \in Relays, NEW d \in Pairs, NEW t \in Nat, Has(relay'[q], d, t)
      PROVE  /\ t \in DOMAIN cswp'[d].sessions
             /\ cswp'[d].sessions[t].locked /\ ~cswp'[d].sessions[t].blocked
             /\ Enters(relay'[q], d, t) => cswp'[d].sessions[t].latest = 0
             /\ \A o \in Relays : Has(relay'[o], d, t) => o = q
    BY DEF Borrowed, Has, Enters
  <2>1. CASE d = c /\ t = s
    <3>1. q = r /\ Has(g, c, s)
      BY <1>0, <2>1 DEF HolderStep
    <3>2. \A o \in Relays : Has(relay'[o], c, s) => o = r
      BY <1>0 DEF HolderStep
    <3>3. relay'[q] = g
      BY <1>0, <3>1
    <3> QED BY <2>1, <3>1, <3>2, <3>3 DEF HolderStep, SessionStep
  <2>2. CASE ~(d = c /\ t = s)
    <3>1. Has(relay[q], d, t)
      BY <1>0, <2>2 DEF HolderStep
    <3>2. /\ t \in DOMAIN cswp[d].sessions
          /\ cswp[d].sessions[t].locked /\ ~cswp[d].sessions[t].blocked
          /\ Enters(relay[q], d, t) => cswp[d].sessions[t].latest = 0
          /\ \A o \in Relays : Has(relay[o], d, t) => o = q
      BY <3>1 DEF Borrowed
    <3>3. t \in DOMAIN cswp'[d].sessions /\ cswp'[d].sessions[t] = cswp[d].sessions[t]
      BY <1>0, <2>2, <3>2 DEF SessionStep
    <3>4. Enters(relay'[q], d, t) => Enters(relay[q], d, t)
      BY <1>0, <2>2 DEF HolderStep
    <3>5. \A o \in Relays : Has(relay'[o], d, t) => Has(relay[o], d, t)
      BY <1>0, <2>2 DEF HolderStep
    <3> QED BY <3>2, <3>3, <3>4, <3>5
  <2> QED BY <2>1, <2>2
<1>2. Kept'
  <2> SUFFICES ASSUME NEW d \in Pairs, NEW t \in DOMAIN cswp'[d].sessions
      PROVE  /\ ~cswp'[d].sessions[t].locked => cswp'[d].sessions[t].latest = 0
             /\ d[1] >= currentEpoch /\ cswp'[d].sessions[t].locked => \E q \in Relays : Has(relay'[q], d, t)
    BY DEF Kept, Has
  <2>1. CASE d = c /\ t = s
    <3>1. cswp'[d].sessions[t] = x
      BY <2>1 DEF SessionStep
    <3>2. x.locked => Has(relay'[r], c, s)
      BY <1>0 DEF HolderStep
    <3> QED BY <1>0, <2>1, <3>1, <3>2 DEF HolderStep
  <2>2. CASE ~(d = c /\ t = s)
    <3>1. t \in DOMAIN cswp[d].sessions /\ cswp'[d].sessions[t] = cswp[d].sessions[t]
      BY <2>2 DEF SessionStep
    <3>2. t \in Nat
      BY <3>1, SessionFacts DEF Base
    <3>3. ASSUME NEW q \in Relays, Has(relay[q], d, t), d[1] >= currentEpoch
          PROVE  Has(relay'[q], d, t)
      BY <1>0, <2>2, <3>2, <3>3 DEF HolderStep
    <3> QED BY <3>1, <3>3 DEF Kept
  <2> QED BY <2>1, <2>2
<1> QED BY <1>1, <1>2

--------------------------------------------------------------------------------
(* What is counted against a provider. *)

Units(x) == x.cuSum + x.latest

\* The sums that UsedAccounted compares are sums of natural numbers.
LEMMA UnitsNat ==
    ASSUME Types, NEW c \in Pairs
    PROVE  /\ SumFunction(SessionUnits(cswp[c].sessions)) =
                SumFunctionOnSet(SessionUnits(cswp[c].sessions), DOMAIN cswp[c].sessions)
           /\ IsFiniteSet(DOMAIN cswp[c].sessions)
           /\ \A s \in DOMAIN cswp[c].sessions :
                /\ SessionUnits(cswp[c].sessions)[s] = Units(cswp[c].sessions[s])
                /\ SessionUnits(cswp[c].sessions)[s] \in Nat
<1>1. DOMAIN cswp[c].sessions = 1 .. Len(cswp[c].sessions) /\ Len(cswp[c].sessions) \in Nat
  BY SessionFacts
<1>2. IsFiniteSet(DOMAIN cswp[c].sessions)
  BY <1>1, FS_Interval
<1>3. \A s \in DOMAIN cswp[c].sessions : cswp[c].sessions[s] \in SingleConsumerSession
  BY SessionFacts
<1>4. DOMAIN SessionUnits(cswp[c].sessions) = DOMAIN cswp[c].sessions
  BY DEF SessionUnits
<1> QED BY <1>2, <1>3, <1>4 DEF SessionUnits, Units, SingleConsumerSession, SumFunction

\* What a relay has to give back is a natural number.
LEMMA DecreaseNat ==
    ASSUME NEW g \in Goroutine, NEW c
    PROVE  DecreaseOf(g, c) \in Nat
<1>1. \A p \in DOMAIN g.held : g.held[p].cu \in Nat
  BY MapFacts DEF Goroutine, Hold
<1> QED BY <1>1 DEF DecreaseOf

\* So is what all relays have to give back.
LEMMA ToDecreaseNat ==
    ASSUME Types, NEW c
    PROVE  /\ SumFunction(ToDecrease(c)) = SumFunctionOnSet(ToDecrease(c), Relays)
           /\ IsFiniteSet(Relays)
           /\ \A r \in Relays : ToDecrease(c)[r] = DecreaseOf(relay[r], c) /\ ToDecrease(c)[r] \in Nat
  BY DecreaseNat, FiniteAssumption DEF ToDecrease, SumFunction, Types

\* What is counted covers what any relay has yet to give back.
LEMMA CoversDecrease ==
    ASSUME Types, UsedAccounted, NEW c \in Pairs, NEW r \in Relays
    PROVE  DecreaseOf(relay[r], c) <= cswp[c].used
<1> DEFINE S == SumFunction(SessionUnits(cswp[c].sessions))
           D == SumFunction(ToDecrease(c))
<1>1. S \in Nat
  BY UnitsNat, SumNat
<1>2. D \in Nat /\ DecreaseOf(relay[r], c) <= D
  BY ToDecreaseNat, SumNat
<1>3. cswp[c].used = S + D
  BY DEF UsedAccounted, Types, Pairs
<1>4. DecreaseOf(relay[r], c) \in Nat
  BY DecreaseNat DEF Types
<1> HIDE DEF S, D
<1> QED BY <1>1, <1>2, <1>3, <1>4

\* A relay's move changes the sum by what it changes for that relay.
LEMMA DecreaseChange ==
    ASSUME Types, Types', NEW r \in Relays, NEW g, relay' = [relay EXCEPT ![r] = g], NEW c
    PROVE  /\ SumFunction(ToDecrease(c)') = SumFunction(ToDecrease(c)) + DecreaseOf(g, c) - DecreaseOf(relay[r], c)
           /\ SumFunction(ToDecrease(c)) \in Nat
           /\ DecreaseOf(g, c) \in Nat /\ DecreaseOf(relay[r], c) \in Nat
<1>1. \A q \in Relays : relay'[q] = IF q = r THEN g ELSE relay[q]
  BY DEF Types
<1> DEFINE f == ToDecrease(c)
           e == ToDecrease(c)'
<1>2. SumFunction(f) = SumFunctionOnSet(f, Relays) /\ IsFiniteSet(Relays)
        /\ \A q \in Relays : f[q] = DecreaseOf(relay[q], c) /\ f[q] \in Nat
  BY ToDecreaseNat
<1>3. /\ e = [q \in Relays |-> DecreaseOf(relay'[q], c)]
      /\ \A q \in Relays : DecreaseOf(relay'[q], c) \in Nat
  BY DecreaseNat DEF ToDecrease, Types, DecreaseOf
<1>4. SumFunction(e) = SumFunctionOnSet(e, Relays)
        /\ \A q \in Relays : e[q] = DecreaseOf(relay'[q], c) /\ e[q] \in Nat
  BY <1>3 DEF SumFunction
<1> HIDE DEF f, e
<1>5. \A q \in Relays \ {r} : e[q] = f[q]
  BY <1>1, <1>2, <1>4
<1>6. Summable(f, Relays) /\ Summable(e, Relays)
  BY <1>2, <1>4 DEF Summable
<1>7. SumFunctionOnSet(e, Relays) = SumFunctionOnSet(f, Relays) + e[r] - f[r]
  BY <1>5, <1>6, SumChange
<1>8. SumFunctionOnSet(f, Relays) \in Nat
  BY <1>2, SumNat
<1> QED BY <1>1, <1>2, <1>4, <1>7, <1>8 DEF f, e

\* A step on one session changes the sum by what it changes for that session.
LEMMA UnitsChange ==
    ASSUME Types, Types', NEW r, NEW c, NEW s, NEW x, NEW u, NEW g, SessionStep(r, c, s, x, u, g)
    PROVE  /\ SumFunction(SessionUnits(cswp'[c].sessions)) =
                SumFunction(SessionUnits(cswp[c].sessions)) + Units(x)
                  - (IF s \in DOMAIN cswp[c].sessions THEN Units(cswp[c].sessions[s]) ELSE 0)
           /\ SumFunction(SessionUnits(cswp[c].sessions)) \in Nat
<1> DEFINE old == cswp[c].sessions
           new == cswp'[c].sessions
           f == SessionUnits(old)
           e == SessionUnits(new)
           D == DOMAIN old
<1>0. c \in Pairs
  BY DEF SessionStep
<1>1. /\ SumFunction(f) = SumFunctionOnSet(f, D) /\ IsFiniteSet(D)
      /\ \A t \in D : f[t] = Units(old[t]) /\ f[t] \in Nat
  BY <1>0, UnitsNat
<1>2. /\ DOMAIN new = D \cup {s} /\ new[s] = x /\ \A t \in D \ {s} : new[t] = old[t]
      /\ x \in SingleConsumerSession
  BY DEF SessionStep
<1>3. Units(x) \in Nat
  BY <1>2 DEF Units, SingleConsumerSession
<1>4. e = [t \in D \cup {s} |-> Units(new[t])]
  BY <1>2 DEF SessionUnits, Units
<1> HIDE DEF old, new, f, D
<1>5. SumFunction(e) = SumFunctionOnSet(e, D \cup {s})
        /\ e[s] = Units(x) /\ \A t \in D \ {s} : e[t] = f[t]
  BY <1>1, <1>2, <1>4 DEF SumFunction
<1> HIDE DEF e
<1>6. Summable(f, D)
  BY <1>1 DEF Summable
<1>7. SumFunctionOnSet(f, D) \in Nat
  BY <1>1, SumNat
<1>8. CASE s \in D
  <2>1. D \cup {s} = D /\ Summable(e, D)
    BY <1>1, <1>3, <1>5, <1>8 DEF Summable
  <2>2. SumFunctionOnSet(e, D) = SumFunctionOnSet(f, D) + e[s] - f[s]
    BY <1>5, <1>6, <1>8, <2>1, SumChange
  <2>3. SumFunction(e) = SumFunction(f) + Units(x) - Units(old[s]) /\ SumFunction(f) \in Nat
    BY <1>1, <1>5, <1>7, <1>8, <2>1, <2>2
  <2> QED BY <1>8, <2>3 DEF f, e, old, new, D
<1>9. CASE s \notin D
  <2>1. SumFunctionOnSet(e, D \cup {s}) = SumFunctionOnSet(f, D) + e[s]
    BY <1>3, <1>5, <1>6, <1>9, SumExtend
  <2>2. SumFunction(e) = SumFunction(f) + Units(x) - 0 /\ SumFunction(f) \in Nat
    BY <1>1, <1>3, <1>5, <1>7, <2>1
  <2> QED BY <1>9, <2>2 DEF f, e, old, new, D
<1> QED BY <1>8, <1>9

\* The units counted change as the session's and the relay's do.
UnitStep(r, c, s, x, u, g) ==
    /\ u = cswp[c].used + Units(x)
             - (IF s \in DOMAIN cswp[c].sessions THEN Units(cswp[c].sessions[s]) ELSE 0)
             + DecreaseOf(g, c) - DecreaseOf(relay[r], c)
    /\ u <= MaxComputeUnits * (VirtualEpoch + 1)
    /\ \A d \in Pairs \ {c} : DecreaseOf(g, d) = DecreaseOf(relay[r], d)

\* Such a step keeps the accounts.
LEMMA UnitStepAccounts ==
    ASSUME Types, Types', UsedAccounted, NEW r, NEW c, NEW s, NEW x, NEW u, NEW g,
           SessionStep(r, c, s, x, u, g), UnitStep(r, c, s, x, u, g)
    PROVE  UsedAccounted'
<1>0. r \in Relays /\ c \in Pairs /\ relay' = [relay EXCEPT ![r] = g] /\ DOMAIN cswp = Pairs
        /\ DOMAIN cswp' = Pairs /\ x \in SingleConsumerSession /\ u \in Nat
  BY DEF SessionStep, Types, Pairs
<1> SUFFICES ASSUME NEW d \in Pairs
    PROVE  /\ cswp'[d].used = SumFunction(SessionUnits(cswp'[d].sessions)) + SumFunction(ToDecrease(d)')
           /\ cswp'[d].used <= MaxComputeUnits * (VirtualEpoch + 1)
  BY <1>0 DEF UsedAccounted, ToDecrease
<1>1. /\ cswp[d].used = SumFunction(SessionUnits(cswp[d].sessions)) + SumFunction(ToDecrease(d))
      /\ cswp[d].used <= MaxComputeUnits * (VirtualEpoch + 1)
  BY <1>0 DEF UsedAccounted
<1>2. /\ SumFunction(ToDecrease(d)') = SumFunction(ToDecrease(d)) + DecreaseOf(g, d) - DecreaseOf(relay[r], d)
      /\ SumFunction(ToDecrease(d)) \in Nat
      /\ DecreaseOf(g, d) \in Nat /\ DecreaseOf(relay[r], d) \in Nat
  BY <1>0, DecreaseChange, Zenon
<1>3. CASE d # c
  <2>1. cswp'[d] = cswp[d] /\ DecreaseOf(g, d) = DecreaseOf(relay[r], d)
    BY <1>3 DEF SessionStep, UnitStep
  <2> QED BY <1>1, <1>2, <2>1
<1>4. CASE d = c
  <2> DEFINE S == SumFunction(SessionUnits(cswp[c].sessions))
             T == SumFunction(SessionUnits(cswp'[c].sessions))
             o == IF s \in DOMAIN cswp[c].sessions THEN Units(cswp[c].sessions[s]) ELSE 0
  <2>1. T = S + Units(x) - o /\ S \in Nat
    BY UnitsChange
  <2>2. Units(x) \in Nat
    BY <1>0 DEF Units, SingleConsumerSession
  <2>3. o \in Nat
    BY <1>0, UnitsNat
  <2>4. u = cswp[c].used + Units(x) - o + DecreaseOf(g, c) - DecreaseOf(relay[r], c)
          /\ u <= MaxComputeUnits * (VirtualEpoch + 1) /\ cswp'[c].used = u
    BY DEF UnitStep, SessionStep
  <2> HIDE DEF S, T, o
  <2>5. cswp[c].used = S + SumFunction(ToDecrease(c))
    BY <1>1, <1>4 DEF S
  <2>6. u = T + SumFunction(ToDecrease(d)')
    BY <1>2, <1>4, <2>1, <2>2, <2>3, <2>4, <2>5
  <2> QED BY <1>4, <2>4, <2>6 DEF T
<1> QED BY <1>3, <1>4

\* The sessions and the counters stay and no relay has more or less to give back.
SameDecreases == \A r \in Relays, c \in Pairs : DecreaseOf(relay'[r], c) = DecreaseOf(relay[r], c)

\* And so does a step that leaves sessions, counters and decreases.
LEMMA SameAccounts ==
    ASSUME Types, Types', UsedAccounted, SameUnits, SameDecreases PROVE UsedAccounted'
<1>0. DOMAIN cswp = Pairs /\ DOMAIN cswp' = Pairs
  BY DEF Types, Pairs
<1>1. \A c \in Pairs : cswp'[c].sessions = cswp[c].sessions /\ cswp'[c].used = cswp[c].used
  BY DEF SameUnits, Pairs
<1>2. \A c \in Pairs : ToDecrease(c)' = ToDecrease(c)
  BY DEF ToDecrease, SameDecreases
<1> QED BY <1>0, <1>1, <1>2 DEF UsedAccounted

\* Steps without a session give nothing back.
LEMMA StillDecreases == ASSUME Still PROVE SameDecreases
  BY DEF Still, SameDecreases, DecreaseOf

--------------------------------------------------------------------------------
(* The steps that take, use and give back a session. *)

Inv == Base /\ Borrowed /\ Kept /\ UsedAccounted

\* The steps that change no session and no counter.
LEMMA StillInv == ASSUME Inv, Base', Still, currentEpoch' >= currentEpoch PROVE Inv'
<1>1. currentEpoch' \in Int
  BY ConstantFacts DEF Base, Types, Manager
<1>2. SameUnits
  BY DEF Still
<1>3. Types /\ Types'
  BY DEF Inv, Base
<1> QED BY <1>1, <1>2, <1>3, StillHolders, SameHoldersKeep, StillDecreases, SameAccounts DEF Inv

\* A step on one session keeps the invariant.
LEMMA SessionInv ==
    ASSUME Inv, Base', NEW r, NEW c, NEW s, NEW x, NEW u, NEW g, SessionStep(r, c, s, x, u, g),
           HolderStep(r, c, s, x, g), UnitStep(r, c, s, x, u, g), currentEpoch' = currentEpoch
    PROVE  Inv'
<1>1. Borrowed' /\ Kept'
  BY HolderStepKeeps DEF Inv
<1>2. UsedAccounted'
  BY UnitStepAccounts DEF Inv, Base
<1> QED BY <1>1, <1>2 DEF Inv

\* A step on one session: the provider's record becomes y.
LEMMA RecordStep ==
    ASSUME Base, Manager', currentEpoch' = currentEpoch,
           NEW r \in Relays, NEW g \in Goroutine, Tries(g, currentEpoch), relay' = [relay EXCEPT ![r] = g],
           NEW c \in Pairs, NEW s \in Nat, NEW x \in SingleConsumerSession,
           NEW y \in ConsumerSessionsWithProvider, cswp' = [cswp EXCEPT ![c] = y],
           DOMAIN y.sessions = DOMAIN cswp[c].sessions \cup {s}, y.sessions[s] = x,
           \A t \in DOMAIN cswp[c].sessions \ {s} : y.sessions[t] = cswp[c].sessions[t]
    PROVE  Base' /\ SessionStep(r, c, s, x, y.used, g)
<1>1. cswp' \in [Pairs -> ConsumerSessionsWithProvider] /\ cswp'[c] = y /\ y.used \in Nat
        /\ \A d \in Pairs \ {c} : cswp'[d] = cswp[d]
  BY DEF Base, Types, Pairs, ConsumerSessionsWithProvider
<1>2. Base'
  BY <1>1, RelayStep, Zenon DEF Pairs
<1> QED BY <1>1, <1>2 DEF SessionStep

\* The record with session s changed.
LEMMA WithSessionFacts ==
    ASSUME Types, NEW c \in Pairs, NEW s \in DOMAIN cswp[c].sessions, NEW x \in SingleConsumerSession
    PROVE  LET y == WithSession(cswp[c], s, x)
           IN  /\ y \in ConsumerSessionsWithProvider /\ y.used = cswp[c].used
               /\ DOMAIN y.sessions = DOMAIN cswp[c].sessions \cup {s} /\ y.sessions[s] = x
               /\ \A t \in DOMAIN cswp[c].sessions \ {s} : y.sessions[t] = cswp[c].sessions[t]
<1> DEFINE old == cswp[c].sessions
           new == [old EXCEPT ![s] = x]
<1>1. old \in Seq(SingleConsumerSession) /\ s \in 1 .. Len(old) /\ DOMAIN old = 1 .. Len(old)
        /\ cswp[c] \in ConsumerSessionsWithProvider
  BY SessionFacts
<1>2. WithSession(cswp[c], s, x) = [cswp[c] EXCEPT !.sessions = new]
  BY <1>1 DEF WithSession, ConsumerSessionsWithProvider
<1>3. new \in Seq(SingleConsumerSession) /\ DOMAIN new = DOMAIN old /\ new[s] = x
        /\ \A t \in DOMAIN old \ {s} : new[t] = old[t]
  <2> HIDE DEF old
  <2>1. new \in Seq(SingleConsumerSession)
    BY <1>1, ExceptSeq
  <2> QED BY <1>1, <2>1
<1>4. [cswp[c] EXCEPT !.sessions = new] \in ConsumerSessionsWithProvider
        /\ [cswp[c] EXCEPT !.sessions = new].used = cswp[c].used
        /\ [cswp[c] EXCEPT !.sessions = new].sessions = new
  <2> HIDE DEF new
  <2> QED BY <1>1, <1>3 DEF ConsumerSessionsWithProvider
<1> QED BY <1>2, <1>3, <1>4

\* GetConsumerSessionInstance borrows a free session or a new one.
LEMMA InstanceInv ==
    ASSUME Inv, NEW r \in Relays, GetConsumerSessionInstance(r) PROVE Inv'
<1> DEFINE e == relay[r].epoch
           p == relay[r].provider
           c == <<e, p>>
           allowed == MaxAllowedBlockListedSessionPerProvider * (relay[r].resets + 1)
<1>0. /\ Base /\ Types /\ relay[r] \in Goroutine /\ Tries(relay[r], currentEpoch) /\ relay[r].pc = "session"
      /\ Manager' /\ currentEpoch' = currentEpoch /\ relay \in [Relays -> Goroutine]
  BY RelayFacts, SameManagerFresh, Zenon
  DEF GetConsumerSessionInstance, Inv, Base, Types, SameManager, manager
<1>1. e = relay[r].ignoredEpoch /\ e \in Epochs /\ p \in relay[r].ignored /\ p \in Providers /\ c \in Pairs
        /\ c[1] = e /\ c[2] = p
  BY <1>0 DEF Tries, Trying, Goroutine, Pairs
<1>2. ASSUME NEW s \in Nat \ {0}, NEW x \in SingleConsumerSession, x.locked, ~x.blocked, x.latest = 0,
             NEW y \in ConsumerSessionsWithProvider, cswp' = [cswp EXCEPT ![c] = y], y.used = cswp[c].used,
             DOMAIN y.sessions = DOMAIN cswp[c].sessions \cup {s}, y.sessions[s] = x,
             \A t \in DOMAIN cswp[c].sessions \ {s} : y.sessions[t] = cswp[c].sessions[t],
             relay' = [relay EXCEPT ![r].pc = "add", ![r].session = s],
             s \in DOMAIN cswp[c].sessions =>
               ~cswp[c].sessions[s].locked /\ Units(x) = Units(cswp[c].sessions[s]),
             s \notin DOMAIN cswp[c].sessions => Units(x) = 0
      PROVE  Inv'
  <2> DEFINE g == [relay[r] EXCEPT !.pc = "add", !.session = s]
  <2>1. relay' = [relay EXCEPT ![r] = g]
    BY <1>0, <1>2, Zenon
  <2>2. /\ g \in Goroutine /\ g.pc = "add" /\ g.held = relay[r].held /\ g.todo = relay[r].todo
        /\ g.ignored = relay[r].ignored /\ g.ignoredEpoch = relay[r].ignoredEpoch
        /\ g.epoch = e /\ g.provider = p /\ g.session = s
    BY <1>0, Zenon DEF Goroutine, Trying
  <2> HIDE DEF g, c, e, p
  <2>3. Tries(g, currentEpoch)
    BY <1>0, <2>2 DEF Tries, Trying, HasFor, e, p
  <2>4. Base' /\ SessionStep(r, c, s, x, y.used, g)
    BY <1>0, <1>1, <1>2, <2>1, <2>2, <2>3, RecordStep, Zenon
  <2>5. \A q \in Relays : ~Has(relay[q], c, s)
    BY <1>1, <1>2 DEF Inv, Borrowed
  <2>6. Enters(g, c, s) /\ Has(g, c, s)
    BY <1>1, <2>2 DEF Enters, Has, HoldsIn
  <2>7. \A d \in Pairs, t \in Nat : Enters(g, d, t) => d = c /\ t = s
    BY <1>1, <2>2 DEF Enters, Pairs
  <2>8. \A d \in Pairs, t \in Nat : Has(relay[r], d, t) => Has(g, d, t)
    BY <1>0, <2>2 DEF Has, HoldsIn
  <2>9. \A d \in Pairs, t \in Nat : Has(g, d, t) => Has(relay[r], d, t) \/ Enters(g, d, t)
    BY <2>2 DEF Has, HoldsIn, Enters
  <2>10. HolderStep(r, c, s, x, g)
    BY <1>2, <2>5, <2>6, <2>7, <2>8, <2>9 DEF HolderStep
  <2>11. \A d : DecreaseOf(g, d) = DecreaseOf(relay[r], d) /\ DecreaseOf(g, d) \in Nat
    BY <1>0, <2>2, DecreaseNat DEF DecreaseOf
  <2>12. cswp[c].used \in Nat /\ cswp[c].used <= MaxComputeUnits * (VirtualEpoch + 1) /\ Units(x) \in Nat
    BY <1>0, <1>1, SessionFacts DEF Inv, UsedAccounted, Types, Pairs, SingleConsumerSession, Units
  <2>13. UnitStep(r, c, s, x, y.used, g)
    BY <1>2, <2>11, <2>12 DEF UnitStep
  <2> QED BY <1>0, <2>4, <2>10, <2>13, SessionInv
<1>3. ASSUME NEW s \in Free(cswp[c]),
             cswp' = [cswp EXCEPT ![c] = WithSession(cswp[c], s, [cswp[c].sessions[s] EXCEPT !.locked = TRUE])],
             relay' = [relay EXCEPT ![r].pc = "add", ![r].session = s]
      PROVE  Inv'
  <2> HIDE DEF c
  <2>1. /\ s \in DOMAIN cswp[c].sessions /\ ~cswp[c].sessions[s].locked /\ ~cswp[c].sessions[s].blocked
        /\ s \in Nat \ {0} /\ cswp[c].sessions[s] \in SingleConsumerSession
    BY <1>0, <1>1, SessionFacts DEF Free
  <2>2. cswp[c].sessions[s].latest = 0
    BY <1>1, <2>1 DEF Inv, Kept
  <2> DEFINE x == [cswp[c].sessions[s] EXCEPT !.locked = TRUE]
             y == WithSession(cswp[c], s, x)
  <2>3. x \in SingleConsumerSession /\ x.locked /\ ~x.blocked /\ x.latest = 0
          /\ Units(x) = Units(cswp[c].sessions[s])
    BY <2>1, <2>2, Zenon DEF SingleConsumerSession, Units
  <2>4. cswp' = [cswp EXCEPT ![c] = y]
    BY <1>3
  <2> HIDE DEF x
  <2>5. /\ y \in ConsumerSessionsWithProvider /\ y.used = cswp[c].used
        /\ DOMAIN y.sessions = DOMAIN cswp[c].sessions \cup {s} /\ y.sessions[s] = x
        /\ \A t \in DOMAIN cswp[c].sessions \ {s} : y.sessions[t] = cswp[c].sessions[t]
    BY <1>0, <1>1, <2>1, <2>3, WithSessionFacts
  <2> HIDE DEF y
  <2> QED BY <1>2, <1>3, <2>1, <2>3, <2>4, <2>5, Zenon
<1>4. ASSUME cswp' = [cswp EXCEPT ![c].sessions = Append(@, NewSession)],
             relay' = [relay EXCEPT ![r].pc = "add", ![r].session = Len(cswp[c].sessions) + 1]
      PROVE  Inv'
  <2> HIDE DEF c
  <2> DEFINE old == cswp[c].sessions
             s == Len(old) + 1
             new == Append(old, NewSession)
             y == [cswp[c] EXCEPT !.sessions = new]
  <2>1. NewSession \in SingleConsumerSession /\ NewSession.locked /\ ~NewSession.blocked
          /\ NewSession.latest = 0 /\ Units(NewSession) = 0
    BY DEF NewSession, SingleConsumerSession, Units
  <2>2. /\ cswp[c] \in ConsumerSessionsWithProvider /\ old \in Seq(SingleConsumerSession) /\ Len(old) \in Nat
        /\ DOMAIN old = 1 .. Len(old)
    BY <1>0, <1>1, SessionFacts
  <2>3. cswp' = [cswp EXCEPT ![c] = y]
    BY <1>4
  <2>4. new \in Seq(SingleConsumerSession) /\ DOMAIN new = DOMAIN old \cup {s} /\ s \notin DOMAIN old
          /\ new[s] = NewSession /\ (\A t \in DOMAIN old \ {s} : new[t] = old[t]) /\ s \in Nat \ {0}
    <3> HIDE DEF old
    <3> QED BY <2>1, <2>2
  <2> HIDE DEF new
  <2>5. y \in ConsumerSessionsWithProvider /\ y.used = cswp[c].used /\ y.sessions = new
    BY <2>2, <2>4 DEF ConsumerSessionsWithProvider
  <2>6. relay' = [relay EXCEPT ![r].pc = "add", ![r].session = s]
    BY <1>4
  <2> HIDE DEF y, s
  <2> QED BY <1>2, <2>1, <2>3, <2>4, <2>5, <2>6, Zenon
<1>5. ASSUME cswp' = cswp, NEW g \in Goroutine, Tries(g, currentEpoch), relay' = [relay EXCEPT ![r] = g],
             g.held = relay[r].held, g.pc # "add"
      PROVE  Inv'
  <2>1. SameUnits /\ cswp' \in [Epochs \X Providers -> ConsumerSessionsWithProvider]
    BY <1>0, <1>5, SameCswp
  <2>2. Base' /\ Still
    BY <1>0, <1>5, <2>1, RelayStep, StillStep, Zenon
  <2>3. currentEpoch' >= currentEpoch
    BY <1>0, RelayFacts
  <2> QED BY <2>2, <2>3, StillInv
<1>6. ASSUME cswp' = cswp, relay' = [relay EXCEPT ![r].pc = "unusable"]
      PROVE  Inv'
  <2> DEFINE g == [relay[r] EXCEPT !.pc = "unusable"]
  <2>1. relay' = [relay EXCEPT ![r] = g]
    BY <1>0, <1>6
  <2>2. /\ g \in Goroutine /\ g.pc = "unusable" /\ g.held = relay[r].held /\ g.todo = relay[r].todo
        /\ g.ignored = relay[r].ignored /\ g.ignoredEpoch = relay[r].ignoredEpoch
        /\ g.epoch = relay[r].epoch /\ g.provider = relay[r].provider
    BY <1>0 DEF Goroutine, Trying
  <2> HIDE DEF g
  <2>3. Tries(g, currentEpoch)
    BY <1>0, <2>2 DEF Tries, Trying, HasFor
  <2> QED BY <1>5, <1>6, <2>1, <2>2, <2>3, Zenon
<1>7. ASSUME cswp' = cswp, relay' = [relay EXCEPT ![r] = Continue(relay[r], {p})]
      PROVE  Inv'
  <2>1. {p} \in SUBSET Providers /\ relay[r].pc \in Trying \cup {"fetch"}
    BY <1>0, <1>1 DEF Trying
  <2> DEFINE g == Continue(relay[r], {p})
  <2>2. g \in Goroutine /\ Tries(g, currentEpoch) /\ g.held = relay[r].held /\ g.pc \in {"choose", "fetch"}
    BY <1>0, <2>1, ContinueFacts
  <2>3. relay' = [relay EXCEPT ![r] = g]
    BY <1>7
  <2> HIDE DEF g
  <2> QED BY <1>5, <1>7, <2>2, <2>3, Zenon
<1> QED BY <1>3, <1>4, <1>6, <1>7, Zenon DEF GetConsumerSessionInstance

\* A relay about to enter a session in its map has it, and for no other reason.
LEMMA EnteringFacts ==
    ASSUME Inv, NEW r \in Relays, relay[r].pc = "add"
    PROVE  LET c == <<relay[r].epoch, relay[r].provider>>
               s == relay[r].session
           IN  /\ c \in Pairs /\ c[1] = relay[r].epoch /\ c[2] = relay[r].provider
               /\ s \in Nat \ {0} /\ s \in DOMAIN cswp[c].sessions
               /\ cswp[c].sessions[s] \in SingleConsumerSession
               /\ cswp[c].sessions[s].locked /\ ~cswp[c].sessions[s].blocked
               /\ cswp[c].sessions[s].latest = 0
               /\ \A q \in Relays \ {r} : ~Has(relay[q], c, s)
               /\ \A p \in DOMAIN relay[r].held : relay[r].held[p].stage = "held"
               /\ ~HasFor(relay[r], c[1], c[2])
               /\ \A d \in Pairs, t \in Nat : Has(relay[r], d, t) /\ d[2] = c[2] /\ d[1] >= currentEpoch
                                                => d = c /\ t = s
<1> DEFINE c == <<relay[r].epoch, relay[r].provider>>
           s == relay[r].session
<1>1. relay[r] \in Goroutine /\ Tries(relay[r], currentEpoch) /\ Types /\ currentEpoch \in Nat
  BY RelayFacts DEF Inv, Base
<1>2. c \in Pairs /\ c[1] = relay[r].epoch /\ c[2] = relay[r].provider /\ s \in Nat
        /\ c[1] = relay[r].ignoredEpoch /\ c[1] \in Int /\ ~HasFor(relay[r], c[1], c[2])
  BY <1>1, ConstantFacts DEF Tries, Trying, Goroutine, Pairs
<1>3. Enters(relay[r], c, s) /\ Has(relay[r], c, s)
  BY <1>2 DEF Enters, Has, HoldsIn
<1> HIDE DEF c, s
<1>4. /\ s \in DOMAIN cswp[c].sessions /\ cswp[c].sessions[s].locked /\ ~cswp[c].sessions[s].blocked
      /\ cswp[c].sessions[s].latest = 0 /\ \A q \in Relays : Has(relay[q], c, s) => q = r
  BY <1>2, <1>3 DEF Inv, Borrowed
<1>5. s \in Nat \ {0} /\ cswp[c].sessions[s] \in SingleConsumerSession
  BY <1>1, <1>2, <1>4, SessionFacts
<1>6. \A p \in DOMAIN relay[r].held : /\ relay[r].held[p].stage = "held"
                                      /\ relay[r].held[p].epoch \in Int
                                      /\ relay[r].held[p].epoch <= currentEpoch
  <2>1. \A p \in DOMAIN relay[r].held : relay[r].held[p].epoch \in Int
    BY <1>1, MapFacts, ConstantFacts DEF Goroutine, Hold
  <2>2. relay[r].ignoredEpoch \in Int
    BY <1>1 DEF Goroutine
  <2> QED BY <1>1, <2>1, <2>2 DEF Tries
<1>7. ASSUME NEW d \in Pairs, NEW t \in Nat, Has(relay[r], d, t), d[2] = c[2], d[1] >= currentEpoch
      PROVE  d = c /\ t = s
  <2>1. CASE Enters(relay[r], d, t)
    BY <1>2, <2>1 DEF Enters, Pairs, c, s
  <2>2. CASE HasFor(relay[r], d[1], d[2])
    <3>1. relay[r].held[d[2]].epoch = d[1] /\ d[2] \in DOMAIN relay[r].held
      BY <2>2 DEF HasFor
    <3>2. relay[r].held[d[2]].epoch <= relay[r].ignoredEpoch /\ relay[r].ignoredEpoch <= currentEpoch
            /\ relay[r].ignoredEpoch \in Int /\ d[1] \in Int
      BY <1>1, <1>2, <1>6, <3>1 DEF Tries
    <3>3. d[1] = c[1]
      BY <1>1, <1>2, <1>7, <3>1, <3>2
    <3> QED BY <1>2, <1>7, <2>2, <3>3
  <2> QED BY <1>7, <2>1, <2>2 DEF Has, HoldsIn, HasFor, Enters
<1> QED BY <1>2, <1>4, <1>5, <1>6, <1>7 DEF c, s

\* addUsedComputeUnits charges the provider and enters the session in the map, or unlocks it.
LEMMA AddInv ==
    ASSUME Inv, NEW r \in Relays, AddUsedComputeUnits(r) PROVE Inv'
<1> DEFINE rec == relay[r]
           e == rec.epoch
           p == rec.provider
           c == <<e, p>>
           s == rec.session
           o == cswp[c].sessions[s]
           k == Continue(rec, {p})
           hold == [epoch |-> e, session |-> s, stage |-> "held", cu |-> 0, report |-> FALSE]
           held == [q \in DOMAIN rec.held \cup {p} |-> IF q = p THEN hold ELSE rec.held[q]]
           got == [k EXCEPT !.held = held]
<1>0. /\ Base /\ Types /\ rec \in Goroutine /\ Tries(rec, currentEpoch) /\ rec.pc = "add"
      /\ Manager' /\ currentEpoch' = currentEpoch
  BY RelayFacts, SameManagerFresh, Zenon DEF AddUsedComputeUnits, Inv, Base, Types, SameManager, manager
<1>1. /\ c \in Pairs /\ c[1] = e /\ c[2] = p /\ s \in Nat \ {0} /\ s \in DOMAIN cswp[c].sessions
      /\ o \in SingleConsumerSession /\ o.locked /\ ~o.blocked /\ o.latest = 0
      /\ \A q \in Relays \ {r} : ~Has(relay[q], c, s)
      /\ \A q \in DOMAIN rec.held : rec.held[q].stage = "held"
      /\ ~HasFor(rec, e, p)
      /\ \A d \in Pairs, t \in Nat : Has(rec, d, t) /\ d[2] = p /\ d[1] >= currentEpoch => d = c /\ t = s
  BY <1>0, EnteringFacts
<1>2. e = rec.ignoredEpoch /\ e \in Epochs /\ p \in rec.ignored /\ p \in Providers
        /\ <<e, p>> \notin rec.todo /\ rec.cu \in Nat
  BY <1>0 DEF Tries, Trying, Goroutine
<1>3. /\ k \in Goroutine /\ Tries(k, currentEpoch) /\ k.held = rec.held /\ k.pc \in {"choose", "fetch"}
      /\ k.ignored = rec.ignored \cup {p} /\ k.ignoredEpoch = rec.ignoredEpoch /\ k.todo = rec.todo
  BY <1>0, <1>2, ContinueFacts DEF Trying
<1>4. cswp[c].used \in Nat /\ cswp[c].used <= MaxComputeUnits * (VirtualEpoch + 1)
  BY <1>0, <1>1, SessionFacts DEF Inv, UsedAccounted, Types, Pairs
<1>5. \A d : DecreaseOf(rec, d) = 0
  BY <1>1 DEF DecreaseOf
<1>6. CASE Affordable(cswp[c], rec.cu)
  <2> DEFINE x == [o EXCEPT !.latest = rec.cu]
             w == WithSession(cswp[c], s, x)
             u == cswp[c].used + rec.cu
             y == [w EXCEPT !.used = u]
  <2>1. cswp' = [cswp EXCEPT ![c] = y]
    BY <1>6, Zenon DEF AddUsedComputeUnits
  <2>2. /\ x \in SingleConsumerSession /\ x.locked /\ ~x.blocked /\ Units(x) = Units(o) + rec.cu
        /\ Units(o) \in Nat
    BY <1>1, <1>2 DEF SingleConsumerSession, Units
  <2>3. u \in Nat /\ u <= MaxComputeUnits * (VirtualEpoch + 1)
    BY <1>2, <1>4, <1>6 DEF Affordable
  <2> HIDE DEF x, u
  <2>4. /\ w \in ConsumerSessionsWithProvider
        /\ DOMAIN w.sessions = DOMAIN cswp[c].sessions \cup {s} /\ w.sessions[s] = x
        /\ \A t \in DOMAIN cswp[c].sessions \ {s} : w.sessions[t] = cswp[c].sessions[t]
    <3> HIDE DEF c, s, o
    <3> QED BY <1>0, <1>1, <2>2, WithSessionFacts
  <2> HIDE DEF w
  <2>5. y \in ConsumerSessionsWithProvider /\ y.used = u /\ y.sessions = w.sessions
    BY <2>3, <2>4 DEF ConsumerSessionsWithProvider
  <2> HIDE DEF y
  <2>6. /\ DOMAIN held = DOMAIN rec.held \cup {p} /\ held[p] = hold
        /\ \A q \in DOMAIN rec.held \ {p} : held[q] = rec.held[q]
    OBVIOUS
  <2>7. held \in Maps
    <3>1. hold \in Hold
      BY <1>1, <1>2 DEF Hold
    <3>2. DOMAIN rec.held \subseteq Providers /\ \A q \in DOMAIN rec.held : rec.held[q] \in Hold
      BY <1>0, MapFacts DEF Goroutine
    <3>3. held \in [DOMAIN rec.held \cup {p} -> Hold]
      BY <3>1, <3>2
    <3> QED BY <1>2, <3>2, <3>3, MapFacts, Zenon
  <2>8. hold.epoch = e /\ hold.session = s /\ hold.stage = "held"
    OBVIOUS
  <2> HIDE DEF held, hold
  <2>9. /\ got \in Goroutine /\ got.held = held /\ got.pc = k.pc /\ got.ignored = k.ignored
        /\ got.ignoredEpoch = k.ignoredEpoch /\ got.todo = k.todo
    <3> HIDE DEF k
    <3> QED BY <1>3, <2>7 DEF Goroutine
  <2> HIDE DEF got, k
  <2>10. ASSUME NEW g \in Goroutine, relay' = [relay EXCEPT ![r] = g], g.held = held,
                g.ignored = k.ignored, g.ignoredEpoch = k.ignoredEpoch, g.todo \subseteq k.todo,
                g.pc \in {"choose", "fetch", "using"}
         PROVE  Inv'
    <3>1. Tries(g, currentEpoch)
      <4>1. g.ignoredEpoch <= currentEpoch /\ g.ignoredEpoch = e
        BY <1>0, <1>2, <1>3, <2>10 DEF Tries
      <4>2. ASSUME NEW q \in DOMAIN g.held
            PROVE  /\ g.held[q].epoch <= g.ignoredEpoch
                   /\ g.held[q].epoch = g.ignoredEpoch => q \in g.ignored
                   /\ g.held[q].stage = "held"
        <5>1. CASE q = p
          <6>1. g.held[q] = hold /\ e <= e
            BY <1>2, <2>6, <2>10, <5>1, ConstantFacts
          <6> QED BY <1>3, <2>8, <2>10, <4>1, <5>1, <6>1
        <5>2. CASE q # p
          BY <1>0, <1>1, <1>3, <2>6, <2>10, <4>2, <5>2 DEF Tries
        <5> QED BY <5>1, <5>2
      <4>3. ASSUME NEW d \in g.todo PROVE d[1] = g.ignoredEpoch /\ d[2] \in g.ignored /\ ~HasFor(g, d[1], d[2])
        <5>1. d \in rec.todo /\ d[1] = e /\ d[2] \in rec.ignored /\ ~HasFor(rec, d[1], d[2])
          BY <1>0, <1>2, <1>3, <2>10 DEF Tries
        <5>2. d = <<d[1], d[2]>>
          BY <1>0, <5>1 DEF Goroutine
        <5>3. d[2] # p
          BY <1>2, <5>1, <5>2
        <5> QED BY <1>3, <2>6, <2>10, <4>1, <5>1, <5>3 DEF HasFor
      <4> QED BY <2>10, <4>1, <4>2, <4>3 DEF Tries, Trying
    <3>2. Base' /\ SessionStep(r, c, s, x, u, g)
      <4> HIDE DEF c, s, e, p
      <4>1. /\ y.sessions[s] = x /\ DOMAIN y.sessions = DOMAIN cswp[c].sessions \cup {s}
            /\ \A t \in DOMAIN cswp[c].sessions \ {s} : y.sessions[t] = cswp[c].sessions[t]
        BY <2>4, <2>5
      <4>2. s \in Nat
        BY <1>1
      <4> QED BY <1>0, <1>1, <2>1, <2>2, <2>5, <2>10, <3>1, <4>1, <4>2, RecordStep, Zenon
    <3>3. Has(g, c, s)
      BY <1>1, <2>6, <2>8, <2>10 DEF Has, HoldsIn
    <3>4. \A d \in Pairs, t \in Nat : Has(g, d, t) => Has(rec, d, t) \/ (d = c /\ t = s)
      BY <1>1, <2>6, <2>8, <2>10 DEF Has, HoldsIn, Pairs
    <3>5. \A d \in Pairs, t \in Nat : Has(rec, d, t) /\ d[2] # p => Has(g, d, t)
      BY <1>0, <1>1, <2>6, <2>10 DEF Has, HoldsIn
    <3>6. \A d \in Pairs, t \in Nat : ~Enters(g, d, t)
      BY <2>10 DEF Enters
    <3>7. HolderStep(r, c, s, x, g)
      BY <1>1, <2>2, <3>3, <3>4, <3>5, <3>6 DEF HolderStep
    <3>8. \A d : DecreaseOf(g, d) = 0
      BY <1>1, <2>6, <2>8, <2>10 DEF DecreaseOf
    <3>9. UnitStep(r, c, s, x, u, g)
      <4>1. u = cswp[c].used + (Units(o) + rec.cu) - Units(o) + 0 - 0
        BY <1>2, <1>4, <2>2 DEF u
      <4> HIDE DEF c, s, o
      <4> QED BY <1>1, <1>5, <2>2, <2>3, <3>8, <4>1 DEF UnitStep, o
    <3> QED BY <1>0, <3>2, <3>7, <3>9, SessionInv
  <2>11. CASE Cardinality(DOMAIN held) = rec.wanted
    <3> DEFINE g == [got EXCEPT !.pc = "using", !.todo = {}]
    <3>1. relay' = [relay EXCEPT ![r] = g]
      BY <1>6, <2>11, Zenon DEF AddUsedComputeUnits, got, k, held, hold
    <3>2. g \in Goroutine /\ g.held = held /\ g.ignored = k.ignored
            /\ g.ignoredEpoch = k.ignoredEpoch /\ g.todo = {} /\ g.pc = "using"
      BY <2>9, Zenon DEF Goroutine
    <3> HIDE DEF g
    <3> QED BY <2>10, <3>1, <3>2, Zenon
  <2>12. CASE Cardinality(DOMAIN held) # rec.wanted
    <3>1. relay' = [relay EXCEPT ![r] = got]
      BY <1>6, <2>12, Zenon DEF AddUsedComputeUnits, got, k, held, hold
    <3> QED BY <1>3, <2>9, <2>10, <3>1, Zenon
  <2> QED BY <2>11, <2>12
<1>7. CASE ~Affordable(cswp[c], rec.cu)
  <2> DEFINE x == [o EXCEPT !.locked = FALSE]
             y == WithSession(cswp[c], s, x)
  <2>1. cswp' = [cswp EXCEPT ![c] = y] /\ relay' = [relay EXCEPT ![r] = k]
    BY <1>7, Zenon DEF AddUsedComputeUnits
  <2>2. x \in SingleConsumerSession /\ ~x.locked /\ x.latest = 0 /\ Units(x) = Units(o) /\ Units(o) \in Nat
    <3>1. o \in SingleConsumerSession /\ o.latest = 0
      BY <1>1
    <3> HIDE DEF o
    <3>2. x \in SingleConsumerSession /\ x.locked = FALSE /\ x.latest = o.latest /\ x.cuSum = o.cuSum
      BY <3>1, Zenon DEF SingleConsumerSession
    <3> HIDE DEF x
    <3> QED BY <3>1, <3>2 DEF SingleConsumerSession, Units
  <2> HIDE DEF x, k
  <2>3. /\ y \in ConsumerSessionsWithProvider /\ y.used = cswp[c].used
        /\ DOMAIN y.sessions = DOMAIN cswp[c].sessions \cup {s} /\ y.sessions[s] = x
        /\ \A t \in DOMAIN cswp[c].sessions \ {s} : y.sessions[t] = cswp[c].sessions[t]
    <3> HIDE DEF c, s, o
    <3> QED BY <1>0, <1>1, <2>2, WithSessionFacts
  <2> HIDE DEF y
  <2>4. Base' /\ SessionStep(r, c, s, x, y.used, k)
    <3> HIDE DEF c, s, e, p
    <3> QED BY <1>0, <1>1, <1>3, <2>1, <2>2, <2>3, RecordStep, Zenon
  <2>5. \A d \in Pairs, t \in Nat : Has(k, d, t) => Has(rec, d, t)
    BY <1>3 DEF Has, HoldsIn
  <2>6. \A d \in Pairs, t \in Nat : Has(rec, d, t) => Has(k, d, t) \/ (d = c /\ t = s)
    BY <1>1, <1>3 DEF Has, HoldsIn, Pairs
  <2>7. ~Has(k, c, s) /\ \A d \in Pairs, t \in Nat : ~Enters(k, d, t)
    BY <1>1, <1>3 DEF Has, HoldsIn, HasFor, Enters
  <2>8. HolderStep(r, c, s, x, k)
    BY <1>1, <2>2, <2>5, <2>6, <2>7 DEF HolderStep
  <2>9. \A d : DecreaseOf(k, d) = 0
    BY <1>1, <1>3 DEF DecreaseOf
  <2>10. UnitStep(r, c, s, x, y.used, k)
    <3>1. cswp[c].used = cswp[c].used + Units(o) - Units(o) + 0 - 0
      BY <1>4, <2>2
    <3> HIDE DEF c, s, o
    <3> QED BY <1>1, <1>4, <1>5, <2>2, <2>3, <2>9, <3>1 DEF UnitStep, o
  <2> QED BY <1>0, <2>4, <2>8, <2>10, SessionInv
<1> QED BY <1>6, <1>7

--------------------------------------------------------------------------------
(* The end of a relay. *)

\* Relay r moves to g, whose map differs at p.
Touches(r, p, g) ==
    /\ g \in Goroutine /\ Tries(g, currentEpoch) /\ relay' = [relay EXCEPT ![r] = g] /\ g.pc # "add"
    /\ DOMAIN g.held \subseteq DOMAIN relay[r].held
    /\ \A q \in DOMAIN relay[r].held \ {p} : q \in DOMAIN g.held /\ g.held[q] = relay[r].held[q]

\* The map loses p, or its entry moves to a later stage.
HandsBack(r, p, g) == Touches(r, p, g) /\ p \notin DOMAIN g.held
Advances(r, p, g, h) ==
    Touches(r, p, g) /\ p \in DOMAIN g.held /\ g.held[p] = h /\ h.epoch = relay[r].held[p].epoch
      /\ h \in Hold /\ h.stage # "held"

\* A relay that hands back its session with p.
LEMMA HandedBackFacts ==
    ASSUME Base, NEW r \in Relays, NEW p, relay[r].pc = "using", HandedBack(r, p)
    PROVE  \E g : HandsBack(r, p, g)
<1> DEFINE m == relay[r].held
           rest == Restrict(m, DOMAIN m \ {p})
<1>0. relay[r] \in Goroutine /\ Tries(relay[r], currentEpoch) /\ currentEpoch \in Epochs
  BY RelayFacts
<1>1. DOMAIN rest = DOMAIN m \ {p} /\ \A q \in DOMAIN m \ {p} : rest[q] = m[q]
  BY DEF Restrict
<1>2. rest \in Maps
  <2>1. DOMAIN m \subseteq Providers /\ \A q \in DOMAIN m : m[q] \in Hold
    BY <1>0, MapFacts DEF Goroutine
  <2>2. rest \in [DOMAIN m \ {p} -> Hold]
    BY <2>1 DEF Restrict
  <2> QED BY <2>1, <2>2, MapFacts, Zenon
<1>3. CASE DOMAIN rest = {}
  <2>1. relay' = [relay EXCEPT ![r] = Idle]
    BY <1>3 DEF HandedBack
  <2>2. Idle \in Goroutine /\ Tries(Idle, currentEpoch) /\ Idle.pc # "add" /\ DOMAIN Idle.held = {}
    BY <1>0, IdleFacts, MapFacts
  <2>3. HandsBack(r, p, Idle)
    BY <1>1, <1>3, <2>1, <2>2 DEF HandsBack, Touches
  <2> QED BY <2>3
<1>4. CASE DOMAIN rest # {}
  <2> DEFINE g == [relay[r] EXCEPT !.held = rest]
  <2>1. relay' = [relay EXCEPT ![r] = g]
    BY <1>4, Zenon DEF HandedBack
  <2> HIDE DEF rest
  <2>2. /\ g \in Goroutine /\ g.pc = "using" /\ g.held = rest /\ g.todo = relay[r].todo
        /\ g.ignored = relay[r].ignored /\ g.ignoredEpoch = relay[r].ignoredEpoch
    BY <1>0, <1>2 DEF Goroutine
  <2> HIDE DEF g
  <2>3. Tries(g, currentEpoch)
    BY <1>0, <1>1, <2>2 DEF Tries, Trying, HasFor
  <2>4. HandsBack(r, p, g)
    BY <1>1, <2>1, <2>2, <2>3 DEF HandsBack, Touches
  <2> QED BY <2>4
<1> QED BY <1>3, <1>4, Zenon

\* A relay whose entry for p moves to a later stage.
LEMMA AdvanceFacts ==
    ASSUME Base, NEW r \in Relays, NEW p \in DOMAIN relay[r].held, relay[r].pc = "using",
           NEW h \in Hold, h.epoch = relay[r].held[p].epoch, h.stage # "held",
           relay' = [relay EXCEPT ![r].held[p] = h]
    PROVE  \E g : Advances(r, p, g, h)
<1> DEFINE m == [relay[r].held EXCEPT ![p] = h]
           g == [relay[r] EXCEPT !.held = m]
<1>0. relay[r] \in Goroutine /\ Tries(relay[r], currentEpoch) /\ relay \in [Relays -> Goroutine]
  BY RelayFacts
<1>1. relay' = [relay EXCEPT ![r] = g]
  BY <1>0
<1>2. /\ relay[r].held \in [DOMAIN relay[r].held -> Hold] /\ DOMAIN relay[r].held \subseteq Providers
  BY <1>0, MapFacts DEF Goroutine
<1>3. m \in Maps /\ DOMAIN m = DOMAIN relay[r].held /\ m[p] = h
        /\ \A q \in DOMAIN relay[r].held \ {p} : m[q] = relay[r].held[q]
  <2>1. m \in [DOMAIN relay[r].held -> Hold]
    BY <1>2
  <2> QED BY <1>2, <2>1, MapFacts, Zenon
<1> HIDE DEF m
<1>4. /\ g \in Goroutine /\ g.pc = "using" /\ g.held = m /\ g.todo = relay[r].todo
      /\ g.ignored = relay[r].ignored /\ g.ignoredEpoch = relay[r].ignoredEpoch
  BY <1>0, <1>3 DEF Goroutine
<1> HIDE DEF g
<1>5. \A q \in DOMAIN m : m[q].epoch = relay[r].held[q].epoch
  BY <1>3
<1>6. Tries(g, currentEpoch)
  BY <1>0, <1>3, <1>4, <1>5 DEF Tries, Trying, HasFor
<1>7. Advances(r, p, g, h)
  BY <1>1, <1>3, <1>4, <1>6, Zenon DEF Advances, Touches
<1> QED BY <1>7

\* The entry of p in a relay's map, at the stage at which the relay uses the session.
LEMMA HeldFacts ==
    ASSUME Inv, NEW r \in Relays, NEW p \in DOMAIN relay[r].held
    PROVE  LET h == relay[r].held[p]
               c == <<h.epoch, p>>
               s == h.session
           IN  /\ h \in Hold /\ c \in Pairs /\ c[1] = h.epoch /\ c[2] = p /\ s \in Nat \ {0}
               /\ h.stage # "held" => relay[r].pc = "using"
               /\ h.stage = "held" =>
                    /\ s \in DOMAIN cswp[c].sessions /\ cswp[c].sessions[s] \in SingleConsumerSession
                    /\ cswp[c].sessions[s].locked /\ ~cswp[c].sessions[s].blocked
                    /\ \A q \in Relays \ {r} : ~Has(relay[q], c, s)
<1> DEFINE h == relay[r].held[p]
           c == <<h.epoch, p>>
           s == h.session
<1>1. relay[r] \in Goroutine /\ Tries(relay[r], currentEpoch) /\ Types
  BY RelayFacts DEF Inv, Base
<1>2. h \in Hold /\ p \in Providers
  BY <1>1, MapFacts DEF Goroutine
<1>3. c \in Pairs /\ c[1] = h.epoch /\ c[2] = p /\ s \in Nat \ {0}
  BY <1>2 DEF Hold, Pairs
<1>4. h.stage # "held" => relay[r].pc = "using"
  BY <1>1 DEF Tries
<1>5. ASSUME h.stage = "held"
      PROVE  /\ s \in DOMAIN cswp[c].sessions /\ cswp[c].sessions[s] \in SingleConsumerSession
             /\ cswp[c].sessions[s].locked /\ ~cswp[c].sessions[s].blocked
             /\ \A q \in Relays \ {r} : ~Has(relay[q], c, s)
  <2>1. Has(relay[r], c, s)
    BY <1>3, <1>5 DEF Has, HoldsIn
  <2> HIDE DEF c, s
  <2>2. /\ s \in DOMAIN cswp[c].sessions /\ cswp[c].sessions[s].locked /\ ~cswp[c].sessions[s].blocked
        /\ \A q \in Relays : Has(relay[q], c, s) => q = r
    BY <1>3, <2>1 DEF Inv, Borrowed
  <2> QED BY <1>1, <1>3, <2>2, SessionFacts
<1> QED BY <1>2, <1>3, <1>4, <1>5, Zenon

\* A relay in use of its sessions whose map differs at p has the same other sessions
\* and the same units to give back to other providers.
LEMMA TouchedElsewhere ==
    ASSUME NEW r, NEW p \in DOMAIN relay[r].held, NEW g, Touches(r, p, g), relay[r].pc = "using",
           p \in DOMAIN g.held => g.held[p].epoch = relay[r].held[p].epoch /\ g.held[p].stage # "held",
           NEW c, c = <<relay[r].held[p].epoch, p>>
    PROVE  /\ \A d \in Pairs, t \in Nat : ~Enters(g, d, t) /\ ~Enters(relay[r], d, t)
           /\ \A d \in Pairs, t \in Nat : Has(g, d, t) => Has(relay[r], d, t) /\ d[2] # p
           /\ \A d \in Pairs, t \in Nat : Has(relay[r], d, t) /\ d[2] # p => Has(g, d, t)
           /\ \A d \in Pairs, t \in Nat : Has(relay[r], d, t) /\ d[2] = p =>
                d = c /\ t = relay[r].held[p].session /\ relay[r].held[p].stage = "held"
           /\ \A d \in Pairs \ {c} : DecreaseOf(g, d) = DecreaseOf(relay[r], d)
<1>1. g.pc # "add" /\ relay[r].pc # "add"
  BY DEF Touches
<1>2. \A d \in Pairs : d[2] # p => (d[2] \in DOMAIN g.held <=> d[2] \in DOMAIN relay[r].held)
                         /\ (d[2] \in DOMAIN g.held => g.held[d[2]] = relay[r].held[d[2]])
  BY DEF Touches
<1>3. \A d \in Pairs, t \in Nat : ~Enters(g, d, t) /\ ~Enters(relay[r], d, t)
  BY <1>1 DEF Enters
<1>4. \A d \in Pairs, t \in Nat : d[2] # p => (Has(g, d, t) <=> Has(relay[r], d, t))
  BY <1>1, <1>2 DEF Has, HoldsIn
<1>5. \A d \in Pairs, t \in Nat : d[2] = p => ~Has(g, d, t)
  BY <1>1 DEF Has, HoldsIn
<1>6. \A d \in Pairs, t \in Nat : Has(relay[r], d, t) /\ d[2] = p =>
                d = c /\ t = relay[r].held[p].session /\ relay[r].held[p].stage = "held"
  BY <1>1 DEF Has, HoldsIn, Pairs
<1>7. ASSUME NEW d \in Pairs \ {c} PROVE DecreaseOf(g, d) = DecreaseOf(relay[r], d)
  <2>1. CASE d[2] # p
    BY <1>2, <2>1 DEF DecreaseOf
  <2>2. CASE d[2] = p
    <3>1. d[1] # relay[r].held[p].epoch
      BY <2>2 DEF Pairs
    <3> QED BY <2>2, <3>1 DEF DecreaseOf
  <2> QED BY <2>1, <2>2
<1> QED BY <1>3, <1>4, <1>5, <1>6, <1>7

\* The session after an answer, and after a failure.
LEMMA AnsweredSession ==
    ASSUME NEW o \in SingleConsumerSession
    PROVE  LET x == [o EXCEPT !.cuSum = o.cuSum + o.latest, !.latest = 0, !.errors = 0, !.locked = FALSE]
           IN  /\ x \in SingleConsumerSession /\ ~x.locked /\ x.latest = 0
               /\ Units(x) = Units(o)
<1> DEFINE x(l) == [o EXCEPT !.cuSum = o.cuSum + o.latest, !.latest = 0, !.errors = 0, !.locked = l]
<1>1. o.cuSum + o.latest \in Nat
  BY DEF SingleConsumerSession
<1>2. \A l \in BOOLEAN : x(l) \in SingleConsumerSession
  BY <1>1, Zenon DEF SingleConsumerSession
<1>3. x(FALSE) \in SingleConsumerSession
  BY <1>2, Zenon
<1>4. ~x(FALSE).locked
  BY DEF SingleConsumerSession
<1>5. x(FALSE).latest = 0 /\ x(FALSE).cuSum = o.cuSum + o.latest
  BY DEF SingleConsumerSession
<1> QED BY <1>1, <1>3, <1>4, <1>5 DEF Units

\* The units of a failed relay leave its session.
LEMMA FailedSession ==
    ASSUME NEW o \in SingleConsumerSession, NEW b \in BOOLEAN
    PROVE  LET x == [o EXCEPT !.errors = o.errors + 1, !.blocked = b, !.latest = 0, !.locked = FALSE]
           IN  /\ x \in SingleConsumerSession /\ ~x.locked /\ x.latest = 0
               /\ Units(x) + o.latest = Units(o)
<1> DEFINE x(l) == [o EXCEPT !.errors = o.errors + 1, !.blocked = b, !.latest = 0, !.locked = l]
<1>1. o.errors + 1 \in Nat /\ o.latest \in Nat /\ o.cuSum \in Nat
  BY DEF SingleConsumerSession
<1>2. \A l \in BOOLEAN : x(l) \in SingleConsumerSession
  BY <1>1, Zenon DEF SingleConsumerSession
<1>3. x(FALSE) \in SingleConsumerSession
  BY <1>2, Zenon
<1>4. ~x(FALSE).locked
  BY DEF SingleConsumerSession
<1>5. x(FALSE).latest = 0 /\ x(FALSE).cuSum = o.cuSum
  BY DEF SingleConsumerSession
<1>6. Units(x(FALSE)) + o.latest = Units(o)
  BY <1>1, <1>5 DEF Units
<1> QED BY <1>3, <1>4, <1>5, <1>6

\* A relay unlocks its session with p: what the session loses of its units the
\* relay has yet to give back.
Unlocks(r, p, g, c, s, x) ==
    /\ relay[r].pc = "using" /\ relay[r].held[p].stage = "held" /\ Touches(r, p, g)
    /\ p \in DOMAIN g.held => g.held[p].epoch = relay[r].held[p].epoch /\ g.held[p].stage # "held"
    /\ c = <<relay[r].held[p].epoch, p>> /\ s = relay[r].held[p].session
    /\ x \in SingleConsumerSession /\ ~x.locked /\ x.latest = 0
    /\ cswp' = [cswp EXCEPT ![c] = WithSession(cswp[c], s, x)]
    /\ Units(x) + DecreaseOf(g, c) = Units(cswp[c].sessions[s])

\* Unlocking keeps the invariant.
LEMMA UnlockInv ==
    ASSUME Inv, Manager', currentEpoch' = currentEpoch,
           NEW r \in Relays, NEW p \in DOMAIN relay[r].held,
           NEW g, NEW c, NEW s, NEW x, Unlocks(r, p, g, c, s, x)
    PROVE  Inv'
<1>0. Base /\ Types /\ relay[r] \in Goroutine
  BY RelayFacts DEF Inv, Base
<1>1. /\ c \in Pairs /\ c[1] = relay[r].held[p].epoch /\ c[2] = p /\ s \in Nat
      /\ s \in DOMAIN cswp[c].sessions /\ cswp[c].sessions[s] \in SingleConsumerSession
      /\ \A q \in Relays \ {r} : ~Has(relay[q], c, s)
  BY HeldFacts, Zenon DEF Unlocks
<1>u. Touches(r, p, g) /\ x \in SingleConsumerSession /\ ~x.locked /\ x.latest = 0
  BY DEF Unlocks
<1> DEFINE y == WithSession(cswp[c], s, x)
<1>2. /\ y \in ConsumerSessionsWithProvider /\ y.used = cswp[c].used
      /\ DOMAIN y.sessions = DOMAIN cswp[c].sessions \cup {s} /\ y.sessions[s] = x
      /\ \A t \in DOMAIN cswp[c].sessions \ {s} : y.sessions[t] = cswp[c].sessions[t]
  BY <1>0, <1>1, <1>u, WithSessionFacts
<1>3. cswp' = [cswp EXCEPT ![c] = y]
  BY DEF Unlocks
<1> HIDE DEF y
<1>4. g \in Goroutine /\ Tries(g, currentEpoch) /\ relay' = [relay EXCEPT ![r] = g]
  BY <1>u DEF Touches
<1>5. Base' /\ SessionStep(r, c, s, x, y.used, g)
  BY <1>0, <1>1, <1>2, <1>3, <1>4, <1>u, RecordStep, Zenon
<1>6. /\ \A d \in Pairs, t \in Nat : ~Enters(g, d, t)
      /\ \A d \in Pairs, t \in Nat : Has(g, d, t) => Has(relay[r], d, t) /\ d[2] # p
      /\ \A d \in Pairs, t \in Nat : Has(relay[r], d, t) => Has(g, d, t) \/ (d = c /\ t = s)
      /\ \A d \in Pairs \ {c} : DecreaseOf(g, d) = DecreaseOf(relay[r], d)
  BY TouchedElsewhere DEF Unlocks
<1>7. HolderStep(r, c, s, x, g)
  BY <1>1, <1>6, <1>u DEF HolderStep
<1>8. cswp[c].used \in Nat /\ cswp[c].used <= MaxComputeUnits * (VirtualEpoch + 1)
  BY <1>0, <1>1, SessionFacts DEF Inv, UsedAccounted, Types, Pairs
<1>9. DecreaseOf(relay[r], c) = 0 /\ DecreaseOf(g, c) \in Nat
  BY <1>1, <1>4, DecreaseNat DEF DecreaseOf, Unlocks
<1>10. Units(x) \in Nat /\ Units(cswp[c].sessions[s]) \in Nat
  BY <1>1, <1>u DEF Units, SingleConsumerSession
<1>11. cswp[c].used = cswp[c].used + Units(x) - Units(cswp[c].sessions[s]) + DecreaseOf(g, c) - 0
  <2>1. Units(x) + DecreaseOf(g, c) = Units(cswp[c].sessions[s])
    BY DEF Unlocks
  <2> QED BY <1>8, <1>9, <1>10, <2>1
<1>12. UnitStep(r, c, s, x, y.used, g)
  BY <1>1, <1>2, <1>6, <1>8, <1>9, <1>11 DEF UnitStep
<1> QED BY <1>5, <1>7, <1>12, SessionInv

\* OnSessionDone moves the units from the relay to the sum.
LEMMA DoneInv ==
    ASSUME Inv, NEW r \in Relays, NEW p \in DOMAIN relay[r].held, OnSessionDone(r, p) PROVE Inv'
<1> DEFINE h == relay[r].held[p]
           c == <<h.epoch, p>>
           s == h.session
           o == cswp[c].sessions[s]
           x == [o EXCEPT !.cuSum = o.cuSum + o.latest, !.latest = 0, !.errors = 0, !.locked = FALSE]
<1>0. /\ Base /\ Manager' /\ currentEpoch' = currentEpoch /\ relay[r].pc = "using" /\ h.stage = "held"
  BY SameManagerFresh DEF OnSessionDone, Inv, Base, Types, SameManager, manager
<1>1. cswp' = [cswp EXCEPT ![c] = WithSession(cswp[c], s, x)] /\ HandedBack(r, p)
  BY Zenon DEF OnSessionDone, SessionAt
<1>2. o \in SingleConsumerSession
  BY <1>0, HeldFacts, Zenon
<1>3. PICK g : HandsBack(r, p, g)
  BY <1>0, <1>1, HandedBackFacts
<1>4. Touches(r, p, g) /\ p \notin DOMAIN g.held /\ c[2] = p
  BY <1>3 DEF HandsBack
<1>5. DecreaseOf(g, c) = 0
  BY <1>4 DEF DecreaseOf
<1>6. x \in SingleConsumerSession /\ ~x.locked /\ x.latest = 0 /\ Units(x) = Units(o) /\ Units(o) \in Nat
  <2> HIDE DEF o
  <2> QED BY <1>2, AnsweredSession, Zenon DEF Units, SingleConsumerSession
<1> HIDE DEF x
<1>7. Units(x) + DecreaseOf(g, c) = Units(o)
  <2> HIDE DEF o, c
  <2> QED BY <1>5, <1>6
<1>8. Unlocks(r, p, g, c, s, x)
  BY <1>0, <1>1, <1>4, <1>6, <1>7, Zenon DEF Unlocks
<1> QED BY <1>0, <1>8, UnlockInv

\* OnSessionFailure until the unlock.
LEMMA FailureInv ==
    ASSUME Inv, NEW r \in Relays, NEW p \in DOMAIN relay[r].held,
           NEW syncLoss \in BOOLEAN, OnSessionFailure(r, p, syncLoss)
    PROVE  Inv'
<1> DEFINE h == relay[r].held[p]
           c == <<h.epoch, p>>
           s == h.session
           o == cswp[c].sessions[s]
           b == o.errors + 1 > MaximumNumberOfFailuresAllowedPerConsumerSession \/ syncLoss
           x == [o EXCEPT !.errors = o.errors + 1, !.blocked = b, !.latest = 0, !.locked = FALSE]
           report == b /\ cswp[c].used <= o.latest
           new == [h EXCEPT !.stage = "decrease", !.cu = o.latest, !.report = report]
<1>0. /\ Base /\ Manager' /\ currentEpoch' = currentEpoch /\ relay[r].pc = "using" /\ h.stage = "held"
  BY SameManagerFresh DEF OnSessionFailure, Inv, Base, Types, SameManager, manager
<1>1. cswp' = [cswp EXCEPT ![c] = WithSession(cswp[c], s, x)] /\ relay' = [relay EXCEPT ![r].held[p] = new]
  BY Zenon DEF OnSessionFailure
<1>2. o \in SingleConsumerSession /\ h \in Hold
  BY <1>0, HeldFacts, Zenon
<1>3. b \in BOOLEAN /\ report \in BOOLEAN
  OBVIOUS
<1>4. new \in Hold /\ new.epoch = h.epoch /\ new.stage = "decrease" /\ new.cu = o.latest
  <2> HIDE DEF o, h, report
  <2> QED BY <1>2, <1>3, Zenon DEF SingleConsumerSession, Hold
<1> HIDE DEF new
<1>5. PICK g : Advances(r, p, g, new)
  BY <1>0, <1>1, <1>4, AdvanceFacts, Zenon
<1>6. Touches(r, p, g) /\ p \in DOMAIN g.held /\ g.held[p] = new /\ c[2] = p /\ c[1] = h.epoch
  BY <1>5 DEF Advances
<1>7. DecreaseOf(g, c) = o.latest
  BY <1>4, <1>6 DEF DecreaseOf
<1>8. x \in SingleConsumerSession /\ ~x.locked /\ x.latest = 0 /\ Units(x) + o.latest = Units(o)
  <2> HIDE DEF o, b
  <2> QED BY <1>2, <1>3, FailedSession, Zenon
<1> HIDE DEF x
<1>9. p \in DOMAIN g.held => g.held[p].epoch = h.epoch /\ g.held[p].stage # "held"
  BY <1>4, <1>6
<1>10. Unlocks(r, p, g, c, s, x)
  BY <1>0, <1>1, <1>6, <1>7, <1>8, <1>9 DEF Unlocks
<1> QED BY <1>0, <1>10, UnlockInv

\* A relay that gives units back to a provider, or ends without any left to give.
LEMMA GiveBackInv ==
    ASSUME Inv, Manager', currentEpoch' = currentEpoch,
           NEW r \in Relays, NEW p \in DOMAIN relay[r].held, relay[r].held[p].stage # "held",
           NEW g, Touches(r, p, g),
           p \in DOMAIN g.held => g.held[p].epoch = relay[r].held[p].epoch /\ g.held[p].stage # "held",
           NEW c, c = <<relay[r].held[p].epoch, p>>, DecreaseOf(g, c) = 0,
           cswp' = [cswp EXCEPT ![c].used = cswp[c].used - DecreaseOf(relay[r], c)]
    PROVE  Inv'
<1>0. Base /\ Types /\ relay[r] \in Goroutine
  BY RelayFacts DEF Inv, Base
<1>1. /\ c \in Pairs /\ c[1] = relay[r].held[p].epoch /\ c[2] = p /\ relay[r].pc = "using"
  BY HeldFacts, Zenon
<1>2. g \in Goroutine /\ Tries(g, currentEpoch) /\ relay' = [relay EXCEPT ![r] = g]
        /\ \A q \in Relays : relay'[q] = IF q = r THEN g ELSE relay[q]
  BY <1>0 DEF Touches, Types
<1>3. /\ \A d \in Pairs, t \in Nat : ~Enters(g, d, t) /\ ~Enters(relay[r], d, t)
      /\ \A d \in Pairs, t \in Nat : Has(g, d, t) => Has(relay[r], d, t)
      /\ \A d \in Pairs, t \in Nat : Has(relay[r], d, t) => Has(g, d, t)
      /\ \A d \in Pairs \ {c} : DecreaseOf(g, d) = DecreaseOf(relay[r], d)
  BY <1>1, TouchedElsewhere
<1> DEFINE w == DecreaseOf(relay[r], c)
           u == cswp[c].used - w
           y == [cswp[c] EXCEPT !.used = u]
<1>4. w \in Nat /\ w <= cswp[c].used /\ cswp[c].used \in Nat
        /\ cswp[c].used <= MaxComputeUnits * (VirtualEpoch + 1)
  BY <1>0, <1>1, DecreaseNat, CoversDecrease, SessionFacts DEF Inv, UsedAccounted, Types, Pairs
<1> HIDE DEF w
<1>5. u \in Nat /\ u <= MaxComputeUnits * (VirtualEpoch + 1)
  BY <1>4, ConstantFacts
<1>6. cswp' = [cswp EXCEPT ![c] = y]
  BY DEF w
<1> HIDE DEF u
<1>7. y \in ConsumerSessionsWithProvider /\ y.used = u /\ y.sessions = cswp[c].sessions
  BY <1>0, <1>1, <1>5, SessionFacts, Zenon DEF ConsumerSessionsWithProvider
<1> HIDE DEF y
<1>8. cswp' \in [Pairs -> ConsumerSessionsWithProvider] /\ cswp'[c] = y
        /\ \A d \in Pairs \ {c} : cswp'[d] = cswp[d]
  BY <1>0, <1>1, <1>6, <1>7 DEF Types, Pairs
<1>9. Base'
  BY <1>0, <1>2, <1>8, RelayStep, Zenon DEF Pairs
<1>10. SameHolders
  BY <1>2, <1>3, <1>7, <1>8 DEF SameHolders
<1>11. Borrowed' /\ Kept'
  <2>1. currentEpoch' \in Int /\ currentEpoch' >= currentEpoch
    BY <1>0, RelayFacts
  <2> QED BY <1>0, <1>10, <2>1, SameHoldersKeep DEF Inv
<1>12. UsedAccounted'
  <2>0. Types' /\ DOMAIN cswp = Pairs /\ DOMAIN cswp' = Pairs
    BY <1>0, <1>8, <1>9 DEF Types, Base, Pairs
  <2> SUFFICES ASSUME NEW d \in Pairs
      PROVE  /\ cswp'[d].used = SumFunction(SessionUnits(cswp'[d].sessions)) + SumFunction(ToDecrease(d)')
             /\ cswp'[d].used <= MaxComputeUnits * (VirtualEpoch + 1)
    BY <2>0, Zenon DEF UsedAccounted, ToDecrease
  <2>1. /\ cswp[d].used = SumFunction(SessionUnits(cswp[d].sessions)) + SumFunction(ToDecrease(d))
        /\ cswp[d].used <= MaxComputeUnits * (VirtualEpoch + 1)
    BY <2>0 DEF Inv, UsedAccounted
  <2>2. /\ SumFunction(ToDecrease(d)') = SumFunction(ToDecrease(d)) + DecreaseOf(g, d) - DecreaseOf(relay[r], d)
        /\ SumFunction(ToDecrease(d)) \in Nat
        /\ DecreaseOf(g, d) \in Nat /\ DecreaseOf(relay[r], d) \in Nat
    BY <1>0, <1>2, <2>0, DecreaseChange, Zenon
  <2>3. CASE d # c
    BY <1>3, <1>8, <2>1, <2>2, <2>3
  <2>4. CASE d = c
    <3> DEFINE S == SumFunction(SessionUnits(cswp[c].sessions))
    <3>1. S \in Nat
      BY <1>0, <1>1, UnitsNat, SumNat
    <3>2. cswp'[d].sessions = cswp[c].sessions /\ cswp'[d].used = cswp[c].used - DecreaseOf(relay[r], c)
      BY <1>7, <1>8, <2>4 DEF u, w
    <3>3. cswp'[d].used = S + SumFunction(ToDecrease(d)')
      <4> HIDE DEF S
      <4>1. cswp[c].used = S + SumFunction(ToDecrease(d))
        BY <2>1, <2>4 DEF S
      <4> QED BY <2>2, <2>4, <3>1, <3>2, <4>1
    <3>4. cswp'[d].used <= MaxComputeUnits * (VirtualEpoch + 1)
      BY <1>5, <1>7, <1>8, <2>4, Zenon
    <3> QED BY <3>2, <3>3, <3>4
  <2> QED BY <2>3, <2>4
<1> QED BY <1>9, <1>11, <1>12 DEF Inv

\* The decrease is never below zero, for the accounts cover it.
LEMMA DecreaseInv ==
    ASSUME Inv, NEW r \in Relays, NEW p \in DOMAIN relay[r].held, DecreaseUsedComputeUnits(r, p)
    PROVE  Inv'
<1> DEFINE h == relay[r].held[p]
           c == <<h.epoch, p>>
<1>0. Base /\ Types /\ Manager' /\ currentEpoch' = currentEpoch /\ h.stage = "decrease"
  BY SameManagerFresh, Zenon DEF DecreaseUsedComputeUnits, Inv, Base, Types, SameManager, manager
<1>1. h \in Hold /\ c \in Pairs /\ c[1] = h.epoch /\ c[2] = p /\ relay[r].pc = "using" /\ h.cu \in Nat
  BY <1>0, HeldFacts, Zenon DEF Hold
<1>2. DecreaseOf(relay[r], c) = h.cu
  BY <1>0, <1>1 DEF DecreaseOf
<1>3. ~(cswp[c].used < h.cu)
  <2>1. h.cu <= cswp[c].used
    BY <1>0, <1>1, <1>2, CoversDecrease DEF Inv
  <2>2. cswp[c].used \in Nat
    BY <1>0, <1>1, SessionFacts
  <2> QED BY <1>1, <2>1, <2>2
<1>4. cswp' = [cswp EXCEPT ![c].used = cswp[c].used - DecreaseOf(relay[r], c)]
  BY <1>2, <1>3, Zenon DEF DecreaseUsedComputeUnits
<1>5. CASE h.report
  <2> DEFINE new == [h EXCEPT !.stage = "block", !.cu = 0]
  <2>1. relay' = [relay EXCEPT ![r].held[p] = new]
    BY <1>3, <1>5, Zenon DEF DecreaseUsedComputeUnits
  <2>2. new \in Hold /\ new.epoch = h.epoch /\ new.stage = "block"
    BY <1>1, Zenon DEF Hold
  <2> HIDE DEF new
  <2>3. PICK g : Advances(r, p, g, new)
    BY <1>0, <1>1, <2>1, <2>2, AdvanceFacts, Zenon
  <2>4. Touches(r, p, g) /\ p \in DOMAIN g.held /\ g.held[p] = new
    BY <2>3 DEF Advances
  <2>5. DecreaseOf(g, c) = 0
    BY <1>1, <2>2, <2>4 DEF DecreaseOf
  <2> QED BY <1>0, <1>4, <2>2, <2>4, <2>5, GiveBackInv, Zenon
<1>6. CASE ~h.report
  <2>1. HandedBack(r, p)
    BY <1>6, Zenon DEF DecreaseUsedComputeUnits
  <2>2. PICK g : HandsBack(r, p, g)
    BY <1>0, <1>1, <2>1, HandedBackFacts
  <2>3. Touches(r, p, g) /\ p \notin DOMAIN g.held
    BY <2>2 DEF HandsBack
  <2>4. DecreaseOf(g, c) = 0
    BY <1>1, <2>3 DEF DecreaseOf
  <2> QED BY <1>0, <1>4, <2>3, <2>4, GiveBackInv, Zenon
<1> QED BY <1>5, <1>6

\* The last step of a failure.
LEMMA FailureBlocksInv ==
    ASSUME Inv, NEW r \in Relays, NEW p \in DOMAIN relay[r].held, FailureBlocks(r, p)
    PROVE  Inv'
<1> DEFINE h == relay[r].held[p]
           c == <<h.epoch, p>>
<1>0. Base /\ Types /\ Manager' /\ currentEpoch' = currentEpoch /\ h.stage = "block" /\ cswp' = cswp
        /\ HandedBack(r, p)
  BY BlockFresh, Zenon DEF FailureBlocks, Inv, Base, Types
<1>1. c \in Pairs /\ c[1] = h.epoch /\ c[2] = p /\ relay[r].pc = "using"
  BY <1>0, HeldFacts, Zenon
<1>2. PICK g : HandsBack(r, p, g)
  BY <1>0, <1>1, HandedBackFacts
<1>3. Touches(r, p, g) /\ p \notin DOMAIN g.held
  BY <1>2 DEF HandsBack
<1>4. DecreaseOf(relay[r], c) = 0 /\ DecreaseOf(g, c) = 0
  BY <1>0, <1>1, <1>3 DEF DecreaseOf
<1>5. cswp' = [cswp EXCEPT ![c].used = cswp[c].used - DecreaseOf(relay[r], c)]
  <2>1. cswp[c].used - DecreaseOf(relay[r], c) = cswp[c].used
    BY <1>0, <1>1, <1>4, SessionFacts
  <2>2. [cswp[c] EXCEPT !.used = cswp[c].used] = cswp[c]
    <3> HIDE DEF c
    <3> QED BY <1>0, <1>1, SessionFacts DEF ConsumerSessionsWithProvider
  <2>3. cswp = [cswp EXCEPT ![c] = cswp[c]]
    BY <1>0, <1>1 DEF Types, Pairs
  <2> QED BY <1>0, <2>1, <2>2, <2>3
<1>6. h.stage # "held" /\ Manager' /\ currentEpoch' = currentEpoch
  BY <1>0
<1> HIDE DEF c
<1>7. c = <<relay[r].held[p].epoch, p>>
  BY DEF c
<1> QED BY <1>3, <1>4, <1>5, <1>6, <1>7, GiveBackInv, Zenon

--------------------------------------------------------------------------------
(* The other goroutines, and every step. *)

\* Steps of other goroutines, and of the epoch.
LEMMA OtherInv ==
    ASSUME Inv, Manager', currentEpoch' >= currentEpoch, relay' = relay, SameUnits,
           cswp' \in [Epochs \X Providers -> ConsumerSessionsWithProvider]
    PROVE  Inv'
<1>1. Base'
  BY OtherStep DEF Inv
<1>2. Still
  BY DEF Still
<1> QED BY <1>1, <1>2, StillInv

\* A new pairing replaces every list.
LEMMA UpdateInv == ASSUME Inv, UpdateAllProviders PROVE Inv'
<1>0. Base /\ Types /\ Manager
  BY DEF Inv, Base, Types
<1>1. currentEpoch' \in Epochs /\ currentEpoch' >= currentEpoch
  <2>1. setting.epochs \in Epochs /\ currentEpoch \in Epochs
    BY <1>0, ConstantFacts DEF Manager
  <2>2. currentEpoch' = currentEpoch + 1 /\ currentEpoch + 1 <= setting.epochs
    BY DEF UpdateAllProviders
  <2> QED BY <2>1, <2>2, ConstantFacts
<1>2. validAddresses' = PairingOf(currentEpoch') /\ addonAddresses' = NoAddresses
        /\ numberOfResets' = 0 /\ setting' = setting
  BY DEF UpdateAllProviders
<1>3. PairingOf(currentEpoch') \subseteq Providers
  BY <1>1, ConstantFacts
<1>4. Manager'
  BY <1>0, <1>1, <1>2, <1>3 DEF Manager, CachesFresh, Pairing, NoAddresses
<1>5. relay' = relay /\ cswp' = cswp
  BY DEF UpdateAllProviders
<1> QED BY <1>0, <1>1, <1>4, <1>5, SameCswp, OtherInv

\* The probes of a pairing.
LEMMA ProbeInv == ASSUME Inv, NEW b \in probes, Probe(b) \/ ProbeBlocks(b) PROVE Inv'
<1>0. Base /\ Types /\ Manager /\ currentEpoch \in Int
  BY ConstantFacts DEF Inv, Base, Types, Manager
<1>1. CASE Probe(b)
  <2>1. Manager' /\ currentEpoch' = currentEpoch /\ relay' = relay
    BY <1>0, <1>1, SameManagerFresh, Zenon DEF Probe, SameManager, manager
  <2>2. PICK f \in FetchOutcomes(cswp[<<b.epoch, b.provider>>]) :
          cswp' = [cswp EXCEPT ![<<b.epoch, b.provider>>].refusals = f.refusals]
    BY <1>1, Zenon DEF Probe
  <2>3. SameUnits /\ cswp' \in [Epochs \X Providers -> ConsumerSessionsWithProvider]
    BY <1>0, <2>2, FetchStep, Zenon
  <2> QED BY <1>0, <2>1, <2>3, OtherInv
<1>2. CASE ProbeBlocks(b)
  <2>1. Manager' /\ currentEpoch' = currentEpoch /\ relay' = relay /\ cswp' = cswp
    BY <1>0, <1>2, BlockFresh, Zenon DEF ProbeBlocks
  <2> QED BY <1>0, <2>1, SameCswp, OtherInv
<1> QED BY <1>1, <1>2

\* The reconnection ticker.
LEMMA ReconnectInv == ASSUME Inv, Reconnect PROVE Inv'
<1>0. Base /\ Types /\ Manager /\ currentEpoch \in Int
  BY ConstantFacts DEF Inv, Base, Types, Manager
<1>1. CASE ReconnectProviders \/ ReconnectEnds
  <2>1. /\ UNCHANGED <<currentEpoch, validAddresses, addonAddresses, numberOfResets, setting>>
        /\ relay' = relay /\ cswp' = cswp
    BY <1>1, Zenon DEF ReconnectProviders, ReconnectEnds, manager
  <2>2. Manager'
    BY <1>0, <2>1 DEF Manager, CachesFresh, Pairing
  <2> QED BY <1>0, <2>1, <2>2, SameCswp, OtherInv
<1>2. CASE ReconnectProbe
  <2>1. Manager' /\ currentEpoch' = currentEpoch /\ relay' = relay
    BY <1>0, <1>2, SameManagerFresh, Zenon DEF ReconnectProbe, SameManager, manager
  <2>2. PICK c \in reconnect.todo : \E f \in FetchOutcomes(cswp[<<c[2], c[1]>>]) :
          cswp' = [cswp EXCEPT ![<<c[2], c[1]>>].refusals = f.refusals]
    BY <1>2, Zenon DEF ReconnectProbe
  <2>3. PICK f \in FetchOutcomes(cswp[<<c[2], c[1]>>]) :
          cswp' = [cswp EXCEPT ![<<c[2], c[1]>>].refusals = f.refusals]
    BY <2>2, Zenon
  <2>4. SameUnits /\ cswp' \in [Epochs \X Providers -> ConsumerSessionsWithProvider]
    BY <1>0, <2>3, FetchStep, Zenon
  <2> QED BY <1>0, <2>1, <2>4, OtherInv
<1>3. CASE ReconnectBlocks
  <2>1. Manager' /\ currentEpoch' = currentEpoch /\ relay' = relay /\ cswp' = cswp
    BY <1>0, <1>3, BlockFresh, Zenon DEF ReconnectBlocks
  <2> QED BY <1>0, <2>1, SameCswp, OtherInv
<1> QED BY <1>1, <1>2, <1>3 DEF Reconnect

\* The steps of a relay.
LEMMA RelayInv ==
    ASSUME Inv, NEW r \in Relays, Validate(r) \/ Search(r) \/ Finish(r) PROVE Inv'
<1>0. Base /\ currentEpoch \in Int
  BY RelayFacts DEF Inv
<1>1. ASSUME Base', Still, currentEpoch' = currentEpoch PROVE Inv'
  BY <1>0, <1>1, StillInv
<1>2. CASE Validate(r)
  BY <1>0, <1>1, <1>2, ValidateBase, Zenon DEF Validate
<1>3. CASE ResetValidAddresses(r)
  BY <1>0, <1>1, <1>3, ResetBase, Zenon DEF ResetValidAddresses
<1>4. CASE Choose(r)
  BY <1>0, <1>1, <1>4, ChooseBase, Zenon DEF Choose, manager
<1>5. CASE NoneLeft(r)
  BY <1>0, <1>1, <1>5, NoneLeftBase, Zenon DEF NoneLeft, manager
<1>6. CASE Fetch(r)
  BY <1>0, <1>1, <1>6, FetchBase, Zenon DEF Fetch, manager
<1>7. CASE FetchBlocks(r)
  BY <1>0, <1>1, <1>7, SearchBlocksBase, Zenon DEF FetchBlocks, BlockProvider
<1>8. CASE SessionsBlock(r)
  BY <1>0, <1>1, <1>8, SearchBlocksBase, Zenon DEF SessionsBlock, BlockProvider
<1>9. CASE GetConsumerSessionInstance(r)
  BY <1>9, InstanceInv
<1>10. CASE AddUsedComputeUnits(r)
  BY <1>10, AddInv
<1>11. CASE Finish(r)
  BY <1>11, DoneInv, FailureInv, DecreaseInv, FailureBlocksInv DEF Finish
<1> QED BY <1>2, <1>3, <1>4, <1>5, <1>6, <1>7, <1>8, <1>9, <1>10, <1>11 DEF Search

\* Every step keeps the invariant.
LEMMA InvNext == Inv /\ [Next]_vars => Inv'
<1> SUFFICES ASSUME Inv, [Next]_vars PROVE Inv'
  OBVIOUS
<1>1. CASE UNCHANGED vars
  <2>1. Base /\ Types /\ Manager /\ currentEpoch \in Int
    BY ConstantFacts DEF Inv, Base, Types, Manager
  <2>2. SameManager /\ currentEpoch' = currentEpoch /\ relay' = relay /\ cswp' = cswp
    BY <1>1 DEF vars, SameManager, manager
  <2>3. Manager' /\ SameUnits /\ cswp' \in [Epochs \X Providers -> ConsumerSessionsWithProvider]
    BY <2>1, <2>2, SameManagerFresh, SameCswp
  <2> QED BY <2>1, <2>2, <2>3, OtherInv
<1>2. CASE Next
  BY <1>2, UpdateInv, ProbeInv, RelayInv, ReconnectInv DEF Next
<1> QED BY <1>1, <1>2

\* The invariant holds at the start.
LEMMA InitInv == Init => Inv
<1> SUFFICES ASSUME Init PROVE Inv
  OBVIOUS
<1>0. Base /\ Types
  BY InitBase DEF Base
<1>1. \A r \in Relays : relay[r] = Idle
  BY DEF Init
<1>2. DOMAIN Idle.held = {} /\ Idle.pc = "idle"
  BY IdleFacts, MapFacts
<1>3. \A c \in Pairs : cswp[c].sessions = <<>> /\ cswp[c].used = 0 /\ DOMAIN cswp[c].sessions = {}
  BY DEF Init, Pairs, NewConsumerSessionWithProvider
<1>4. Borrowed
  BY <1>1, <1>2 DEF Borrowed, Has, HoldsIn
<1>5. Kept
  BY <1>3 DEF Kept
<1>6. ASSUME NEW c \in Pairs
      PROVE  SumFunction(SessionUnits(cswp[c].sessions)) = 0 /\ SumFunction(ToDecrease(c)) = 0
  <2>1. SumFunction(SessionUnits(cswp[c].sessions)) = 0
    BY <1>0, <1>3, UnitsNat, SumEmpty
  <2>2. \A r \in Relays : DecreaseOf(relay[r], c) = 0
    BY <1>1, <1>2 DEF DecreaseOf
  <2>3. SumFunction(ToDecrease(c)) = 0
    BY <1>0, <2>2, ToDecreaseNat, SumZero
  <2> QED BY <2>1, <2>3
<1>7. UsedAccounted
  <2>1. DOMAIN cswp = Pairs
    BY <1>0 DEF Types, Pairs
  <2> QED BY <1>3, <1>6, <2>1, ConstantFacts DEF UsedAccounted
<1> QED BY <1>0, <1>4, <1>5, <1>7 DEF Inv

\* No list of the manager names a provider that was blocked, or one that is not
\* paired in this epoch: removeAddressFromValidAddresses, resetValidAddresses and
\* UpdateAllProviders leave no stale addonAddresses behind, however they interleave
\* with the probes, the relays and the reconnections.
THEOREM ListsStayFresh == Spec => []CachesFresh
<1>1. Inv => CachesFresh
  BY DEF Inv, Base, Types, Manager
<1> QED BY <1>1, InitInv, InvNext, PTL DEF Spec

\* A session of the current epoch is locked exactly while one relay has it, and no
\* relay has a blocklisted session: verifyLock never reports a misuse and
\* OnSessionFailure always unlocks.
THEOREM SessionsAreBorrowed == Spec => []SessionsBorrowed
<1>1. ASSUME Inv PROVE SessionsBorrowed
  <2> SUFFICES ASSUME NEW c \in Pairs, NEW s \in DOMAIN cswp[c].sessions
      PROVE  LET holders == {r \in Relays : Has(relay[r], c, s)}
             IN  /\ Cardinality(holders) <= 1
                 /\ holders # {} => cswp[c].sessions[s].locked /\ ~cswp[c].sessions[s].blocked
                 /\ c[1] = currentEpoch /\ cswp[c].sessions[s].locked => holders # {}
    BY <1>1, Zenon DEF SessionsBorrowed, Holds, Has, Inv, Base, Types, Pairs
  <2> DEFINE holders == {r \in Relays : Has(relay[r], c, s)}
  <2>0. s \in Nat /\ c[1] \in Int /\ currentEpoch \in Int
    BY <1>1, SessionFacts, ConstantFacts DEF Inv, Base, Types, Manager
  <2>1. Cardinality(holders) <= 1
    <3>1. \A r \in Relays, q \in Relays : Has(relay[r], c, s) /\ Has(relay[q], c, s) => q = r
      BY <1>1, <2>0 DEF Inv, Borrowed
    <3>2. CASE holders = {}
      BY <3>2, FS_EmptySet
    <3>3. CASE holders # {}
      <4>1. PICK r \in Relays : Has(relay[r], c, s)
        BY <3>3
      <4>2. holders = {r}
        BY <3>1, <4>1
      <4> QED BY <4>2, FS_Singleton
    <3> QED BY <3>2, <3>3
  <2>2. holders # {} => cswp[c].sessions[s].locked /\ ~cswp[c].sessions[s].blocked
    BY <1>1, <2>0 DEF Inv, Borrowed
  <2>3. c[1] = currentEpoch /\ cswp[c].sessions[s].locked => holders # {}
    BY <1>1, <2>0 DEF Inv, Kept
  <2> QED BY <2>1, <2>2, <2>3
<1> QED BY <1>1, InitInv, InvNext, PTL DEF Spec

\* What is counted against a provider is what its sessions were answered for and are
\* used for, with what failed relays have yet to give back: the decrease that
\* follows the unlock loses nothing, gives nothing back twice and is never refused,
\* and the sum stays within what the consumer may spend.
THEOREM UsedIsAccounted == Spec => []UsedAccounted
<1>1. Inv => UsedAccounted
  BY DEF Inv
<1> QED BY <1>1, InitInv, InvNext, PTL DEF Spec
=============================================================================
