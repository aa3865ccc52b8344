---------------------------- MODULE ConsumerSession ----------------------------
(***************************************************************************)
(* The consumer's session manager (protocol/lavasession): the providers it *)
(* is paired with in an epoch, the ones it may still choose, the compute   *)
(* units it spends on each, and the sessions its relays borrow.            *)
(*                                                                         *)
(* Several goroutines share it: the relays (GetSessions, then              *)
(* OnSessionDone or OnSessionFailure for every session they got), one      *)
(* probe for each provider of a new pairing, the ticker that reconnects    *)
(* reported providers and the updater that brings the next epoch's         *)
(* pairing.  A step is what a goroutine does while it holds one of the     *)
(* locks (csm.lock, the provider's Lock); a session's own lock is state,   *)
(* because a relay keeps it for as long as it uses the session.            *)
(*                                                                         *)
(* A provider has one endpoint.  What the optimizer prefers, QoS, latency, *)
(* metrics and relay numbers are left out.                                 *)
(***************************************************************************)
EXTENDS Integers, Sequences, FiniteSets, FiniteSetsExt, Functions

CONSTANTS
    Providers,          \* the addresses a pairing may contain
    Relays,             \* the relay goroutines
    Keys,               \* router keys: the addon and extensions of a request
    DefaultKey,         \* the key of a request without addon or extension
    Supports(_),        \* the providers that support a router key
    PairingOf(_),       \* the pairing list the chain gives for an epoch
    LastEpoch,          \* the last epoch
    MaxComputeUnits,    \* what the consumer may spend on a provider in an epoch
    VirtualEpoch,       \* the emergency mode's extra epochs
    RelayCu,            \* the compute units a relay may need
    MaxConsecutiveConnectionAttempts,
    MaxAllowedBlockListedSessionPerProvider,
    MaximumNumberOfFailuresAllowedPerConsumerSession,
    MaxSessionsAllowedPerProvider,
    SlowProbes,         \* the probes, <<epoch, provider>>, that may fail
    Settings            \* the bounds of a behaviour, of which each has one

ASSUME FiniteAssumption == IsFiniteSet(Providers) /\ IsFiniteSet(Relays)
ASSUME KeysAssumption == DefaultKey \in Keys /\ Supports(DefaultKey) = Providers
ASSUME PairingAssumption ==
    \A e \in 1 .. LastEpoch : PairingOf(e) \subseteq Providers /\ PairingOf(e) # {}
ASSUME RelayAssumption == RelayCu \subseteq Nat \ {0}
\* A setting bounds the epochs, the relays, the providers the optimizer picks for
\* a relay and the requests' keys, and says whether the reconnection ticker fires.
ASSUME SettingsAssumption ==
    Settings \subseteq [epochs : 1 .. LastEpoch, relays : Nat, picks : Nat \ {0},
                       keys : SUBSET Keys, ticker : BOOLEAN]
ASSUME NumbersAssumption ==
    /\ {MaxComputeUnits, VirtualEpoch, MaxSessionsAllowedPerProvider,
        MaximumNumberOfFailuresAllowedPerConsumerSession} \subseteq Nat
    /\ {LastEpoch, MaxConsecutiveConnectionAttempts, MaxAllowedBlockListedSessionPerProvider}
         \subseteq Nat \ {0}

VARIABLES
    currentEpoch,
    validAddresses,     \* the paired providers that are not blocked
    addonAddresses,     \* the cached list of a router key; {} when there is none
    numberOfResets,
    reported,           \* reportedProviders: the reported address's entry
    cswp,               \* ConsumerSessionsWithProvider, by epoch and address
    relay,              \* where each relay goroutine is, and what it holds
    probes,             \* the probes that are running
    reconnect,          \* the goroutine of ReconnectProviders
    setting,            \* the bounds of this behaviour
    started             \* how many relays were started

vars == <<currentEpoch, validAddresses, addonAddresses, numberOfResets, reported,
          cswp, relay, probes, reconnect, setting, started>>

manager == <<currentEpoch, validAddresses, addonAddresses, numberOfResets, reported>>

Epochs == 1 .. LastEpoch
NoCallback == 0
NoAddresses == [k \in Keys |-> {}]

\* csm.pairing
Pairing == PairingOf(currentEpoch)

--------------------------------------------------------------------------------
(* Sessions with a provider. *)

NewSession == [locked |-> TRUE, latest |-> 0, cuSum |-> 0, errors |-> 0, blocked |-> FALSE]

NewConsumerSessionWithProvider == [used |-> 0, refusals |-> 0, sessions |-> <<>>]

Enabled(c) == c.refusals < MaxConsecutiveConnectionAttempts

\* validateComputeUnits, and the check of addUsedComputeUnits.
AffordableSoFar(c, cu) == c.used < MaxComputeUnits * (VirtualEpoch + 1) + cu
Affordable(c, cu) == c.used + cu <= MaxComputeUnits * (VirtualEpoch + 1)

Unlocked(c) == {i \in DOMAIN c.sessions : ~c.sessions[i].locked}
Free(c) == {i \in DOMAIN c.sessions : ~c.sessions[i].locked /\ ~c.sessions[i].blocked}
BlockListed(c) == {i \in DOMAIN c.sessions : ~c.sessions[i].locked /\ c.sessions[i].blocked}

SessionAt(e, p, s) == cswp[e, p].sessions[s]

WithSession(c, s, new) == [c EXCEPT !.sessions[s] = new]

\* fetchEndpointConnectionFromConsumerSessionWithProvider: an endpoint that is
\* disabled is not tried, and none is ever enabled again; one in a transient
\* failure is left alone; a refused connection counts, and the last one allowed
\* disables the endpoint.
FetchOutcomes(c) ==
    IF ~Enabled(c) THEN {[connected |-> FALSE, refusals |-> c.refusals]}
    ELSE {[connected |-> TRUE, refusals |-> 0],
          [connected |-> TRUE, refusals |-> c.refusals],
          [connected |-> FALSE, refusals |-> c.refusals],
          [connected |-> FALSE, refusals |-> c.refusals + 1]}

\* AllProviderEndpointsDisabledError
AllDisabled(f) == ~f.connected /\ f.refusals >= MaxConsecutiveConnectionAttempts

--------------------------------------------------------------------------------
(* Reports. *)

\* ReportProvider: an entry with errors is not a candidate for a reconnection;
\* a nil callback leaves the one of an earlier report.
ReportProvider(rep, p, errored, callback) ==
    LET old == IF p \in DOMAIN rep THEN rep[p] ELSE [errored |-> FALSE, callback |-> NoCallback]
        new == [errored |-> old.errored \/ errored,
                callback |-> IF callback = NoCallback THEN old.callback ELSE callback]
    IN  [q \in DOMAIN rep \cup {p} |-> IF q = p THEN new ELSE rep[q]]

RemoveReport(rep, p) == Restrict(rep, DOMAIN rep \ {p})

\* removeAddressFromValidAddresses: the cached lists are computed again from the
\* addresses that remain.
RemoveKeepingCaches(p) ==
    /\ validAddresses' = validAddresses \ {p}
    /\ UNCHANGED addonAddresses
RemoveAddressFromValidAddresses(p) ==
    /\ validAddresses' = validAddresses \ {p}
    /\ addonAddresses' = IF p \in validAddresses THEN NoAddresses ELSE addonAddresses

\* blockProvider: without effect when the epoch has changed since the caller
\* chose the provider.
BlockProvider(p, report, sessionEpoch, errored, callback) ==
    /\ IF sessionEpoch = currentEpoch
       THEN /\ RemoveAddressFromValidAddresses(p)
            /\ reported' = IF report THEN ReportProvider(reported, p, errored, callback)
                                     ELSE reported
       ELSE UNCHANGED <<validAddresses, addonAddresses, reported>>
    /\ UNCHANGED <<currentEpoch, numberOfResets>>

--------------------------------------------------------------------------------
(* A new epoch. *)

\* The probes of probeProviders, but for those that connect at once, which
\* changes nothing.
ProbesOf(e) ==
    {[epoch |-> e, provider |-> p, blocking |-> FALSE] :
        p \in {q \in PairingOf(e) : <<e, q>> \in SlowProbes}}

UpdateAllProviders ==
    LET e == currentEpoch + 1
    IN  /\ e <= setting.epochs
        /\ currentEpoch' = e
        /\ reported' = <<>>
        /\ numberOfResets' = 0
        /\ addonAddresses' = NoAddresses
        /\ validAddresses' = PairingOf(e)
        /\ probes' = probes \cup ProbesOf(e)
        /\ UNCHANGED <<cswp, relay, reconnect, setting, started>>

\* probeProvider: only a provider whose endpoints are all disabled is blocked,
\* after its Lock is released.
Probe(b) ==
    LET e == b.epoch
        p == b.provider
    IN  /\ ~b.blocking
        /\ \E f \in FetchOutcomes(cswp[e, p]) :
             /\ cswp' = [cswp EXCEPT ![<<e, p>>].refusals = f.refusals]
             /\ probes' = (probes \ {b}) \cup
                  IF AllDisabled(f) THEN {[b EXCEPT !.blocking = TRUE]} ELSE {}
        /\ UNCHANGED <<manager, relay, reconnect, setting, started>>

ProbeBlocks(b) ==
    /\ b.blocking
    /\ BlockProvider(b.provider, TRUE, b.epoch, FALSE, b.epoch)
    /\ probes' = probes \ {b}
    /\ UNCHANGED <<cswp, relay, reconnect, setting, started>>

--------------------------------------------------------------------------------
(* GetSessions. *)

CalculateAddonValidAddresses(k) == validAddresses \cap Supports(k)

\* getValidAddresses: an empty list is nil, which is computed again.
GetValidAddresses(k) ==
    IF addonAddresses[k] = {} THEN CalculateAddonValidAddresses(k) ELSE addonAddresses[k]

Idle == [pc |-> "idle", key |-> DefaultKey, cu |-> 0, resets |-> 0, ignored |-> {},
         ignoredEpoch |-> 0, todo |-> {}, wanted |-> 0, held |-> <<>>,
         epoch |-> 0, provider |-> 0, session |-> 0]

\* validatePairingListNotEmpty up to the check: the list of the key is cached.
Validate(r) ==
    /\ relay[r].pc = "idle"
    /\ started < setting.relays
    /\ \E k \in setting.keys, cu \in RelayCu :
         LET addresses == GetValidAddresses(k)
         IN  /\ addonAddresses' = [addonAddresses EXCEPT ![k] = addresses]
             /\ relay' = [relay EXCEPT ![r] =
                  [Idle EXCEPT !.pc = IF addresses = {} THEN "reset" ELSE "choose",
                               !.key = k, !.cu = cu, !.resets = numberOfResets,
                               !.ignoredEpoch = currentEpoch]]
    /\ started' = started + 1
    /\ UNCHANGED <<currentEpoch, validAddresses, numberOfResets, reported, cswp,
                   probes, reconnect, setting>>

\* setValidAddressesToDefaultValue: every paired provider is valid again, or the
\* ones that support the addon.
SetValidAddressesToDefaultValue(k) ==
    /\ validAddresses' = validAddresses \cup (Pairing \cap Supports(k))
    /\ addonAddresses' = IF k = DefaultKey THEN addonAddresses
                         ELSE [addonAddresses EXCEPT ![k] = Pairing \cap Supports(k)]

\* resetValidAddresses: another relay may have reset them while this one waited.
ResetValidAddresses(r) ==
    LET k == relay[r].key
    IN  /\ relay[r].pc = "reset"
        /\ IF GetValidAddresses(k) = {}
           THEN /\ SetValidAddressesToDefaultValue(k)
                /\ numberOfResets' = numberOfResets + 1
           ELSE UNCHANGED <<validAddresses, addonAddresses, numberOfResets>>
        /\ relay' = [relay EXCEPT ![r].pc = "choose", ![r].resets = numberOfResets',
                                  ![r].ignoredEpoch = currentEpoch]
        /\ UNCHANGED <<currentEpoch, reported, cswp, probes, reconnect, setting, started>>

\* The providers a relay has given up in this epoch; a new epoch clears them.
NoneIgnored(r) == {}
Ignored(r) == IF relay[r].ignoredEpoch < currentEpoch THEN {} ELSE relay[r].ignored

Candidates(r) == GetValidAddresses(relay[r].key) \ Ignored(r)

Paying(r) == {p \in Candidates(r) : Affordable(cswp[currentEpoch, p], relay[r].cu)}

\* getValidConsumerSessionsWithProvider: the optimizer picks some candidates, one
\* or several; those that cannot be paid for are replaced by further candidates
\* while there are any.  All that were tried are ignored from now on.
Choose(r) ==
    /\ relay[r].pc = "choose"
    /\ \E chosen \in SUBSET Paying(r) \ {{}}, unpaid \in SUBSET (Candidates(r) \ Paying(r)) :
         /\ Cardinality(chosen) <= setting.picks
         /\ relay' = [relay EXCEPT ![r] =
              [@ EXCEPT !.pc = "fetch",
                        !.ignored = Ignored(r) \cup chosen \cup unpaid,
                        !.ignoredEpoch = currentEpoch,
                        !.wanted = IF relay[r].wanted = 0 THEN Cardinality(chosen)
                                    ELSE relay[r].wanted,
                        !.todo = {<<currentEpoch, p>> : p \in chosen}]]
    /\ UNCHANGED <<manager, cswp, probes, reconnect, setting, started>>

\* PairingListEmptyError: the relay goes on with the sessions it has, or fails.
NoneLeft(r) ==
    /\ relay[r].pc = "choose"
    /\ Paying(r) = {}
    /\ relay' = [relay EXCEPT ![r] = IF @.held = <<>> THEN Idle ELSE [@ EXCEPT !.pc = "using"]]
    /\ UNCHANGED <<manager, cswp, probes, reconnect, setting, started>>

\* The relay is done with one chosen provider: the next one, or more candidates.
Continue(rec, ignored) ==
    [rec EXCEPT !.pc = IF rec.todo = {} THEN "choose" ELSE "fetch",
                !.ignored = @ \cup ignored]

Fetch(r) ==
    /\ relay[r].pc = "fetch"
    /\ \E c \in relay[r].todo : \E f \in FetchOutcomes(cswp[c]) :
         LET rec == [relay[r] EXCEPT !.todo = @ \ {c}, !.epoch = c[1], !.provider = c[2]]
         IN  /\ cswp' = [cswp EXCEPT ![c].refusals = f.refusals]
             /\ relay' = [relay EXCEPT ![r] =
                  IF f.connected THEN [rec EXCEPT !.pc = "session"]
                  ELSE IF AllDisabled(f) THEN [rec EXCEPT !.pc = "disabled"]
                  ELSE Continue(rec, {c[2]})]
    /\ UNCHANGED <<manager, probes, reconnect, setting, started>>

FetchBlocks(r) ==
    /\ relay[r].pc = "disabled"
    /\ BlockProvider(relay[r].provider, TRUE, relay[r].epoch, FALSE, relay[r].epoch)
    /\ relay' = [relay EXCEPT ![r] = Continue(@, {})]
    /\ UNCHANGED <<cswp, probes, reconnect, setting, started>>

\* GetConsumerSessionInstanceFromEndpoint.  The sessions are visited in any
\* order, and the search gives up when it has met as many blocklisted ones as
\* are allowed and there is one more to visit.
GetConsumerSessionInstance(r) ==
    LET e == relay[r].epoch
        p == relay[r].provider
        c == cswp[e, p]
        allowed == MaxAllowedBlockListedSessionPerProvider * (relay[r].resets + 1)
        Borrow(s) == relay' = [relay EXCEPT ![r].pc = "add", ![r].session = s]
    IN  /\ relay[r].pc = "session"
        /\ \/ \E s \in Free(c) :
                /\ cswp' = [cswp EXCEPT ![<<e, p>>] = WithSession(c, s, [c.sessions[s] EXCEPT !.locked = TRUE])]
                /\ Borrow(s)
           \/ /\ Cardinality(BlockListed(c)) >= allowed
              /\ Len(c.sessions) > allowed
              /\ relay' = [relay EXCEPT ![r].pc = "unusable"]
              /\ UNCHANGED cswp
           \/ /\ Free(c) = {} /\ Cardinality(BlockListed(c)) <= allowed
              /\ IF Len(c.sessions) > MaxSessionsAllowedPerProvider
                 THEN /\ relay' = [relay EXCEPT ![r] = Continue(@, {p})]
                      /\ UNCHANGED cswp
                 ELSE /\ cswp' = [cswp EXCEPT ![<<e, p>>].sessions = Append(@, NewSession)]
                      /\ Borrow(Len(c.sessions) + 1)
        /\ UNCHANGED <<manager, probes, reconnect, setting, started>>

\* Too many blocklisted sessions: the provider is blocked and not reported.
SessionsBlock(r) ==
    /\ relay[r].pc = "unusable"
    /\ BlockProvider(relay[r].provider, FALSE, relay[r].epoch, FALSE, NoCallback)
    /\ relay' = [relay EXCEPT ![r] = Continue(@, {})]
    /\ UNCHANGED <<cswp, probes, reconnect, setting, started>>

\* addUsedComputeUnits, and the relay's entry in the sessions map, whose key is
\* the address.
AddUsedComputeUnits(r) ==
    LET rec == relay[r]
        e == rec.epoch
        p == rec.provider
        c == cswp[e, p]
        s == rec.session
        hold == [epoch |-> e, session |-> s, stage |-> "held", cu |-> 0, report |-> FALSE]
        held == [q \in DOMAIN rec.held \cup {p} |-> IF q = p THEN hold ELSE rec.held[q]]
        got == [Continue(rec, {p}) EXCEPT !.held = held]
    IN  /\ rec.pc = "add"
        /\ IF Affordable(c, rec.cu)
           THEN /\ cswp' = [cswp EXCEPT ![<<e, p>>] =
                     [WithSession(c, s, [c.sessions[s] EXCEPT !.latest = rec.cu])
                        EXCEPT !.used = c.used + rec.cu]]
                /\ relay' = [relay EXCEPT ![r] =
                     IF Cardinality(DOMAIN held) = rec.wanted
                     THEN [got EXCEPT !.pc = "using", !.todo = {}] ELSE got]
           ELSE /\ cswp' = [cswp EXCEPT ![<<e, p>>] =
                     WithSession(c, s, [c.sessions[s] EXCEPT !.locked = FALSE])]
                /\ relay' = [relay EXCEPT ![r] = Continue(rec, {p})]
        /\ UNCHANGED <<manager, probes, reconnect, setting, started>>

--------------------------------------------------------------------------------
(* The end of a relay. *)

\* The relay has handed back its session with p.
HandedBack(r, p) ==
    LET rest == Restrict(relay[r].held, DOMAIN relay[r].held \ {p})
    IN  relay' = [relay EXCEPT ![r] = IF DOMAIN rest = {} THEN Idle ELSE [@ EXCEPT !.held = rest]]

OnSessionDone(r, p) ==
    LET h == relay[r].held[p]
        s == SessionAt(h.epoch, p, h.session)
    IN  /\ relay[r].pc = "using" /\ h.stage = "held"
        /\ cswp' = [cswp EXCEPT ![<<h.epoch, p>>] = WithSession(@, h.session,
             [s EXCEPT !.cuSum = s.cuSum + s.latest, !.latest = 0, !.errors = 0, !.locked = FALSE])]
        /\ HandedBack(r, p)
        /\ UNCHANGED <<manager, probes, reconnect, setting, started>>

\* OnSessionFailure until it unlocks the session.  A session that failed too
\* often, or is out of sync with the provider, is blocklisted; its provider is
\* blocked and reported when nothing else was spent on it.
OnSessionFailure(r, p, syncLoss) ==
    LET h == relay[r].held[p]
        c == cswp[h.epoch, p]
        s == c.sessions[h.session]
        blocklist == s.errors + 1 > MaximumNumberOfFailuresAllowedPerConsumerSession \/ syncLoss
    IN  /\ relay[r].pc = "using" /\ h.stage = "held"
        /\ cswp' = [cswp EXCEPT ![<<h.epoch, p>>] = WithSession(@, h.session,
             [s EXCEPT !.errors = s.errors + 1, !.blocked = blocklist, !.latest = 0, !.locked = FALSE])]
        /\ relay' = [relay EXCEPT ![r].held[p] =
             [@ EXCEPT !.stage = "decrease", !.cu = s.latest,
                       !.report = blocklist /\ c.used <= s.latest]]
        /\ UNCHANGED <<manager, probes, reconnect, setting, started>>

\* A decrease below zero is an error, and ends the handling.
DecreaseUsedComputeUnits(r, p) ==
    LET h == relay[r].held[p]
        negative == cswp[h.epoch, p].used < h.cu
    IN  /\ h.stage = "decrease"
        /\ cswp' = IF negative THEN cswp ELSE [cswp EXCEPT ![<<h.epoch, p>>].used = @ - h.cu]
        /\ IF h.report /\ ~negative
           THEN relay' = [relay EXCEPT ![r].held[p] = [@ EXCEPT !.stage = "block", !.cu = 0]]
           ELSE HandedBack(r, p)
        /\ UNCHANGED <<manager, probes, reconnect, setting, started>>

FailureBlocks(r, p) ==
    LET h == relay[r].held[p]
    IN  /\ h.stage = "block"
        /\ BlockProvider(p, TRUE, h.epoch, TRUE, NoCallback)
        /\ HandedBack(r, p)
        /\ UNCHANGED <<cswp, probes, reconnect, setting, started>>

--------------------------------------------------------------------------------
(* ReconnectProviders, every ReconnectCandidateTime. *)

Resting == [pc |-> "rest", todo |-> {}, provider |-> 0, callback |-> 0, epoch |-> 0]

ReconnectCandidates ==
    {<<p, reported[p].callback>> : p \in {q \in DOMAIN reported :
        ~reported[q].errored /\ reported[q].callback # NoCallback}}

ReconnectProviders ==
    /\ setting.ticker
    /\ reconnect.pc = "rest" /\ ReconnectCandidates # {}
    /\ reconnect' = [Resting EXCEPT !.pc = "next", !.todo = ReconnectCandidates]
    /\ UNCHANGED <<manager, cswp, relay, probes, setting, started>>

\* The callback probes the provider as the entry knew it, in what is the epoch
\* when it runs.
ReconnectProbe ==
    /\ reconnect.pc = "next"
    /\ \E c \in reconnect.todo : \E f \in FetchOutcomes(cswp[c[2], c[1]]), answered \in BOOLEAN :
         /\ cswp' = [cswp EXCEPT ![<<c[2], c[1]>>].refusals = f.refusals]
         /\ reconnect' = [pc |-> IF AllDisabled(f) THEN "disabled"
                                 ELSE IF f.connected /\ ~answered THEN "failed" ELSE "ok",
                          todo |-> reconnect.todo \ {c}, provider |-> c[1],
                          callback |-> c[2], epoch |-> currentEpoch]
    /\ UNCHANGED <<manager, relay, probes, setting, started>>

ReconnectBlocks ==
    /\ reconnect.pc = "disabled"
    /\ BlockProvider(reconnect.provider, TRUE, reconnect.epoch, FALSE, reconnect.callback)
    /\ reconnect' = [reconnect EXCEPT !.pc = "failed", !.callback = NoCallback, !.epoch = 0]
    /\ UNCHANGED <<cswp, relay, probes, setting, started>>

\* A provider that answered is no longer reported; one that did not is reported
\* for one more disconnection.
ReconnectEnds ==
    /\ reconnect.pc \in {"ok", "failed"}
    /\ reported' = IF reconnect.pc = "ok" THEN RemoveReport(reported, reconnect.provider)
                   ELSE ReportProvider(reported, reconnect.provider, FALSE, NoCallback)
    /\ reconnect' = IF reconnect.todo = {} THEN Resting
                    ELSE [Resting EXCEPT !.pc = "next", !.todo = reconnect.todo]
    /\ UNCHANGED <<currentEpoch, validAddresses, addonAddresses, numberOfResets, cswp,
                   relay, probes, setting, started>>

--------------------------------------------------------------------------------
\* The manager is registered for pairing updates before it serves requests: it
\* has the pairing of the first epoch.
Init ==
    /\ currentEpoch = 1
    /\ validAddresses = PairingOf(1)
    /\ addonAddresses = NoAddresses
    /\ numberOfResets = 0
    /\ reported = <<>>
    /\ cswp = [c \in Epochs \X Providers |-> NewConsumerSessionWithProvider]
    /\ relay = [r \in Relays |-> Idle]
    /\ probes = ProbesOf(1)
    /\ reconnect = Resting
    /\ setting \in Settings
    /\ started = 0

\* The steps of GetSessions after it has begun.
Search(r) ==
    \/ ResetValidAddresses(r)
    \/ Choose(r)
    \/ NoneLeft(r)
    \/ Fetch(r)
    \/ FetchBlocks(r)
    \/ GetConsumerSessionInstance(r)
    \/ SessionsBlock(r)
    \/ AddUsedComputeUnits(r)

\* The relay's answer arrives, or its timeout does.
Finish(r) ==
    \E p \in DOMAIN relay[r].held :
        \/ OnSessionDone(r, p)
        \/ \E syncLoss \in BOOLEAN : OnSessionFailure(r, p, syncLoss)
        \/ DecreaseUsedComputeUnits(r, p)
        \/ FailureBlocks(r, p)

Reconnect == ReconnectProviders \/ ReconnectProbe \/ ReconnectBlocks \/ ReconnectEnds

Next ==
    \/ UpdateAllProviders
    \/ \E b \in probes : Probe(b) \/ ProbeBlocks(b)
    \/ \E r \in Relays : Validate(r) \/ Search(r) \/ Finish(r)
    \/ Reconnect

\* A relay's goroutine that can run is scheduled.
Fairness == \A r \in Relays : WF_vars(Search(r))

Spec == Init /\ [][Next]_vars
FairSpec == Spec /\ Fairness

--------------------------------------------------------------------------------
(* Properties. *)

\* The sessions a relay has, or is about to put in its map.
HoldsIn(g, e, p, s) ==
    \/ p \in DOMAIN g.held /\ g.held[p].epoch = e /\ g.held[p].session = s /\ g.held[p].stage = "held"
    \/ g.pc = "add" /\ <<g.epoch, g.provider, g.session>> = <<e, p, s>>
Holds(r, e, p, s) == HoldsIn(relay[r], e, p, s)

\* A session is locked in the current epoch exactly while one relay has it, and a
\* session a relay has is not blocklisted: otherwise OnSessionFailure returns an
\* error without unlocking it and verifyLock reports a misuse.
SessionsBorrowed ==
    \A c \in DOMAIN cswp : \A s \in DOMAIN cswp[c].sessions :
        LET holders == {r \in Relays : Holds(r, c[1], c[2], s)}
        IN  /\ Cardinality(holders) <= 1
            /\ holders # {} => /\ cswp[c].sessions[s].locked
                               /\ ~cswp[c].sessions[s].blocked
            /\ c[1] = currentEpoch /\ cswp[c].sessions[s].locked => holders # {}

\* What the sessions with a provider were answered for or are used for, and what
\* the relays that failed have yet to give back to it.
SessionUnits(sessions) == [s \in DOMAIN sessions |-> sessions[s].cuSum + sessions[s].latest]
DecreaseOf(g, c) ==
    IF c[2] \in DOMAIN g.held /\ g.held[c[2]].epoch = c[1] /\ g.held[c[2]].stage = "decrease"
    THEN g.held[c[2]].cu ELSE 0
ToDecrease(c) == [r \in Relays |-> DecreaseOf(relay[r], c)]

\* The compute units counted against a provider are those of the relays it
\* answered, of the relays it is serving and of the failed relays whose units are
\* still to be given back, and never more than the consumer may spend: the
\* decrease comes after the session is unlocked, when others may be using it.
UsedAccounted ==
    \A c \in DOMAIN cswp :
        /\ cswp[c].used = SumFunction(SessionUnits(cswp[c].sessions)) + SumFunction(ToDecrease(c))
        /\ cswp[c].used <= MaxComputeUnits * (VirtualEpoch + 1)

\* A provider that is not valid is in no cached list, so that a blocked provider
\* is not offered again before a reset or the next epoch; and no list names a
\* provider outside the pairing, which would be fatal.
CachesFresh ==
    /\ validAddresses \subseteq Pairing
    /\ \A k \in Keys : addonAddresses[k] \subseteq validAddresses \cap Supports(k)

\* A search for sessions ends: every provider is tried once in an epoch.
GetSessionsReturns ==
    \A r \in Relays : relay[r].pc \notin {"idle", "using"} ~> relay[r].pc \in {"idle", "using"}
================================================================================
