------------------------- MODULE ReliabilityManager -------------------------
(***************************************************************************)
(* How a provider votes: the state tracker hands the vote events of every  *)
(* block to the vote updater, which looks up the reliability manager of    *)
(* the event's endpoint; the manager asks its node, remembers the answer   *)
(* in memory and sends a commitment, and the reveal when it is called for. *)
(* The other jurors send what they like.                                   *)
(*                                                                         *)
(* All conflicts are on the chain and interface the managers registered    *)
(* for.  An event of a block carries the endpoint only if it is built with *)
(* one: getLatestVoteEvents does so for detections.                        *)
(***************************************************************************)
EXTENDS Conflict, SequencesExt

CONSTANTS
    Managed,        \* jurors that run this software
    Prompt,         \* whether events and transactions arrive within their block
    MaxFaults       \* bound: lost events and transactions, restarts

ASSUME ManagedAssumption == Managed \subseteq Jury /\ Prompt \in BOOLEAN /\ MaxFaults \in Nat

VARIABLES
    events,     \* [Managed -> Seq(event)]: events of blocks not yet looked at
    memory,     \* [Managed -> function from indices to answers]: rm.votes
    sent,       \* transactions sent and not yet in a block
    faults

managerVars == <<events, memory, sent, faults>>
vars == <<conflictVars, managerVars>>

Endpoint == "endpoint"      \* ChainID and ApiInterface of the conflicts
NoEndpoint == ""

DetectionEvent(i) == [kind |-> "detection", index |-> i, endpoint |-> Endpoint]
RevealEvent(i)    == [kind |-> "reveal", index |-> i, endpoint |-> NoEndpoint]
ResolvedEvent(i)  == [kind |-> "close", index |-> i, endpoint |-> NoEndpoint]

Publish(S) == [p \in Managed |-> events[p] \o SetToSeq(S)]

\* The events of a block's beginning.  An unresolved vote has no event that
\* getLatestVoteEvents knows.
BlockEvents(block) ==
    {RevealEvent(i) : i \in Due(block, "commit")}
      \cup {ResolvedEvent(i) : i \in {j \in Due(block, "reveal") :
                Outcome(j, votes[j], block).winner # NoWinner}}

-----------------------------------------------------------------------------
Forget(m, i) == Restrict(m, DOMAIN m \ {i})
Remember(m, i, answer) == [j \in DOMAIN m \cup {i} |-> IF j = i THEN answer ELSE m[j]]
Send(kind, p, i, answer) == [kind |-> kind, provider |-> p, index |-> i, answer |-> answer]

\* A transaction is simulated before it is broadcast.
Accepted(m) ==
    IF m.kind = "commit" THEN CommitAccepted(m.index, m.provider)
    ELSE RevealAccepted(m.index, m.provider, m.answer)
Broadcast(m) == IF Accepted(m) THEN {m} ELSE {}

Execute(m) ==
    IF m.kind = "commit" THEN ConflictVoteCommit(m.index, m.provider, m.answer)
    ELSE ConflictVoteReveal(m.index, m.provider, m.answer)

\* VoteHandler: what the manager remembers and sends.  An event is handled with
\* the block it belongs to, which is never past the vote's deadline.
VoteHandler(p, e, answer) ==
    LET i == e.index
        known == i \in DOMAIN memory[p]
    IN  CASE known /\ e.kind = "close" -> [memory |-> Forget(memory[p], i), sent |-> {}]
          [] known /\ e.kind # "close" ->
                [memory |-> memory[p], sent |-> Broadcast(Send("reveal", p, i, memory[p][i]))]
          [] ~known /\ e.kind = "detection" ->
                [memory |-> Remember(memory[p], i, answer),
                 sent |-> Broadcast(Send("commit", p, i, answer))]
          [] OTHER -> [memory |-> memory[p], sent |-> {}]

\* VoteUpdater: an event of an endpoint nobody registered for is skipped.
HandleEvent(p) ==
    /\ events[p] # <<>>
    /\ events' = [events EXCEPT ![p] = Tail(@)]
    /\ LET e == Head(events[p]) IN
        IF e.endpoint # Endpoint THEN UNCHANGED <<memory, sent>>
        ELSE \E answer \in Answers :
            LET h == VoteHandler(p, e, answer)
            IN  /\ memory' = [memory EXCEPT ![p] = h.memory]
                /\ sent' = sent \cup h.sent
    /\ UNCHANGED <<conflictVars, faults>>

\* A transaction is executed, or fails because the vote has moved on.
Include(m) ==
    /\ m \in sent
    /\ sent' = sent \ {m}
    /\ IF Accepted(m) THEN Execute(m) ELSE UNCHANGED conflictVars
    /\ UNCHANGED <<events, memory, faults>>

-----------------------------------------------------------------------------
(* Faults: the block results could not be fetched or the node did not      *)
(* answer; a transaction was not broadcast (its error is not looked at);   *)
(* the process restarted, and starts from the latest block.                *)

Fault == faults < MaxFaults /\ faults' = faults + 1 /\ UNCHANGED conflictVars

MissEvent(p) ==
    /\ Fault /\ events[p] # <<>>
    /\ events' = [events EXCEPT ![p] = Tail(@)]
    /\ UNCHANGED <<memory, sent>>

LoseTransaction(m) ==
    /\ Fault /\ m \in sent
    /\ sent' = sent \ {m}
    /\ UNCHANGED <<events, memory>>

Restart(p) ==
    /\ Fault /\ DOMAIN memory[p] # {}
    /\ memory' = [memory EXCEPT ![p] = [i \in {} |-> {}]]
    /\ events' = [events EXCEPT ![p] = <<>>]
    /\ UNCHANGED sent

-----------------------------------------------------------------------------
Init ==
    /\ ConflictInit
    /\ events = [p \in Managed |-> <<>>]
    /\ memory = [p \in Managed |-> [i \in {} |-> {}]]
    /\ sent = {}
    /\ faults = 0

Report(k, epoch) ==
    /\ Detection(k, epoch)
    /\ events' = Publish({DetectionEvent(<<k, epoch>>)})
    /\ UNCHANGED <<memory, sent, faults>>

NextBlock ==
    /\ Prompt => sent = {} /\ \A p \in Managed : events[p] = <<>>
    /\ BeginBlock
    /\ events' = Publish(BlockEvents(height + 1))
    /\ UNCHANGED <<memory, sent, faults>>

OtherJuror(m) == Execute(m) /\ UNCHANGED managerVars

Next ==
    \/ NextBlock
    \/ \E k \in Conflicts, epoch \in 0..MaxHeight : Report(k, epoch)
    \/ \E kind \in {"commit", "reveal"}, i \in DOMAIN votes, p \in Jury \ Managed :
         \E answer \in Answers : OtherJuror(Send(kind, p, i, answer))
    \/ \E p \in Managed : HandleEvent(p) \/ MissEvent(p) \/ Restart(p)
    \/ \E m \in sent : Include(m) \/ LoseTransaction(m)

Spec == Init /\ [][Next]_vars

-----------------------------------------------------------------------------
\* Without a fault, a manager that committed is not punished for silence: it
\* reveals before the vote is over.
CommittersReveal ==
    faults = 0 => \A o \in outcomes : \A p \in o.silent \cap Managed :
        \A r \in Revealed : <<o.index, p, r>> \notin committed
=============================================================================
