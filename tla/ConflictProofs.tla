--------------------------- MODULE ConflictProofs ---------------------------
(***************************************************************************)
(* The votes of x/conflict, whatever the providers' software does: a       *)
(* conflict is judged once, by a jury that is counted in full, and the     *)
(* verdict is the commitment of a majority.                                *)
(***************************************************************************)
EXTENDS ReliabilityManager, SumTheorems

-----------------------------------------------------------------------------
(* Blocks and epochs. *)

\* The blocks of a voting period.
Period == VotePeriod * EpochBlocks

\* What the assumptions say of the periods, spans and bounds.
LEMMA PeriodFacts ==
    /\ EpochBlocks \in Nat \ {0} /\ Period \in Nat /\ Period >= EpochBlocks
    /\ VoteStartSpan * EpochBlocks \in Nat /\ EpochsToSave * EpochBlocks \in Nat
    /\ VoteStartSpan * EpochBlocks <= 2 * Period + EpochBlocks
    /\ VoteStartSpan * EpochBlocks + 2 * Period <= EpochsToSave * EpochBlocks
    /\ IsEpochStart(Period) /\ IsEpochStart(VoteStartSpan * EpochBlocks)
<1>0. /\ EpochBlocks \in Nat \ {0} /\ VotePeriod \in Nat /\ VotePeriod >= 1
      /\ VoteStartSpan \in Nat /\ EpochsToSave \in Nat
  BY EpochAssumption, PeriodAssumption
<1>1. \A a, b \in Nat : a <= b => a * EpochBlocks <= b * EpochBlocks /\ a * EpochBlocks \in Nat
  BY <1>0
<1>2. Period \in Nat /\ Period >= 1 * EpochBlocks
  BY <1>0, <1>1 DEF Period
<1>3. VoteStartSpan * EpochBlocks <= (2 * VotePeriod + 1) * EpochBlocks
  BY <1>0, <1>1, SpanAssumption
<1>4. (VoteStartSpan + 2 * VotePeriod) * EpochBlocks <= EpochsToSave * EpochBlocks
  BY <1>0, <1>1, MemoryAssumption
<1>5. /\ (2 * VotePeriod + 1) * EpochBlocks = 2 * Period + EpochBlocks
      /\ (VoteStartSpan + 2 * VotePeriod) * EpochBlocks = VoteStartSpan * EpochBlocks + 2 * Period
  BY <1>0 DEF Period
<1>6. \A a \in Nat : (a * EpochBlocks) % EpochBlocks = 0
  BY <1>0
<1> QED BY <1>0, <1>1, <1>2, <1>3, <1>4, <1>5, <1>6 DEF IsEpochStart, Period

\* A block lies in the epoch that begins last before it.
LEMMA StartOfEpoch ==
    ASSUME NEW b \in Nat
    PROVE  /\ EpochStart(b) \in Nat /\ EpochStart(b) <= b /\ b < EpochStart(b) + EpochBlocks
           /\ IsEpochStart(EpochStart(b))
<1>0. EpochBlocks \in Nat \ {0}
  BY EpochAssumption
<1> DEFINE q == b \div EpochBlocks
<1>1. b = q * EpochBlocks + (b % EpochBlocks) /\ q \in Nat /\ b % EpochBlocks \in 0..(EpochBlocks - 1)
  BY <1>0
<1>2. (q * EpochBlocks) % EpochBlocks = 0 /\ q * EpochBlocks \in Nat
  BY <1>0, <1>1
<1> HIDE DEF q
<1> QED BY <1>0, <1>1, <1>2 DEF EpochStart, IsEpochStart

\* Epoch starts are an epoch apart.
LEMMA StartsApart ==
    ASSUME NEW a \in Nat, NEW b \in Nat, IsEpochStart(a), IsEpochStart(b)
    PROVE  /\ a < b => a + EpochBlocks <= b
           /\ IsEpochStart(a + b) /\ IsEpochStart(a + EpochBlocks)
<1>0. EpochBlocks \in Nat \ {0}
  BY EpochAssumption
<1> DEFINE m == a \div EpochBlocks
           n == b \div EpochBlocks
<1>1. m \in Nat /\ a = m * EpochBlocks
  BY <1>0 DEF IsEpochStart
<1>2. n \in Nat /\ b = n * EpochBlocks
  BY <1>0 DEF IsEpochStart
<1> HIDE DEF m, n
<1>3. a < b => a + EpochBlocks <= b
  <2> SUFFICES ASSUME a < b PROVE a + EpochBlocks <= b
    OBVIOUS
  <2>1. m < n
    BY <1>0, <1>1, <1>2
  <2>2. (m + 1) * EpochBlocks <= n * EpochBlocks
    BY <1>0, <1>1, <1>2, <2>1
  <2> QED BY <1>0, <1>1, <1>2, <2>2
<1>4. a + b = (m + n) * EpochBlocks /\ a + EpochBlocks = (m + 1) * EpochBlocks
  BY <1>0, <1>1, <1>2
<1>5. \A k \in Nat : (k * EpochBlocks) % EpochBlocks = 0
  BY <1>0
<1>6. m + n \in Nat /\ m + 1 \in Nat
  BY <1>1, <1>2
<1> QED BY <1>3, <1>4, <1>5, <1>6 DEF IsEpochStart

-----------------------------------------------------------------------------
(* What the provider's software may do to the chain. *)

ConflictNext ==
    \/ BeginBlock
    \/ \E k \in Conflicts, epoch \in 0..MaxHeight : Detection(k, epoch)
    \/ \E i \in DOMAIN votes, p \in Jury : \E answer :
         ConflictVoteCommit(i, p, answer) \/ ConflictVoteReveal(i, p, answer)

\* Every step of the managers, of the other jurors and of the network is a message
\* of x/conflict, its BeginBlock, or leaves the chain alone.
LEMMA OnChain == [Next]_vars => [ConflictNext]_conflictVars
<1> SUFFICES ASSUME [Next]_vars PROVE ConflictNext \/ UNCHANGED conflictVars
  OBVIOUS
<1>1. ASSUME NEW m, Execute(m) PROVE ConflictNext
  <2>1. CASE m.kind = "commit"
    <3>1. ConflictVoteCommit(m.index, m.provider, m.answer)
      BY <1>1, <2>1 DEF Execute
    <3>2. m.index \in DOMAIN votes /\ m.provider \in Jury
      BY <3>1 DEF ConflictVoteCommit, CommitAccepted, IsOpen
    <3> QED BY <3>1, <3>2 DEF ConflictNext
  <2>2. CASE m.kind # "commit"
    <3>1. ConflictVoteReveal(m.index, m.provider, m.answer)
      BY <1>1, <2>2 DEF Execute
    <3>2. m.index \in DOMAIN votes /\ m.provider \in Jury
      BY <3>1 DEF ConflictVoteReveal, RevealAccepted, IsOpen
    <3> QED BY <3>1, <3>2 DEF ConflictNext
  <2> QED BY <2>1, <2>2
<1>2. CASE NextBlock
  BY <1>2 DEF NextBlock, ConflictNext
<1>3. CASE \E k \in Conflicts, epoch \in 0..MaxHeight : Report(k, epoch)
  BY <1>3 DEF Report, ConflictNext
<1>4. CASE \E kind \in {"commit", "reveal"}, i \in DOMAIN votes, p \in Jury \ Managed :
             \E answer \in Answers : OtherJuror(Send(kind, p, i, answer))
  BY <1>1, <1>4 DEF OtherJuror
<1>5. CASE \E p \in Managed : HandleEvent(p) \/ MissEvent(p) \/ Restart(p)
  BY <1>5 DEF HandleEvent, MissEvent, Restart, Fault
<1>6. CASE \E m \in sent : Include(m) \/ LoseTransaction(m)
  BY <1>1, <1>6 DEF Include, LoseTransaction, Fault
<1>7. CASE UNCHANGED vars
  BY <1>7 DEF vars
<1> QED BY <1>2, <1>3, <1>4, <1>5, <1>6, <1>7 DEF Next
-----------------------------------------------------------------------------
(* The calendar of a vote. *)

\* The vote v of a conflict of an epoch, at height h.  A deadline is an epoch start
\* to come; it is late enough for the two periods after the epoch and early enough
\* for the memory of the epoch's stake entries.
Calendar(v, epoch, h) ==
    /\ v.start = epoch /\ v.deadline \in Nat /\ IsEpochStart(v.deadline) /\ v.deadline > h
    /\ \/ /\ v.state = "commit"
          /\ v.deadline >= epoch + Period + EpochBlocks
          /\ v.deadline + Period <= epoch + EpochsToSave * EpochBlocks
       \/ /\ v.state = "reveal"
          /\ v.deadline >= epoch + 2 * Period + EpochBlocks
          /\ v.deadline <= epoch + EpochsToSave * EpochBlocks

\* The index of an open vote, and of one that is over.
Times ==
    /\ height \in 0..MaxHeight
    /\ DOMAIN votes \subseteq Indices
    /\ opened \in [Indices -> 0..1]
    /\ \A i \in DOMAIN votes : opened[i] = 1 /\ Calendar(votes[i], i[2], height)
    /\ \A i \in Indices : opened[i] = 1 /\ i \notin DOMAIN votes =>
                            height >= i[2] + 2 * Period + EpochBlocks

\* The deadlines of a vote that is opened by a report.
LEMMA NewVoteCalendar ==
    ASSUME NEW epoch \in Nat, NEW h \in Nat, epoch <= h, IsEpochStart(epoch), WithinSpan(epoch, h)
    PROVE  Calendar(NewVote(epoch, h), epoch, h)
<1> DEFINE d == GetNextEpoch(h + Period)
           s == EpochStart(h)
           t == EpochStart(h + Period)
           w == VoteStartSpan * EpochBlocks
           z == EpochsToSave * EpochBlocks
<1>0. /\ EpochBlocks \in Nat \ {0} /\ Period \in Nat /\ w \in Nat /\ z \in Nat
      /\ w + 2 * Period <= z /\ IsEpochStart(Period) /\ IsEpochStart(w)
  BY PeriodFacts
<1>1. /\ t \in Nat /\ t <= h + Period /\ h + Period < t + EpochBlocks /\ IsEpochStart(t)
  BY <1>0, StartOfEpoch
<1>2. d = t + EpochBlocks
  BY DEF GetNextEpoch
<1>3. h < epoch + w
  BY <1>0 DEF WithinSpan
<1> HIDE DEF w, z, t, d
<1>4. /\ d \in Nat /\ IsEpochStart(d)
      /\ epoch + Period \in Nat /\ IsEpochStart(epoch + Period)
      /\ epoch + Period + w \in Nat /\ IsEpochStart(epoch + Period + w)
  <2>1. d \in Nat /\ epoch + Period \in Nat /\ epoch + Period + w \in Nat
    BY <1>0, <1>1, <1>2
  <2>2. IsEpochStart(epoch + Period) /\ IsEpochStart(t + EpochBlocks)
    BY <1>0, <1>1, StartsApart
  <2>3. IsEpochStart((epoch + Period) + w)
    BY <1>0, <2>1, <2>2, StartsApart
  <2> QED BY <1>2, <2>1, <2>2, <2>3
<1>5. epoch + Period + EpochBlocks <= d
  <2>1. epoch + Period < d
    BY <1>0, <1>1, <1>2
  <2> QED BY <1>0, <1>4, <2>1, StartsApart
<1>6. d <= epoch + Period + w
  <2>1. t < epoch + Period + w
    BY <1>0, <1>1, <1>3, <1>4
  <2> QED BY <1>0, <1>1, <1>2, <1>4, <2>1, StartsApart
<1>7. d + Period <= epoch + z /\ d > h
  BY <1>0, <1>1, <1>2, <1>6
<1>8. NewVote(epoch, h).state = "commit" /\ NewVote(epoch, h).start = epoch /\ NewVote(epoch, h).deadline = d
  BY DEF NewVote, Period, d
<1> QED BY <1>4, <1>5, <1>7, <1>8 DEF Calendar, z

\* A vote at the beginning of a block: its period goes on, or it is over.
LEMMA CalendarMoves ==
    ASSUME NEW v, NEW epoch \in Nat, NEW h \in Nat, Calendar(v, epoch, h), NEW over,
           over <=> IsEpochStart(h + 1) /\ v.deadline <= h + 1
    PROVE  /\ ~ over => Calendar(v, epoch, h + 1)
           /\ over => v.deadline = h + 1
           /\ over /\ v.state = "reveal" => InMemory(epoch, h + 1) /\ h + 1 >= epoch + 2 * Period + EpochBlocks
<1>0. /\ v.deadline \in Nat /\ v.deadline > h /\ IsEpochStart(v.deadline)
      /\ EpochBlocks \in Nat \ {0} /\ Period \in Nat /\ EpochsToSave * EpochBlocks \in Nat
  BY PeriodFacts DEF Calendar
<1>1. ~ over => v.deadline > h + 1
  BY <1>0
<1>2. over => v.deadline = h + 1
  BY <1>0
<1>3. ASSUME over, v.state = "reveal"
      PROVE  InMemory(epoch, h + 1) /\ h + 1 >= epoch + 2 * Period + EpochBlocks
  <2> DEFINE z == EpochsToSave * EpochBlocks
  <2>1. h + 1 <= epoch + z /\ h + 1 >= epoch + 2 * Period + EpochBlocks
    BY <1>2, <1>3 DEF Calendar
  <2>2. EpochStart(h + 1) \in Nat /\ EpochStart(h + 1) <= h + 1
    BY StartOfEpoch
  <2>3. z \in Nat
    BY <1>0
  <2> HIDE DEF z
  <2>4. EpochStart(h + 1) - z <= epoch
    BY <2>1, <2>2, <2>3
  <2>5. InMemory(epoch, h + 1)
    BY <2>2, <2>3, <2>4 DEF InMemory, EarliestEpoch, z
  <2> QED BY <2>1, <2>5
<1> QED BY <1>1, <1>2, <1>3 DEF Calendar

\* The shape of a vote, whatever its commitments are.
IsBallot(b) == b = [hash |-> b.hash, result |-> b.result]
IsVote(v) ==
    /\ v = [state |-> v.state, start |-> v.start, deadline |-> v.deadline, ballots |-> v.ballots]
    /\ v.ballots = [p \in Jury |-> v.ballots[p]]
    /\ \A p \in Jury : IsBallot(v.ballots[p])
Shape ==
    /\ votes = [i \in DOMAIN votes |-> votes[i]]
    /\ \A i \in DOMAIN votes : IsVote(votes[i])

\* The deadlines after a vote has moved from commit to reveal.
LEMMA TransitionCalendar ==
    ASSUME NEW v, IsVote(v), NEW epoch \in Nat, NEW h \in Nat, Calendar(v, epoch, h),
           v.state = "commit", v.deadline = h + 1
    PROVE  /\ Calendar(TransitionVoteToReveal(v, h + 1), epoch, h + 1)
           /\ IsVote(TransitionVoteToReveal(v, h + 1))
           /\ TransitionVoteToReveal(v, h + 1).ballots = v.ballots
<1> DEFINE w == TransitionVoteToReveal(v, h + 1)
           d == h + 1 + Period
<1>0. /\ EpochBlocks \in Nat \ {0} /\ Period \in Nat /\ EpochsToSave * EpochBlocks \in Nat
      /\ IsEpochStart(Period) /\ IsEpochStart(h + 1) /\ Period >= EpochBlocks
  BY PeriodFacts DEF Calendar
<1>1. w = [state |-> "reveal", start |-> v.start, deadline |-> d, ballots |-> v.ballots]
  <2>1. v = [state |-> v.state, start |-> v.start, deadline |-> v.deadline, ballots |-> v.ballots]
    BY DEF IsVote
  <2>2. w = [v EXCEPT !.state = "reveal", !.deadline = d]
    BY DEF TransitionVoteToReveal, Period
  <2> HIDE DEF w, d
  <2> QED BY <2>1, <2>2
<1>2. d \in Nat /\ d > h + 1 /\ IsEpochStart(d)
  <2>1. IsEpochStart((h + 1) + Period)
    BY <1>0, StartsApart
  <2> QED BY <1>0, <2>1
<1>3. v.start = epoch /\ v.deadline >= epoch + Period + EpochBlocks
        /\ v.deadline + Period <= epoch + EpochsToSave * EpochBlocks
  BY DEF Calendar
<1>4. d >= epoch + 2 * Period + EpochBlocks /\ d <= epoch + EpochsToSave * EpochBlocks
  BY <1>0, <1>3
<1> HIDE DEF w, d
<1>5. Calendar(w, epoch, h + 1)
  BY <1>1, <1>2, <1>3, <1>4 DEF Calendar
<1>6. IsVote(w) /\ w.ballots = v.ballots
  BY <1>1 DEF IsVote
<1> QED BY <1>5, <1>6 DEF w

\* A juror's ballot is replaced.
LEMMA BallotCast ==
    ASSUME Shape, NEW i \in DOMAIN votes, NEW p \in Jury, NEW x, IsBallot(x),
           votes' = [votes EXCEPT ![i].ballots[p] = x]
    PROVE  /\ Shape' /\ DOMAIN votes' = DOMAIN votes
           /\ \A j \in DOMAIN votes \ {i} : votes'[j] = votes[j]
           /\ votes'[i].state = votes[i].state /\ votes'[i].start = votes[i].start
           /\ votes'[i].deadline = votes[i].deadline
           /\ votes'[i].ballots[p] = x
           /\ \A q \in Jury \ {p} : votes'[i].ballots[q] = votes[i].ballots[q]
<1> DEFINE v == votes[i]
           b == [v.ballots EXCEPT ![p] = x]
           w == [v EXCEPT !.ballots = b]
<1>1. votes' = [votes EXCEPT ![i] = w]
  OBVIOUS
<1>2. IsVote(v) /\ votes = [j \in DOMAIN votes |-> votes[j]]
  BY DEF Shape
<1>3. /\ b = [q \in Jury |-> b[q]] /\ b[p] = x
      /\ \A q \in Jury \ {p} : b[q] = v.ballots[q]
  BY <1>2 DEF IsVote
<1>4. \A q \in Jury : IsBallot(b[q])
  BY <1>2, <1>3 DEF IsVote
<1> HIDE DEF b
<1>5. w = [state |-> v.state, start |-> v.start, deadline |-> v.deadline, ballots |-> b]
  BY <1>2 DEF IsVote
<1> HIDE DEF v, w
<1>6. IsVote(w) /\ w.state = v.state /\ w.start = v.start /\ w.deadline = v.deadline /\ w.ballots = b
  BY <1>3, <1>4, <1>5 DEF IsVote
<1>7. /\ DOMAIN votes' = DOMAIN votes /\ votes' = [j \in DOMAIN votes |-> votes'[j]]
      /\ votes'[i] = w /\ \A j \in DOMAIN votes \ {i} : votes'[j] = votes[j]
  BY <1>1, <1>2
<1>8. Shape'
  BY <1>2, <1>6, <1>7 DEF Shape
<1> QED BY <1>3, <1>6, <1>7, <1>8 DEF v

-----------------------------------------------------------------------------
(* The commitments and the verdicts. *)

\* Juror p committed in vote i to the result, and to no other.
OnlyCommitment(i, p, result, known) == \A r : <<i, p, r>> \in known <=> r = result

\* What is known of a ballot.
Ballot(b, i, p, known) ==
    \/ b.result = NoVote /\ \A r : <<i, p, r>> \notin known
    \/ b.result = Commit /\ \E a : b.hash = CommitVoteData(a) /\ OnlyCommitment(i, p, ResultOf(a), known)
    \/ b.result \in Revealed /\ OnlyCommitment(i, p, b.result, known)

Ballots ==
    /\ \A i \in DOMAIN votes, p \in Jury : Ballot(votes[i].ballots[p], i, p, committed)
    /\ \A i \in Indices : opened[i] = 0 => \A p, r : <<i, p, r>> \notin committed

\* What VerdictByMajority says of an outcome.
Majority(o, known) ==
    o.winner # NoWinner =>
        LET supporters == {p \in Jury : <<o.index, p, o.winner>> \in known}
        IN  /\ 2 * StakeOf(supporters \ o.silent) > StakeOf(Jury)
            /\ o.wrong \cap supporters = {}

Verdicts ==
    \A o \in outcomes :
        /\ o.index \in Indices /\ opened[o.index] = 1 /\ o.index \notin DOMAIN votes
        /\ o.counted = Jury /\ Majority(o, committed)

\* The stake of some jurors is a natural number.
LEMMA StakeNat == ASSUME NEW S \in SUBSET Jury PROVE StakeOf(S) \in Nat
<1>1. StakeOf(S) = SumFunctionOnSet(Stake, S)
  BY DEF StakeOf, MapThenSumSet, SumFunctionOnSet, FoldFunctionOnSet
<1>2. IsFiniteSet(S) /\ \A p \in S : Stake[p] \in Nat
  BY JuryAssumption, StakeAssumption, FS_Subset
<1> QED BY <1>1, <1>2, SumNat

\* The winner has more than half of the stake, and is none of the marks of a
\* juror that has not revealed.
LEMMA WinnerHasMajority ==
    ASSUME NEW v, Winner(v) # NoWinner
    PROVE  2 * StakeOf(For(v, Winner(v))) > StakeOf(Jury) /\ Winner(v) \in Revealed
<1> DEFINE first  == StakeOf(For(v, Provider0))
           second == StakeOf(For(v, Provider1))
           none   == StakeOf(For(v, NoneOfTheProviders))
           all    == StakeOf(Jury)
<1>1. first \in Nat /\ second \in Nat /\ none \in Nat /\ all \in Nat
  BY StakeNat DEF For
<1>2. /\ ~ (first <= all \div 2 /\ second <= all \div 2 /\ none <= all \div 2)
      /\ Winner(v) = IF first > second /\ first > none THEN Provider0
                     ELSE IF second > none THEN Provider1 ELSE NoneOfTheProviders
  BY DEF Winner
<1> HIDE DEF first, second, none, all
<1>3. \A n \in Nat : n > all \div 2 => 2 * n > all
  BY <1>1
<1>4. CASE first > second /\ first > none
  <2>1. 2 * first > all
    BY <1>1, <1>2, <1>3, <1>4
  <2> QED BY <1>2, <1>4, <2>1 DEF first, all, Revealed
<1>5. CASE ~ (first > second /\ first > none) /\ second > none
  <2>1. 2 * second > all
    BY <1>1, <1>2, <1>3, <1>5
  <2> QED BY <1>2, <1>5, <2>1 DEF second, all, Revealed
<1>6. CASE ~ (first > second /\ first > none) /\ ~ (second > none)
  <2>1. 2 * none > all
    BY <1>1, <1>2, <1>3, <1>6
  <2> QED BY <1>2, <1>6, <2>1 DEF none, all, Revealed
<1> QED BY <1>4, <1>5, <1>6

\* The outcome of a vote whose ballots agree with the commitments.
LEMMA OutcomeByMajority ==
    ASSUME NEW i, NEW v, NEW block, InMemory(v.start, block), NEW known,
           \A p \in Jury : Ballot(v.ballots[p], i, p, known)
    PROVE  LET o == Outcome(i, v, block)
           IN  o.index = i /\ o.counted = Jury /\ Majority(o, known)
<1> DEFINE o == Outcome(i, v, block)
           supporters == {p \in Jury : <<i, p, Winner(v)>> \in known}
<1>1. /\ o.index = i /\ o.counted = Jury /\ o.winner = Winner(v) /\ o.silent = Silent(v)
      /\ o.wrong = IF Winner(v) = NoWinner THEN {} ELSE Wrong(v)
  BY DEF Outcome
<1>2. ASSUME Winner(v) # NoWinner
      PROVE  2 * StakeOf(supporters \ Silent(v)) > StakeOf(Jury) /\ Wrong(v) \cap supporters = {}
  <2>1. Winner(v) \in Revealed /\ 2 * StakeOf(For(v, Winner(v))) > StakeOf(Jury)
    BY <1>2, WinnerHasMajority
  <2>2. \A p \in Jury : v.ballots[p].result \in Revealed =>
          (<<i, p, Winner(v)>> \in known <=> v.ballots[p].result = Winner(v))
    BY DEF Ballot, OnlyCommitment, Revealed, NoVote, Commit, Provider0, Provider1, NoneOfTheProviders
  <2>3. supporters \ Silent(v) = For(v, Winner(v))
    BY <2>1, <2>2 DEF Silent, For
  <2>4. Wrong(v) \cap supporters = {}
    BY <2>2 DEF Wrong, Silent, For
  <2> QED BY <2>1, <2>3, <2>4
<1> HIDE DEF o
<1>3. Majority(o, known)
  BY <1>1, <1>2 DEF Majority
<1> QED BY <1>1, <1>3 DEF o

-----------------------------------------------------------------------------
ConflictInv == Times /\ Shape /\ Ballots /\ Verdicts

\* The index of a vote ends in the start of an epoch.
LEMMA IndexFacts == ASSUME NEW i \in Indices PROVE i[2] \in Nat /\ IsEpochStart(i[2])
  BY BoundsAssumption DEF Indices

\* The invariant holds before the first report.
LEMMA ConflictInvInit == Init => ConflictInv
<1> SUFFICES ASSUME ConflictInit PROVE ConflictInv
  BY DEF Init
<1>1. DOMAIN votes = {} /\ votes = [i \in DOMAIN votes |-> votes[i]]
  BY DEF ConflictInit
<1>2. Times
  BY <1>1, BoundsAssumption DEF ConflictInit, Times
<1>3. Shape
  BY <1>1 DEF Shape
<1>4. Ballots /\ Verdicts
  BY <1>1 DEF ConflictInit, Ballots, Verdicts
<1> QED BY <1>2, <1>3, <1>4 DEF ConflictInv

\* A report is accepted in the epochs of its span only, so that a vote that is over
\* is not opened again.
LEMMA DetectionInv ==
    ASSUME ConflictInv, NEW k \in Conflicts, NEW epoch \in 0..MaxHeight, Detection(k, epoch)
    PROVE  ConflictInv'
<1> DEFINE i == <<k, epoch>>
           v == NewVote(epoch, height)
<1>0. /\ epoch \in Nat /\ height \in Nat /\ i \in Indices /\ i[2] = epoch
      /\ IsEpochStart(epoch) /\ epoch <= height /\ WithinSpan(epoch, height) /\ i \notin DOMAIN votes
  <2>1. epoch \in Nat /\ height \in Nat
    BY BoundsAssumption DEF ConflictInv, Times
  <2>2. IsEpochStart(epoch) /\ epoch <= height /\ WithinSpan(epoch, height) /\ i \notin DOMAIN votes
    BY DEF Detection, IsOpen
  <2>3. i \in Indices /\ i[2] = epoch
    BY <2>2 DEF Indices
  <2> QED BY <2>1, <2>2, <2>3
<1>1. opened[i] = 0
  <2>1. opened[i] \in 0..1
    BY <1>0 DEF ConflictInv, Times
  <2> DEFINE w == VoteStartSpan * EpochBlocks
  <2>2. w \in Nat /\ Period \in Nat /\ EpochBlocks \in Nat /\ w <= 2 * Period + EpochBlocks
    BY PeriodFacts
  <2>3. height < epoch + w
    BY <1>0, <2>2 DEF WithinSpan
  <2> HIDE DEF w
  <2>4. ~ (height >= epoch + 2 * Period + EpochBlocks)
    BY <1>0, <2>2, <2>3
  <2>5. opened[i] # 1
    BY <1>0, <2>4 DEF ConflictInv, Times
  <2> QED BY <2>1, <2>5
<1>2. /\ DOMAIN votes' = DOMAIN votes \cup {i} /\ votes'[i] = v
      /\ \A j \in DOMAIN votes : votes'[j] = votes[j]
      /\ votes' = [j \in DOMAIN votes' |-> votes'[j]]
  BY <1>0 DEF Detection
<1>3. opened' = [opened EXCEPT ![i] = 1] /\ UNCHANGED <<height, committed, outcomes>>
  <2>1. opened' = [opened EXCEPT ![i] = opened[i] + 1] /\ UNCHANGED <<height, committed, outcomes>>
    BY DEF Detection
  <2> HIDE DEF i
  <2> QED BY <1>1, <2>1
<1>4. Calendar(v, epoch, height)
  BY <1>0, NewVoteCalendar
<1>5. IsVote(v) /\ \A p \in Jury : v.ballots[p].result = NoVote
  BY DEF NewVote, IsVote, IsBallot
<1> HIDE DEF v, i
<1>6. opened' \in [Indices -> 0..1] /\ opened'[i] = 1 /\ \A j \in Indices \ {i} : opened'[j] = opened[j]
  BY <1>0, <1>3 DEF ConflictInv, Times
<1>7. Times'
  <2>1. \A j \in DOMAIN votes' : opened'[j] = 1 /\ Calendar(votes'[j], j[2], height')
    BY <1>0, <1>2, <1>3, <1>4, <1>6 DEF ConflictInv, Times
  <2>2. \A j \in Indices : opened'[j] = 1 /\ j \notin DOMAIN votes' =>
                             height' >= j[2] + 2 * Period + EpochBlocks
    BY <1>2, <1>3, <1>6 DEF ConflictInv, Times
  <2> QED BY <1>0, <1>2, <1>3, <1>6, <2>1, <2>2 DEF ConflictInv, Times
<1>8. Shape'
  BY <1>2, <1>5 DEF ConflictInv, Shape
<1>9. Ballots'
  <2>1. \A p \in Jury : Ballot(v.ballots[p], i, p, committed)
    BY <1>0, <1>1, <1>5 DEF ConflictInv, Ballots, Ballot
  <2>2. \A j \in DOMAIN votes', p \in Jury : Ballot(votes'[j].ballots[p], j, p, committed')
    BY <1>2, <1>3, <2>1 DEF ConflictInv, Ballots
  <2>3. \A j \in Indices : opened'[j] = 0 => \A p, r : <<j, p, r>> \notin committed'
    BY <1>3, <1>6 DEF ConflictInv, Ballots
  <2> QED BY <2>2, <2>3 DEF Ballots
<1>10. Verdicts'
  <2>1. \A o \in outcomes : o.index # i
    BY <1>1 DEF ConflictInv, Verdicts
  <2> QED BY <1>2, <1>3, <1>6, <2>1 DEF ConflictInv, Verdicts
<1> QED BY <1>7, <1>8, <1>9, <1>10 DEF ConflictInv

\* The ballot of juror p becomes x, and its commitments are noted.
Cast(i, p, x, extra) ==
    /\ IsBallot(x) /\ Ballot(x, i, p, committed')
    /\ votes' = [votes EXCEPT ![i].ballots[p] = x]
    /\ committed' = committed \cup extra /\ \A c \in extra : c[1] = i /\ c[2] = p
    /\ UNCHANGED <<height, opened, outcomes>>

\* A ballot that is cast keeps the invariant.
LEMMA BallotInv ==
    ASSUME ConflictInv, NEW i \in DOMAIN votes, NEW p \in Jury, NEW x, NEW extra, Cast(i, p, x, extra)
    PROVE  ConflictInv'
<1> USE DEF Cast
<1>1. /\ Shape' /\ DOMAIN votes' = DOMAIN votes
      /\ \A j \in DOMAIN votes \ {i} : votes'[j] = votes[j]
      /\ votes'[i].state = votes[i].state /\ votes'[i].start = votes[i].start
      /\ votes'[i].deadline = votes[i].deadline
      /\ votes'[i].ballots[p] = x
      /\ \A q \in Jury \ {p} : votes'[i].ballots[q] = votes[i].ballots[q]
  BY BallotCast DEF ConflictInv
<1>2. Times'
  <2>1. \A j \in DOMAIN votes' : opened'[j] = 1 /\ Calendar(votes'[j], j[2], height')
    BY <1>1 DEF ConflictInv, Times, Calendar
  <2> QED BY <1>1, <2>1 DEF ConflictInv, Times
<1>3. Ballots'
  <2>1. ASSUME NEW j \in DOMAIN votes, NEW q \in Jury
        PROVE  Ballot(votes'[j].ballots[q], j, q, committed')
    <3>1. CASE j = i /\ q = p
      BY <1>1, <3>1
    <3>2. CASE ~ (j = i /\ q = p)
      <4>1. votes'[j].ballots[q] = votes[j].ballots[q]
        BY <1>1, <3>2
      <4>2. \A r : <<j, q, r>> \notin extra
        BY <3>2
      <4>3. Ballot(votes[j].ballots[q], j, q, committed)
        BY DEF ConflictInv, Ballots
      <4> QED BY <4>1, <4>2, <4>3 DEF Ballot, OnlyCommitment
    <3> QED BY <3>1, <3>2
  <2>2. \A j \in Indices : opened'[j] = 0 => \A q, r : <<j, q, r>> \notin committed'
    <3> SUFFICES ASSUME NEW j \in Indices, opened[j] = 0, NEW q, NEW r
                 PROVE  <<j, q, r>> \notin committed \cup extra
      OBVIOUS
    <3>1. j # i
      BY DEF ConflictInv, Times
    <3>2. <<j, q, r>> \notin extra
      BY <3>1
    <3> QED BY <3>2 DEF ConflictInv, Ballots
  <2> QED BY <1>1, <2>1, <2>2 DEF Ballots
<1>4. Verdicts'
  <2> SUFFICES ASSUME NEW o \in outcomes PROVE Majority(o, committed')
    BY <1>1 DEF ConflictInv, Verdicts
  <2>1. o.index # i /\ Majority(o, committed)
    BY DEF ConflictInv, Verdicts
  <2>2. \A q \in Jury : <<o.index, q, o.winner>> \notin extra
    BY <2>1
  <2>3. {q \in Jury : <<o.index, q, o.winner>> \in committed'} = {q \in Jury : <<o.index, q, o.winner>> \in committed}
    BY <2>2
  <2> QED BY <2>1, <2>3 DEF Majority
<1> QED BY <1>1, <1>2, <1>3, <1>4 DEF ConflictInv

\* So does a commitment.
LEMMA CommitInv ==
    ASSUME ConflictInv, NEW i \in DOMAIN votes, NEW p \in Jury, NEW answer, ConflictVoteCommit(i, p, answer)
    PROVE  ConflictInv'
<1> DEFINE x == [hash |-> CommitVoteData(answer), result |-> Commit]
<1>1. /\ votes' = [votes EXCEPT ![i].ballots[p] = x] /\ UNCHANGED <<height, opened, outcomes>>
      /\ committed' = committed \cup {<<i, p, ResultOf(answer)>>} /\ votes[i].ballots[p].result = NoVote
  BY DEF ConflictVoteCommit, CommitAccepted
<1>2. IsBallot(x) /\ x.result = Commit /\ x.hash = CommitVoteData(answer)
  BY DEF IsBallot
<1> HIDE DEF x
<1>3. \A r : <<i, p, r>> \notin committed
  <2>1. Ballot(votes[i].ballots[p], i, p, committed)
    BY DEF ConflictInv, Ballots
  <2> QED BY <1>1, <2>1 DEF Ballot, NoVote, Commit, Revealed, Provider0, Provider1, NoneOfTheProviders
<1>4. Ballot(x, i, p, committed')
  <2>1. OnlyCommitment(i, p, ResultOf(answer), committed')
    BY <1>1, <1>3 DEF OnlyCommitment
  <2> QED BY <1>2, <2>1 DEF Ballot
<1>5. \A c \in {<<i, p, ResultOf(answer)>>} : c[1] = i /\ c[2] = p
  OBVIOUS
<1>6. Cast(i, p, x, {<<i, p, ResultOf(answer)>>})
  BY <1>1, <1>2, <1>4, <1>5 DEF Cast
<1> QED BY <1>6, BallotInv

\* So does a reveal.
LEMMA RevealInv ==
    ASSUME ConflictInv, NEW i \in DOMAIN votes, NEW p \in Jury, NEW answer, ConflictVoteReveal(i, p, answer)
    PROVE  ConflictInv'
<1> DEFINE b == votes[i].ballots[p]
           x == [hash |-> b.hash, result |-> ResultOf(answer)]
<1>1. /\ b.result = Commit /\ b.hash = CommitVoteData(answer) /\ UNCHANGED <<height, opened, outcomes, committed>>
      /\ votes' = [votes EXCEPT ![i].ballots[p] = [b EXCEPT !.result = ResultOf(answer)]]
  BY DEF ConflictVoteReveal, RevealAccepted
<1>2. IsBallot(b) /\ Ballot(b, i, p, committed)
  BY DEF ConflictInv, Shape, IsVote, Ballots
<1> HIDE DEF b
<1>3. [b EXCEPT !.result = ResultOf(answer)] = x
  BY <1>2 DEF IsBallot
<1>4. IsBallot(x) /\ x.result = ResultOf(answer)
  BY DEF IsBallot
<1> HIDE DEF x
<1>5. Ballot(x, i, p, committed)
  <2>1. PICK a : b.hash = CommitVoteData(a) /\ OnlyCommitment(i, p, ResultOf(a), committed)
    BY <1>1, <1>2 DEF Ballot, NoVote, Commit, Revealed, Provider0, Provider1, NoneOfTheProviders
  <2>2. a = answer
    BY <1>1, <2>1 DEF CommitVoteData
  <2>3. ResultOf(answer) \in Revealed
    BY DEF ResultOf, Revealed
  <2> QED BY <1>4, <2>1, <2>2, <2>3 DEF Ballot
<1>6. votes' = [votes EXCEPT ![i].ballots[p] = x]
  BY <1>1, <1>3
<1>7. committed' = committed \cup {} /\ Ballot(x, i, p, committed')
  BY <1>1, <1>5
<1>8. Cast(i, p, x, {})
  BY <1>1, <1>4, <1>6, <1>7 DEF Cast
<1> QED BY <1>8, BallotInv

\* The votes whose period is over move on: to the reveals, or to a verdict.
LEMMA BeginBlockInv == ASSUME ConflictInv, BeginBlock PROVE ConflictInv'
<1> DEFINE block == height + 1
           closed == Due(block, "reveal")
           moved == Due(block, "commit")
<1>0. /\ height \in Nat /\ height' = block /\ height' \in 0..MaxHeight
      /\ UNCHANGED <<opened, committed>>
      /\ outcomes' = outcomes \cup {Outcome(i, votes[i], block) : i \in closed}
  BY BoundsAssumption DEF BeginBlock, ConflictInv, Times
<1>1. /\ DOMAIN votes' = DOMAIN votes \ closed
      /\ votes' = [i \in DOMAIN votes' |-> votes'[i]]
      /\ \A i \in DOMAIN votes' : votes'[i] = IF i \in moved THEN TransitionVoteToReveal(votes[i], block)
                                              ELSE votes[i]
  BY DEF BeginBlock
<1>2. \A i \in DOMAIN votes : i \in Indices /\ i[2] \in Nat /\ IsVote(votes[i])
                                /\ opened[i] = 1 /\ Calendar(votes[i], i[2], height)
  BY IndexFacts DEF ConflictInv, Times, Shape
<1>3. ASSUME NEW i \in DOMAIN votes
      PROVE  /\ i \in closed => /\ InMemory(votes[i].start, block) /\ votes[i].start = i[2]
                                /\ block >= i[2] + 2 * Period + EpochBlocks
             /\ i \in moved => votes[i].state = "commit" /\ votes[i].deadline = block
             /\ i \notin closed \cup moved => Calendar(votes[i], i[2], block)
  <2> DEFINE over == IsEpochStart(block) /\ votes[i].deadline <= block
  <2>1. /\ ~ over => Calendar(votes[i], i[2], block)
        /\ over => votes[i].deadline = block
        /\ over /\ votes[i].state = "reveal" =>
             InMemory(i[2], block) /\ block >= i[2] + 2 * Period + EpochBlocks
    BY <1>0, <1>2, CalendarMoves
  <2>2. votes[i].state \in {"commit", "reveal"} /\ votes[i].start = i[2]
    BY <1>2 DEF Calendar
  <2>3. (i \in closed <=> over /\ votes[i].state = "reveal") /\ (i \in moved <=> over /\ votes[i].state = "commit")
    BY DEF Due
  <2> HIDE DEF over, block, closed, moved
  <2> QED BY <2>1, <2>2, <2>3
<1>4. ASSUME NEW i \in DOMAIN votes'
      PROVE  /\ Calendar(votes'[i], i[2], block) /\ IsVote(votes'[i])
             /\ votes'[i].ballots = votes[i].ballots /\ i \in DOMAIN votes
  <2>1. i \in DOMAIN votes /\ i \notin closed
    BY <1>1, <1>4
  <2>2. CASE i \in moved
    <3>1. votes'[i] = TransitionVoteToReveal(votes[i], block)
      BY <1>1, <1>4, <2>2
    <3> HIDE DEF moved, closed
    <3> QED BY <1>0, <1>2, <1>3, <2>1, <2>2, <3>1, TransitionCalendar
  <2>3. CASE i \notin moved
    <3>1. votes'[i] = votes[i]
      BY <1>1, <1>4, <2>3
    <3> QED BY <1>2, <1>3, <2>1, <2>3, <3>1
  <2> QED BY <2>2, <2>3
<1>5. closed \subseteq DOMAIN votes
  BY DEF Due
<1> HIDE DEF moved, closed
<1>6. Times'
  <2>1. \A i \in Indices : i[2] \in Nat
    BY IndexFacts
  <2>2. ASSUME NEW i \in Indices, opened[i] = 1, i \notin DOMAIN votes'
        PROVE  block >= i[2] + 2 * Period + EpochBlocks
    <3>1. CASE i \in closed
      BY <1>3, <1>5, <3>1
    <3>2. CASE i \notin DOMAIN votes
      <4>1. height >= i[2] + 2 * Period + EpochBlocks
        BY <2>2, <3>2 DEF ConflictInv, Times
      <4> QED BY <1>0, <2>1, <4>1, PeriodFacts
    <3> QED BY <1>1, <2>2, <3>1, <3>2
  <2>3. \A i \in DOMAIN votes' : opened'[i] = 1 /\ Calendar(votes'[i], i[2], height')
    BY <1>0, <1>2, <1>4
  <2> QED BY <1>0, <1>1, <2>2, <2>3 DEF ConflictInv, Times
<1>7. Shape'
  BY <1>1, <1>4 DEF Shape
<1>8. Ballots'
  BY <1>0, <1>4 DEF ConflictInv, Ballots
<1>9. Verdicts'
  <2>1. ASSUME NEW i \in closed
        PROVE  LET o == Outcome(i, votes[i], block)
               IN  /\ o.index \in Indices /\ opened[o.index] = 1 /\ o.index \notin DOMAIN votes'
                   /\ o.counted = Jury /\ Majority(o, committed)
    <3> DEFINE o == Outcome(i, votes[i], block)
    <3>1. i \in DOMAIN votes /\ i \notin DOMAIN votes' /\ i \in Indices /\ opened[i] = 1
      BY <1>1, <1>2, <1>5
    <3>2. InMemory(votes[i].start, block) /\ \A p \in Jury : Ballot(votes[i].ballots[p], i, p, committed)
      BY <1>3, <3>1 DEF ConflictInv, Ballots
    <3>3. o.index = i /\ o.counted = Jury /\ Majority(o, committed)
      BY <3>2, OutcomeByMajority
    <3> HIDE DEF o
    <3>4. /\ o.index \in Indices /\ opened[o.index] = 1 /\ o.index \notin DOMAIN votes'
          /\ o.counted = Jury /\ Majority(o, committed)
      BY <3>1, <3>3
    <3> QED BY <3>4 DEF o
  <2>2. \A o \in outcomes : /\ o.index \in Indices /\ opened[o.index] = 1 /\ o.index \notin DOMAIN votes'
                            /\ o.counted = Jury /\ Majority(o, committed)
    BY <1>1 DEF ConflictInv, Verdicts
  <2>3. ASSUME NEW o \in outcomes'
        PROVE  /\ o.index \in Indices /\ opened[o.index] = 1 /\ o.index \notin DOMAIN votes'
               /\ o.counted = Jury /\ Majority(o, committed)
    <3>1. CASE o \in outcomes
      BY <2>2, <3>1
    <3>2. CASE o \notin outcomes
      <4>1. PICK i \in closed : o = Outcome(i, votes[i], block)
        BY <1>0, <2>3, <3>2
      <4> QED BY <2>1, <4>1
    <3> QED BY <3>1, <3>2
  <2> QED BY <1>0, <2>3 DEF Verdicts
<1> QED BY <1>6, <1>7, <1>8, <1>9 DEF ConflictInv

\* Every step of the chain, of the providers and of the other jurors keeps it.
LEMMA ConflictInvNext == ConflictInv /\ [Next]_vars => ConflictInv'
<1> SUFFICES ASSUME ConflictInv, ConflictNext \/ UNCHANGED conflictVars PROVE ConflictInv'
  BY OnChain
<1>1. CASE UNCHANGED conflictVars
  BY <1>1 DEF conflictVars, ConflictInv, Times, Shape, Ballots, Verdicts
<1>2. CASE ConflictNext
  BY <1>2, BeginBlockInv, DetectionInv, CommitInv, RevealInv DEF ConflictNext
<1> QED BY <1>1, <1>2

\* A conflict of an epoch is judged at most once, although AllocateNewConflictVote
\* only refuses indices of open votes: for every length of epochs, span and periods
\* with VoteStartSpan <= 2 * VotePeriod + 1.
THEOREM ConflictJudgedOnce == Spec => []JudgedOnce
<1>1. ConflictInv => JudgedOnce
  BY DEF ConflictInv, Times, JudgedOnce
<1> QED BY <1>1, ConflictInvInit, ConflictInvNext, PTL DEF Spec

\* HandleAndCloseVote finds the stake entries of every juror: the epoch of the
\* conflict is still in memory when its vote ends.
THEOREM WholeJuryCounted == Spec => []JuryCounted
<1>1. ConflictInv => JuryCounted
  BY DEF ConflictInv, Verdicts, JuryCounted
<1> QED BY <1>1, ConflictInvInit, ConflictInvNext, PTL DEF Spec

\* A verdict is what jurors with more than half of the stake committed to while
\* nobody had revealed, and who is punished for a wrong vote committed to another
\* answer; whatever jurors and their software send, in whatever order.
THEOREM VerdictOfMajority == Spec => []VerdictByMajority
<1>1. ConflictInv => VerdictByMajority
  BY DEF ConflictInv, Verdicts, Majority, VerdictByMajority
<1> QED BY <1>1, ConflictInvInit, ConflictInvNext, PTL DEF Spec
=============================================================================
