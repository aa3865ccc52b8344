------------------------------ MODULE Conflict ------------------------------
(***************************************************************************)
(* x/conflict: a consumer reports two providers that answered one request  *)
(* differently, the staked providers of the relay's epoch are the jury,    *)
(* and the vote goes through a commit and a reveal period that end at      *)
(* epoch starts.                                                           *)
(*                                                                         *)
(* A conflict is a consumer and an ordered pair of providers; with the     *)
(* start of the relay's epoch it is the vote's index.  The signatures,     *)
(* finalization and pairing checks of a report hold for every conflict     *)
(* here.  EpochBlocks does not change.  A commitment is the answer it      *)
(* hides: the nonce only hides it.  SlashEntry, JailEntry and              *)
(* CreditStakeEntry of x/pairing change nothing yet: an outcome records    *)
(* whom the vote would punish.                                             *)
(***************************************************************************)
EXTENDS Integers, FiniteSets, FiniteSetsExt, Functions

CONSTANTS
    Conflicts,          \* what consumers may report
    Jury,               \* LotteryVoters: staked, not frozen, not in the conflict
    Stake,              \* [Jury -> Nat]: effective stake
    Answers,            \* responses a jury provider's node may give
    EpochBlocks,
    EpochsToSave,       \* epochs of stake entries kept by x/epochstorage
    VoteStartSpan,
    VotePeriod,
    MajorityPercent,
    MaxHeight,          \* bound: the last block
    MaxReports          \* bound: votes opened in a behaviour

ASSUME JuryAssumption == IsFiniteSet(Jury)
ASSUME StakeAssumption == Stake \in [Jury -> Nat \ {0}]
ASSUME EpochAssumption == EpochBlocks \in Nat \ {0}
ASSUME BoundsAssumption == MaxHeight \in Nat /\ MaxReports \in Nat
\* validateVotePeriod and validateVoteStartSpan: "can't be 0".
ASSUME PeriodAssumption == {VotePeriod, VoteStartSpan} \subseteq Nat \ {0} /\ EpochsToSave \in Nat
\* Defaults: spans of 3 epochs, periods of 2, a memory of 10.
ASSUME SpanAssumption == VoteStartSpan <= 2 * VotePeriod + 1
ASSUME MemoryAssumption == VoteStartSpan + 2 * VotePeriod <= EpochsToSave

VARIABLES
    height,     \* ctx.BlockHeight()
    votes,      \* the open votes, by index
    opened,     \* history: how often each index was opened
    committed,  \* history: <<index, provider, result>> of every commitment accepted
    outcomes    \* history: the votes that were closed

conflictVars == <<height, votes, opened, committed, outcomes>>

Provider0 == "provider0"                \* results of a ballot
Provider1 == "provider1"
NoneOfTheProviders == "none"
Revealed == {Provider0, Provider1, NoneOfTheProviders}
NoVote == "no_vote"
Commit == "commit"
NoHash == <<>>
NoWinner == "no_winner"

EpochStart(block) == block - (block % EpochBlocks)
GetNextEpoch(block) == EpochStart(block) + EpochBlocks
IsEpochStart(block) == block % EpochBlocks = 0
EarliestEpoch(block) ==
    LET first == EpochStart(block) - EpochsToSave * EpochBlocks
    IN  IF first > 0 THEN first ELSE 0
InMemory(epoch, block) == epoch >= EarliestEpoch(block)

Indices == Conflicts \X {b \in 0..MaxHeight : IsEpochStart(b)}
IsOpen(i) == i \in DOMAIN votes

-----------------------------------------------------------------------------
(* Messages (msg_server_detection.go, ..._commit.go, ..._reveal.go). *)

NewVoteLasting(epoch, block) ==
    [state    |-> "commit",
     start    |-> epoch,
     deadline |-> GetNextEpoch(block + 2 * VotePeriod * EpochBlocks),
     ballots  |-> [p \in Jury |-> [hash |-> NoHash, result |-> NoVote]]]
NewVote(epoch, block) ==
    [state    |-> "commit",
     start    |-> epoch,
     deadline |-> GetNextEpoch(block + VotePeriod * EpochBlocks),
     ballots  |-> [p \in Jury |-> [hash |-> NoHash, result |-> NoVote]]]

\* ValidateResponseConflict accepts a relay of a recent epoch.
AnyEpoch(epoch, block) == epoch <= block
WithinSpan(epoch, block) == block - epoch < VoteStartSpan * EpochBlocks

Detection(k, epoch) ==
    LET i == <<k, epoch>>
    IN  /\ IsEpochStart(epoch) /\ epoch <= height
        /\ WithinSpan(epoch, height) /\ InMemory(epoch, height)
        /\ ~IsOpen(i)
        /\ FoldFunction(+, 0, opened) < MaxReports
        /\ votes' = [j \in DOMAIN votes \cup {i} |->
                        IF j = i THEN NewVote(epoch, height) ELSE votes[j]]
        /\ opened' = [opened EXCEPT ![i] = @ + 1]
        /\ UNCHANGED <<height, committed, outcomes>>

CommitVoteData(answer) == <<answer>>

\* What a revealed response counts for: one of the two reported, or neither.
ResultOf(answer) ==
    CASE answer = "response0" -> Provider0
      [] answer = "response1" -> Provider1
      [] OTHER -> NoneOfTheProviders

CommitAccepted(i, p) ==
    /\ IsOpen(i) /\ votes[i].state = "commit"
    /\ p \in Jury /\ votes[i].ballots[p].result = NoVote

ConflictVoteCommit(i, p, answer) ==
    /\ CommitAccepted(i, p)
    /\ votes' = [votes EXCEPT ![i].ballots[p] =
                    [hash |-> CommitVoteData(answer), result |-> Commit]]
    /\ committed' = committed \cup {<<i, p, ResultOf(answer)>>}
    /\ UNCHANGED <<height, opened, outcomes>>

\* The revealed answer has to match the commitment.
RevealWithoutCheck(i, p, answer) ==
    IsOpen(i) /\ votes[i].state = "reveal" /\ p \in Jury /\ votes[i].ballots[p].result = Commit
RevealAccepted(i, p, answer) ==
    /\ IsOpen(i) /\ votes[i].state = "reveal"
    /\ p \in Jury /\ votes[i].ballots[p].result = Commit
    /\ votes[i].ballots[p].hash = CommitVoteData(answer)

ConflictVoteReveal(i, p, answer) ==
    /\ RevealAccepted(i, p, answer)
    /\ votes' = [votes EXCEPT ![i].ballots[p].result = ResultOf(answer)]
    /\ UNCHANGED <<height, opened, committed, outcomes>>

-----------------------------------------------------------------------------
(* The end of a period (vote.go). *)

StakeOf(S) == MapThenSumSet(LAMBDA p : Stake[p], S)
For(v, result) == {p \in Jury : v.ballots[p].result = result}
Silent(v) == {p \in Jury : v.ballots[p].result \notin Revealed}

\* More than half of the jury's stake, then the order of the comparisons.
Winner(v) ==
    LET first  == StakeOf(For(v, Provider0))
        second == StakeOf(For(v, Provider1))
        none   == StakeOf(For(v, NoneOfTheProviders))
        half   == StakeOf(Jury) \div 2
    IN  IF first <= half /\ second <= half /\ none <= half THEN NoWinner
        ELSE IF first > second /\ first > none THEN Provider0
        ELSE IF second > none THEN Provider1
        ELSE NoneOfTheProviders

\* Those who voted for another result are punished when the majority is strong.
Wrong(v) ==
    IF StakeOf(For(v, Winner(v))) * 100 >= StakeOf(Jury) * MajorityPercent
    THEN Jury \ (For(v, Winner(v)) \cup Silent(v)) ELSE {}

\* HandleAndCloseVote: jurors without a stake entry in memory are skipped, and
\* since the entries of an epoch go together nobody is counted then.
Outcome(i, v, block) ==
    IF ~InMemory(v.start, block)
    THEN [index |-> i, counted |-> {}, winner |-> NoWinner, silent |-> {}, wrong |-> {}]
    ELSE [index |-> i, counted |-> Jury, winner |-> Winner(v), silent |-> Silent(v),
          wrong |-> IF Winner(v) = NoWinner THEN {} ELSE Wrong(v)]

TransitionVoteToReveal(v, block) ==
    [v EXCEPT !.state = "reveal", !.deadline = block + VotePeriod * EpochBlocks]

\* CheckAndHandleAllVotes: the votes whose period is over at a block.
Due(block, state) ==
    {i \in DOMAIN votes : IsEpochStart(block)
        /\ votes[i].deadline <= block /\ votes[i].state = state}

BeginBlock ==
    LET block == height + 1
    IN  /\ height < MaxHeight
        /\ height' = block
        /\ votes' = [i \in DOMAIN votes \ Due(block, "reveal") |->
                        IF i \in Due(block, "commit") THEN TransitionVoteToReveal(votes[i], block)
                        ELSE votes[i]]
        /\ outcomes' = outcomes \cup {Outcome(i, votes[i], block) : i \in Due(block, "reveal")}
        /\ UNCHANGED <<opened, committed>>

ConflictInit ==
    /\ height = 0
    /\ votes = [i \in {} |-> {}]
    /\ opened = [i \in Indices |-> 0]
    /\ committed = {}
    /\ outcomes = {}

-----------------------------------------------------------------------------
\* A conflict of an epoch is judged once: it cannot be reported again when its
\* vote is over and the index free (AllocateNewConflictVote only sees open
\* votes; VoteStartSpan and the two periods together keep it closed).
JudgedOnce == \A i \in Indices : opened[i] <= 1

\* A vote ends while the stake entries of its jury are in memory, so that the
\* verdict counts every juror (GetStakeEntryForProviderEpoch at the closing).
JuryCounted == \A o \in outcomes : o.counted = Jury

\* A winner is what jurors with more than half of the jury's stake committed to
\* before anyone could see a revealed answer; whoever is punished as a wrong
\* voter committed to something else, and whoever committed to the winner is
\* punished only for not revealing.
VerdictByMajority ==
    \A o \in outcomes : o.winner # NoWinner =>
        LET supporters == {p \in Jury : <<o.index, p, o.winner>> \in committed}
        IN  /\ 2 * StakeOf(supporters \ o.silent) > StakeOf(Jury)
            /\ o.wrong \cap supporters = {}
=============================================================================
