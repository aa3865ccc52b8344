---------------------------- MODULE EpochStorage ----------------------------
(***************************************************************************)
(* x/epochstorage: epochs whose length and number in memory are parameters *)
(* that governance changes while the chain runs.  A change takes effect at *)
(* the next epoch; the parameters of past epochs stay fixated for as long  *)
(* as an epoch in memory needs them.                                       *)
(*                                                                         *)
(* The versions of a parameter are kept newest first at the indices 0, 1,  *)
(* ... of its key, each with the block that fixated it.  Fixation blocks   *)
(* only grow, so a key's list is the function from fixation blocks to      *)
(* values.  UnstakeHoldBlocks and UnstakeHoldBlocksStatic go through the   *)
(* same code and are left out; an epoch's stake storage is the epoch's     *)
(* block.                                                                  *)
(***************************************************************************)
EXTENDS Integers, FiniteSets, FiniteSetsExt, Functions

CONSTANTS
    EpochBlocksValues,      \* values governance gives to EpochBlocks
    EpochsToSaveValues,     \* values governance gives to EpochsToSave
    MaxEpochHeight,         \* bound: the last block
    MaxChanges              \* bound: parameter changes in a behaviour

ASSUME EpochBlocksAssumption == EpochBlocksValues \subseteq Nat \ {0}
ASSUME EpochsToSaveAssumption == EpochsToSaveValues \subseteq Nat

VARIABLES
    height,     \* ctx.BlockHeight()
    store,      \* the module's state, a record
    changes,    \* parameter changes so far
    history     \* history: the parameters at each epoch start that happened

epochVars == <<height, store, changes, history>>

FixationKeys == {"EpochBlocks", "EpochsToSave"}
Params == [EpochBlocks: EpochBlocksValues, EpochsToSave: EpochsToSaveValues]

-----------------------------------------------------------------------------
(* Parameters of a block (fixated_params.go, params.go).  Without a        *)
(* version that old, the current value is used and an error returned.      *)

Known(st, key, block) == \E b \in DOMAIN st.fixated[key] : b <= block
FixationBlock(st, key, block) ==
    IF Known(st, key, block) THEN Max({b \in DOMAIN st.fixated[key] : b <= block}) ELSE block
GetParamForBlock(st, key, block) ==
    IF Known(st, key, block) THEN st.fixated[key][FixationBlock(st, key, block)]
    ELSE st.params[key]

EpochBlocks(st, block) == GetParamForBlock(st, "EpochBlocks", block)
BlocksToSave(st, block) == GetParamForBlock(st, "EpochsToSave", block) * EpochBlocks(st, block)
BlocksToSaveKnown(st, block) == \A key \in FixationKeys : Known(st, key, block)

BlockInEpoch(st, block) ==
    (block - FixationBlock(st, "EpochBlocks", block)) % EpochBlocks(st, block)
GetEpochStartForBlock(st, block) == block - BlockInEpoch(st, block)
GetNextEpoch(st, block) == GetEpochStartForBlock(st, block) + EpochBlocks(st, block)
GetPreviousEpochStartForBlock(st, block) ==
    GetEpochStartForBlock(st, GetEpochStartForBlock(st, block) - 1)
PreviousEpochKnown(st, block) ==
    GetEpochStartForBlock(st, block) > 0
      /\ Known(st, "EpochBlocks", GetEpochStartForBlock(st, block) - 1)

\* GetCurrentNextEpoch reads the parameter itself while one epoch is in memory.
NextEpochByParam(st, block) == st.start + st.params["EpochBlocks"]
GetCurrentNextEpoch(st, block) ==
    IF st.earliest = st.start THEN st.start + st.params["EpochBlocks"]
    ELSE GetNextEpoch(st, block)

-----------------------------------------------------------------------------
(* Fixation (fixated_params.go). *)

Newest(f) == Max(DOMAIN f)

\* CleanAllOlderFixatedParams from index 1.
CleanAllOlder(st) ==
    [st EXCEPT !.change = 0,
               !.fixated = [key \in FixationKeys |-> Restrict(@[key], {Newest(@[key])})]]

\* The versions from the limit on, and the one before, still cover the memory.
KeepCovering(blocks, limit) ==
    LET older == {b \in blocks : b < limit}
    IN  (blocks \ older) \cup (IF older = {} THEN {} ELSE {Max(older)})

PushFixatedParams(st, block, limit) ==
    [st EXCEPT !.fixated = [key \in FixationKeys |->
        LET old == @[key]
            new == [b \in DOMAIN old \cup {block} |->
                        IF b = block THEN st.params[key] ELSE old[b]]
        IN  IF old[Newest(old)] = st.params[key] THEN old
            ELSE Restrict(new, KeepCovering(DOMAIN new, limit))]]

FixateAfterFirstBlock(st, block) ==
    IF st.change = 0 THEN st
    ELSE IF st.change < st.earliest THEN CleanAllOlder(st)
    ELSE IF PreviousEpochKnown(st, block)
            /\ st.change > GetPreviousEpochStartForBlock(st, block)
         THEN PushFixatedParams(st, block, st.earliest)
    ELSE st
FixateParams(st, block) ==
    IF st.change = 0 THEN st
    ELSE IF st.change < st.earliest THEN CleanAllOlder(st)
    ELSE IF PreviousEpochKnown(st, block)
            /\ st.change >= GetPreviousEpochStartForBlock(st, block)
         THEN PushFixatedParams(st, block, st.earliest)
    ELSE st

-----------------------------------------------------------------------------
(* EpochStart (epoch_start.go, stake_storage.go). *)

StoreEpoch(st, block) == [st EXCEPT !.start = block, !.stored = @ \cup {block}]

\* The epochs the loop passes on its way from an epoch to the first one that is
\* not before the limit, that one, and whether it could not be found.
Passed(st, from, limit) ==
    LET f[e \in Nat] == IF e >= limit \/ ~Known(st, "EpochBlocks", e) THEN {}
                        ELSE {e} \cup f[GetNextEpoch(st, e)]
    IN  f[from]
Arrived(st, from, limit) ==
    LET passed == Passed(st, from, limit)
    IN  IF passed = {} THEN from ELSE GetNextEpoch(st, Max(passed))

\* The deleted epochs of an earlier update are kept when there is nothing to do.
UpdateEarliestEpochstart(st, block) ==
    LET limit == block - BlocksToSave(st, st.earliest)
        passed == Passed(st, st.earliest, limit)
        new == Arrived(st, st.earliest, limit)
    IN  IF ~BlocksToSaveKnown(st, st.earliest) THEN [st EXCEPT !.panic = TRUE]
        ELSE IF limit <= 0 \/ passed = {} THEN st
        ELSE IF new < limit THEN [st EXCEPT !.panic = TRUE]
        ELSE [st EXCEPT !.earliest = new, !.deleted = passed]

RemoveOldestEpochData(st) ==
    [st EXCEPT !.stored = @ \ (IF st.deleted = {} THEN {} ELSE {Min(st.deleted)})]
RemoveOldEpochData(st) == [st EXCEPT !.stored = @ \ st.deleted]

EpochStart(st, block) ==
    RemoveOldEpochData(UpdateEarliestEpochstart(
        StoreEpoch(FixateParams(st, block), block), block))

-----------------------------------------------------------------------------
EpochInit ==
    /\ height = 0
    /\ \E p \in Params :
        /\ store = [params   |-> p,
                    change   |-> 0,
                    fixated  |-> [key \in FixationKeys |-> [b \in {0} |-> p[key]]],
                    start    |-> 0,
                    earliest |-> 0,
                    deleted  |-> {},
                    stored   |-> {},
                    panic    |-> FALSE]
        /\ history = [b \in {0} |-> p]
    /\ changes = 0

\* BeginBlock of the next block.
EpochBeginBlock ==
    LET block == height + 1
        first == BlockInEpoch(store, block) = 0
    IN  /\ height < MaxEpochHeight /\ ~store.panic
        /\ height' = block
        /\ store' = IF first THEN EpochStart(store, block) ELSE store
        /\ history' = IF first
                      THEN [b \in DOMAIN history \cup {block} |->
                                IF b = block THEN store.params ELSE history[b]]
                      ELSE history
        /\ UNCHANGED changes

\* HandleParameterChangeProposal, at the end of a block.
ChangeParams(p) ==
    /\ changes < MaxChanges /\ height > 0 /\ ~store.panic
    /\ store' = [store EXCEPT !.params = p, !.change = height]
    /\ changes' = changes + 1
    /\ UNCHANGED <<height, history>>

EpochNext == EpochBeginBlock \/ \E p \in Params : ChangeParams(p)

EpochSpec == EpochInit /\ [][EpochNext]_epochVars

-----------------------------------------------------------------------------
\* The start of the epoch a block belongs to, as it really happened.
RealEpochStart(block) == Max({b \in DOMAIN history : b <= block})

\* For every block in memory the module answers with the epoch the block really
\* belonged to and the parameters that were in force in it, however often they
\* changed since (GetEpochStartForBlock, GetParamForBlock); the earliest epoch
\* in memory is an epoch that happened, and no epoch start finds its parameters
\* missing (LavaFormatPanic in UpdateEarliestEpochstart).
PastIsTruthful ==
    /\ ~store.panic
    /\ store.earliest \in DOMAIN history
    /\ \A b \in store.earliest..height :
        /\ GetEpochStartForBlock(store, b) = RealEpochStart(b)
        /\ \A key \in FixationKeys :
            Known(store, key, b)
              /\ GetParamForBlock(store, key, b) = history[RealEpochStart(b)][key]

\* The stake storages kept are those of the epochs in memory, no more (a deleted
\* epoch leaks nothing) and no less (RemoveOldEpochData).
StoredEpochs == store.stored = {b \in DOMAIN history \ {0} : b >= store.earliest}

\* The next epoch starts where GetCurrentNextEpoch says it will in every block
\* before, while more than one epoch is in memory (with only one, a pending
\* change of EpochBlocks moves the answer and not the epoch).
NextEpochForeseen ==
    [][store'.start # store.start /\ store.earliest # store.start =>
        store'.start = GetCurrentNextEpoch(store, height)]_epochVars
=============================================================================
