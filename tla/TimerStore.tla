----------------------------- MODULE TimerStore -----------------------------
(***************************************************************************)
(* x/timerstore: timers that expire at a block height or a block time.     *)
(* The store keeps, per kind, the timers ordered by <<expiry, key>> and    *)
(* the cached next timeout that lets Tick return without looking at them.  *)
(* The loop of tickValue is modelled step by step because the callbacks it *)
(* makes may themselves add and delete timers of either kind.              *)
(***************************************************************************)
EXTENDS Integers, FiniteSets

CONSTANTS
    Keys,        \* timer keys, numbers so that they are ordered like byte strings
    Data,        \* what the user stores with a timer
    None,        \* no timer
    MaxHeight,   \* bound: the last block height
    MaxTime      \* bound: the last block timestamp

VARIABLES
    timers,      \* [TimerTypes -> set of timers], the Timer_Value_ sub-stores
    nextTimeout, \* [TimerTypes -> Nat], the Timer_Next_ sub-store
    now,         \* [TimerTypes -> Nat]: height and timestamp of the ctx
    last,        \* [TimerTypes -> Int]: the same of the block before (for the properties)
    phase,       \* "block", or the TimerType tickValue is processing
    stage,       \* tickValue is at its "test" of the next timeout, or in its "loop"
    callback     \* the timer whose callback is running, or None

vars == <<timers, nextTimeout, now, last, phase, stage, callback>>

TimerTypes == {"BlockHeight", "BlockTime"}

ASSUME KeysAssumption  == Keys \subseteq Nat
ASSUME BoundAssumption == MaxHeight \in Nat /\ MaxTime \in Nat
ASSUME NoneAssumption  == None \notin [which: TimerTypes, value: Nat, key: Keys, data: Data]

\* math.MaxUint64: above every height and time the model reaches.
MaxUint64 == MaxHeight + MaxTime + 1

Bound(w) == IF w = "BlockHeight" THEN MaxHeight ELSE MaxTime

\* GenesisTimerEntry, with the sub-store it is kept in.
Timer == [which: TimerTypes, value: Nat, key: Keys, data: Data]

\* getStoreTimer: the sub-store a timer is kept in.
SubStoreSame(t) == "BlockHeight"
SubStore(t) == t.which

\* addTimer: the cached next timeout after a timer for v is added.
LowerNever(next, v) == next
Lowered(next, v) == IF v < next THEN v ELSE next

\* tickValue: a timer that expires at v is due at tick.
IsDueLate(v, tick) == v < tick
IsDue(v, tick) == v <= tick

\* The order of EncodeBlockAndKey's big-endian keys.
ByKeyOnly(t, u) == t.key < u.key \/ (t.key = u.key /\ t.value <= u.value)
NotLater(t, u) == t.value < u.value \/ (t.value = u.value /\ t.key <= u.key)

\* getFrontTimer: the first timer of the iterator.
IsFront(w, t) == t \in timers[w] /\ \A u \in timers[w] : NotLater(t, u)

UserRuns == phase = "block" \/ callback # None

After(w) == IF w = "BlockHeight" THEN "BlockTime" ELSE "block"

-----------------------------------------------------------------------------
\* DefaultGenesis.
Init ==
    /\ timers = [w \in TimerTypes |-> {}]
    /\ nextTimeout = [w \in TimerTypes |-> MaxUint64]
    /\ now = [w \in TimerTypes |-> 0]
    /\ last = [w \in TimerTypes |-> -1]
    /\ phase = "block"
    /\ stage = "test"
    /\ callback = None

\* Keeper.BeginBlock (EndBlock for the end-block stores) of the next block
\* calls Tick, which processes the height timers first.
BeginBlock(dt) ==
    /\ phase = "block"
    /\ now["BlockHeight"] < MaxHeight
    /\ now["BlockTime"] + dt <= MaxTime
    /\ now' = [w \in TimerTypes |-> IF w = "BlockHeight" THEN now[w] + 1 ELSE now[w] + dt]
    /\ last' = now
    /\ phase' = "BlockHeight"
    /\ UNCHANGED <<timers, nextTimeout, stage, callback>>

\* AddTimerByBlockHeight, AddTimerByBlockTime and addTimer.  A past expiry
\* makes the code panic: callers never pass one.
AddTimer(t) ==
    /\ UserRuns
    /\ t.value > now[t.which]
    /\ timers' = [timers EXCEPT ![SubStore(t)] =
                    {u \in @ : ~(u.value = t.value /\ u.key = t.key)} \cup {t}]
    /\ nextTimeout' = [nextTimeout EXCEPT ![SubStore(t)] = Lowered(@, t.value)]
    /\ UNCHANGED <<now, last, phase, stage, callback>>

\* DelTimerByBlockHeight, DelTimerByBlockTime and delTimer: the cached next
\* timeout stays as it is.
DelTimer(t) ==
    /\ UserRuns
    /\ t \in timers[SubStore(t)]
    /\ timers' = [timers EXCEPT ![SubStore(t)] = @ \ {t}]
    /\ UNCHANGED <<nextTimeout, now, last, phase, stage, callback>>

\* tickValue, early return: the cached next timeout is later than the tick.
TickSkip(w) ==
    /\ phase = w /\ stage = "test"
    /\ now[w] < nextTimeout[w]
    /\ phase' = After(w)
    /\ UNCHANGED <<timers, nextTimeout, now, last, stage, callback>>

\* tickValue enters its loop.
TickLoop(w) ==
    /\ phase = w /\ stage = "test"
    /\ now[w] >= nextTimeout[w]
    /\ stage' = "loop"
    /\ UNCHANGED <<timers, nextTimeout, now, last, phase, callback>>

\* One iteration of the loop: the front timer is due, it is deleted and its
\* callback is called.
TickFire(w, t) ==
    /\ phase = w /\ stage = "loop" /\ callback = None
    /\ IsFront(w, t) /\ IsDue(t.value, now[w])
    /\ timers' = [timers EXCEPT ![w] = @ \ {t}]
    /\ callback' = t
    /\ UNCHANGED <<nextTimeout, now, last, phase, stage>>

\* The callback returns to the loop.
CallbackReturn ==
    /\ callback # None
    /\ callback' = None
    /\ UNCHANGED <<timers, nextTimeout, now, last, phase, stage>>

\* The loop ends at the first timer that is not due, or (MaxUint64) when no
\* timer is left, and records it as the next timeout.
TickStop(w) ==
    /\ phase = w /\ stage = "loop" /\ callback = None
    /\ \/ /\ timers[w] = {}
          /\ nextTimeout' = [nextTimeout EXCEPT ![w] = MaxUint64]
       \/ \E t \in timers[w] :
            /\ IsFront(w, t) /\ ~IsDue(t.value, now[w])
            /\ nextTimeout' = [nextTimeout EXCEPT ![w] = t.value]
    /\ phase' = After(w)
    /\ stage' = "test"
    /\ UNCHANGED <<timers, now, last, callback>>

Earliest(S) == CHOOSE v \in S : \A u \in S : v <= u

\* Export between blocks and Init of the new chain from the exported state:
\* the recorded next timeout, then addTimer of every timer.
ExportInit ==
    /\ phase = "block"
    /\ nextTimeout' = [w \in TimerTypes |-> Earliest({nextTimeout[w]} \cup {t.value : t \in timers[w]})]
    /\ UNCHANGED <<timers, now, last, phase, stage, callback>>

Next ==
    \/ \E dt \in 0..MaxTime : BeginBlock(dt)
    \/ \E w \in TimerTypes, k \in Keys, d \in Data : \E v \in 1..Bound(w) :
         AddTimer([which |-> w, value |-> v, key |-> k, data |-> d])
    \/ \E w \in TimerTypes : \E t \in timers[w] : DelTimer(t)
    \/ \E w \in TimerTypes : TickSkip(w) \/ TickLoop(w) \/ TickStop(w)
    \/ \E w \in TimerTypes : \E t \in timers[w] : TickFire(w, t)
    \/ CallbackReturn
    \/ ExportInit

\* Blocks keep coming, and the execution of a block runs to its end.
Fairness ==
    /\ WF_vars(\E dt \in 0..MaxTime : BeginBlock(dt))
    /\ \A w \in TimerTypes :
         WF_vars(TickSkip(w) \/ TickLoop(w) \/ TickStop(w) \/ \E t \in timers[w] : TickFire(w, t))
    /\ WF_vars(CallbackReturn)

Spec == Init /\ [][Next]_vars /\ Fairness

-----------------------------------------------------------------------------
TypeOK ==
    /\ timers \in [TimerTypes -> SUBSET Timer]
    /\ \A w \in TimerTypes : \A t \in timers[w] : t.which = w
    /\ nextTimeout \in [TimerTypes -> Nat]
    /\ now \in [TimerTypes -> Nat]
    /\ last \in [TimerTypes -> Int]
    /\ phase \in TimerTypes \cup {"block"}
    /\ stage \in {"test", "loop"}
    /\ callback \in Timer \cup {None}

\* The cached next timeout is never later than the expiry of a pending timer,
\* whatever users and callbacks add and delete while tickValue is looping:
\* otherwise the early return of tickValue would skip a due timer.
NextTimeoutSafe ==
    \A w \in TimerTypes : \A t \in timers[w] : nextTimeout[w] <= t.value

\* Once Tick is over, nothing that expired up to this block is still pending,
\* not even a timer that some callback of this very tick added.
NoOverdueTimer ==
    \A w \in TimerTypes : \A t \in timers[w] :
        phase = "block" => t.value > now[w]

\* A timer is handed to its callback in the first block that reaches its
\* expiry: not before, and never one block late.
FiresAtFirstBlock ==
    callback # None =>
        last[callback.which] < callback.value /\ callback.value <= now[callback.which]

\* The store implements the timer service: the cached next timeout is not
\* visible, timers fire in the order of <<expiry, key>>, and a tick ends only
\* when nothing is due.
Service == INSTANCE TimerService WITH pending <- timers
ImplementsTimerService == Service!Spec

\* A block-height timer does not stay pending for ever: it fires or is deleted.
HeightTimerLeaves ==
    \A t \in [which: {"BlockHeight"}, value: 1..MaxHeight, key: Keys, data: Data] :
        t \in timers["BlockHeight"] ~> t \notin timers["BlockHeight"]
=============================================================================
