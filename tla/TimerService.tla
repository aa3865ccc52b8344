---------------------------- MODULE TimerService ----------------------------
(***************************************************************************)
(* What x/timerstore promises its users (the package comment of            *)
(* x/timerstore/types/timer.go): a timer added for a future block height   *)
(* or block time is handed to the callback in the first block that reaches *)
(* its expiry, timers of one kind in the order of <<expiry, key>>, unless  *)
(* it is deleted first.  There is no cached "next timeout" here: that      *)
(* cache is an optimisation of the implementation (TimerStore) and must    *)
(* not be visible.                                                         *)
(***************************************************************************)
EXTENDS Integers

CONSTANTS
    Keys,        \* timer keys, numbers so that they are ordered like byte strings
    Data,        \* what the user stores with a timer
    None,        \* no timer
    MaxHeight,   \* bound: the last block height
    MaxTime      \* bound: the last block timestamp, and the last expiry

\* type TimerType: the two clocks a timer may follow.
TimerTypes == {"BlockHeight", "BlockTime"}

VARIABLES
    pending,     \* [TimerTypes -> set of timers]
    now,         \* [TimerTypes -> Nat]: height and timestamp of the current block
    phase,       \* "block", or the TimerType whose timers are being fired
    callback     \* the timer whose callback is running, or None

vars == <<pending, now, phase, callback>>

\* The timer kind processed after w; "block" when the tick is complete.
After(w) == IF w = "BlockHeight" THEN "BlockTime" ELSE "block"

\* Timers of one kind are ordered by expiry, then by key.
NotLater(t, u) == t.value < u.value \/ (t.value = u.value /\ t.key <= u.key)

\* Code of a user (a transaction, another module, or a callback) is running.
UserRuns == phase = "block" \/ callback # None

Init ==
    /\ pending = [w \in TimerTypes |-> {}]
    /\ now = [w \in TimerTypes |-> 0]
    /\ phase = "block"
    /\ callback = None

\* A new block: one height further, dt seconds later.
NewBlock(dt) ==
    /\ phase = "block"
    /\ now["BlockHeight"] < MaxHeight
    /\ now["BlockTime"] + dt <= MaxTime
    /\ now' = [w \in TimerTypes |-> IF w = "BlockHeight" THEN now[w] + 1 ELSE now[w] + dt]
    /\ phase' = "BlockHeight"
    /\ UNCHANGED <<pending, callback>>

Add(t) ==
    /\ UserRuns
    /\ t.value > now[t.which]
    /\ pending' = [pending EXCEPT ![t.which] =
                     {u \in @ : ~(u.value = t.value /\ u.key = t.key)} \cup {t}]
    /\ UNCHANGED <<now, phase, callback>>

Remove(t) ==
    /\ UserRuns
    /\ t \in pending[t.which]
    /\ pending' = [pending EXCEPT ![t.which] = @ \ {t}]
    /\ UNCHANGED <<now, phase, callback>>

\* The earliest timer of the kind being processed is due: it fires.
Fire(w, t) ==
    /\ phase = w /\ callback = None
    /\ t \in pending[w] /\ t.value <= now[w]
    /\ \A u \in pending[w] : NotLater(t, u)
    /\ pending' = [pending EXCEPT ![w] = @ \ {t}]
    /\ callback' = t
    /\ UNCHANGED <<now, phase>>

Return ==
    /\ callback # None
    /\ callback' = None
    /\ UNCHANGED <<pending, now, phase>>

\* A kind is done only when none of its timers is due.
Done(w) ==
    /\ phase = w /\ callback = None
    /\ \A t \in pending[w] : t.value > now[w]
    /\ phase' = After(w)
    /\ UNCHANGED <<pending, now, callback>>

Next ==
    \/ \E dt \in 0..MaxTime : NewBlock(dt)
    \/ \E w \in TimerTypes, v \in 1..(MaxHeight + MaxTime), k \in Keys, d \in Data :
         Add([which |-> w, value |-> v, key |-> k, data |-> d])
    \/ \E w \in TimerTypes : \E t \in pending[w] : Remove(t)
    \/ \E w \in TimerTypes : Done(w) \/ \E t \in pending[w] : Fire(w, t)
    \/ Return

Spec == Init /\ [][Next]_vars
=============================================================================
