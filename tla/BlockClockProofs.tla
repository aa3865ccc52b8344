-------------------------- MODULE BlockClockProofs --------------------------
(***************************************************************************)
(* The two stores that follow the block height, the timer store and the    *)
(* epoch storage; their modules share no state.                            *)
(*                                                                         *)
(* For every set of keys, every data and any bounds, the timer store is    *)
(* type correct, its cached next timeout is safe, no timer is overdue or   *)
(* fires early or late, and it implements the timer service.  For any      *)
(* parameters, any number of their changes and any length of the chain,    *)
(* the epoch storage answers truthfully about the epochs in memory.        *)
(***************************************************************************)
EXTENDS TimerStore, EpochStorage, SumTheorems

-----------------------------------------------------------------------------
(* The timer store: its inductive invariant. *)

\* Control: a callback runs only inside the loop of its own kind.
ControlInv ==
    /\ stage = "loop" => phase \in TimerTypes
    /\ callback # None => stage = "loop" /\ phase = callback.which

\* Nothing of a kind is overdue outside the part of the tick that handles it.
Settled(w) ==
    \/ phase = "BlockHeight"
    \/ phase = "BlockTime" /\ w = "BlockTime"
    \/ \A t \in timers[w] : t.value > now[w]

\* The previous block was not later than this one.
LastBeforeNow == \A w \in TimerTypes : last[w] <= now[w]

\* No pending timer expired before the current block.
NotMissed == \A w \in TimerTypes : \A t \in timers[w] : t.value > last[w]

\* The inductive invariant.
IInv ==
    /\ TypeOK
    /\ ControlInv
    /\ NextTimeoutSafe
    /\ \A w \in TimerTypes : Settled(w)
    /\ LastBeforeNow
    /\ NotMissed
    /\ FiresAtFirstBlock

\* Importing an exported state changes nothing: the exported next timeout is
\* already the earliest value.
LEMMA ExportInitStutters ==
    TypeOK /\ NextTimeoutSafe /\ ExportInit => UNCHANGED vars
<1> SUFFICES ASSUME TypeOK, NextTimeoutSafe, ExportInit PROVE nextTimeout' = nextTimeout
  BY DEF ExportInit, vars
<1>1. ASSUME NEW w \in TimerTypes
      PROVE  Earliest({nextTimeout[w]} \cup {t.value : t \in timers[w]}) = nextTimeout[w]
  <2> DEFINE S == {nextTimeout[w]} \cup {t.value : t \in timers[w]}
  <2>1. \A u \in S : u \in Nat /\ nextTimeout[w] <= u
    BY DEF TypeOK, NextTimeoutSafe, Timer
  <2>2. nextTimeout[w] \in S
    OBVIOUS
  <2> HIDE DEF S
  <2>3. \E v \in S : \A u \in S : v <= u
    BY <2>1, <2>2
  <2>4. Earliest(S) \in S /\ \A u \in S : Earliest(S) <= u
    BY <2>3 DEF Earliest
  <2>5. Earliest(S) = nextTimeout[w]
    BY <2>1, <2>2, <2>4
  <2> QED BY <2>5 DEF S
<1> QED BY <1>1 DEF ExportInit, TypeOK

\* The types hold before the first block.
LEMMA TypeInit == Init => TypeOK
  BY BoundAssumption DEF Init, TypeOK, TimerTypes, MaxUint64, Timer

\* Every step keeps the types.
LEMMA TypeNext == TypeOK /\ NextTimeoutSafe /\ [Next]_vars => TypeOK'
<1> SUFFICES ASSUME TypeOK, NextTimeoutSafe, [Next]_vars PROVE TypeOK'
  OBVIOUS
<1> USE BoundAssumption
<1>1. CASE \E dt \in 0..MaxTime : BeginBlock(dt)
  <2>1. PICK dt \in 0..MaxTime : BeginBlock(dt)  BY <1>1
  <2> QED BY <2>1 DEF BeginBlock, TypeOK, TimerTypes
<1>2. ASSUME NEW w \in TimerTypes, NEW k \in Keys, NEW d \in Data, NEW v \in 1..Bound(w),
             AddTimer([which |-> w, value |-> v, key |-> k, data |-> d])
      PROVE  TypeOK'
  <2> DEFINE t == [which |-> w, value |-> v, key |-> k, data |-> d]
  <2>0. v \in Nat  BY BoundAssumption DEF Bound, TimerTypes
  <2>1. t \in Timer /\ t.which = w /\ t.value = v /\ t.key = k BY <2>0 DEF Timer
  <2> HIDE DEF t
  <2>2. AddTimer(t)  BY <1>2 DEF t
  <2>3. timers' \in [TimerTypes -> SUBSET Timer] /\ nextTimeout' \in [TimerTypes -> Nat]
    BY <2>0, <2>1, <2>2 DEF AddTimer, TypeOK, SubStore, Lowered
  <2>4. \A x \in TimerTypes : \A u \in timers'[x] : u.which = x
    BY <2>1, <2>2 DEF AddTimer, TypeOK, SubStore
  <2> QED BY <2>2, <2>3, <2>4 DEF AddTimer, TypeOK
<1>3. ASSUME NEW w \in TimerTypes, NEW t \in timers[w], DelTimer(t)  PROVE TypeOK'
  BY <1>3 DEF DelTimer, TypeOK, SubStore
<1>4. ASSUME NEW w \in TimerTypes, TickSkip(w)  PROVE TypeOK'
  BY <1>4 DEF TickSkip, TypeOK, After, TimerTypes
<1>5. ASSUME NEW w \in TimerTypes, TickLoop(w)  PROVE TypeOK'
  BY <1>5 DEF TickLoop, TypeOK
<1>6. ASSUME NEW w \in TimerTypes, TickStop(w)  PROVE TypeOK'
  <2>1. nextTimeout' \in [TimerTypes -> Nat]
    BY <1>6 DEF TickStop, TypeOK, MaxUint64, Timer
  <2> QED BY <1>6, <2>1 DEF TickStop, TypeOK, After, TimerTypes
<1>7. ASSUME NEW w \in TimerTypes, NEW t \in timers[w], TickFire(w, t)  PROVE TypeOK'
  BY <1>7 DEF TickFire, TypeOK
<1>8. CASE CallbackReturn
  BY <1>8 DEF CallbackReturn, TypeOK
<1>9. CASE ExportInit
  BY <1>9, ExportInitStutters DEF vars, TypeOK
<1>10. CASE UNCHANGED vars
  BY <1>10 DEF vars, TypeOK
<1> QED BY <1>1, <1>2, <1>3, <1>4, <1>5, <1>6, <1>7, <1>8, <1>9, <1>10 DEF Next

\* So does the inductive invariant.
LEMMA InvInit == Init => IInv
<1> SUFFICES ASSUME Init PROVE IInv
  OBVIOUS
<1>1. TypeOK  BY TypeInit
<1> QED BY <1>1 DEF Init, IInv, ControlInv, NextTimeoutSafe, Settled, NotMissed, LastBeforeNow,
                FiresAtFirstBlock, TimerTypes

\* Every step keeps the inductive invariant.
LEMMA InvNext == IInv /\ [Next]_vars => IInv'
<1> SUFFICES ASSUME IInv, [Next]_vars PROVE IInv'
  OBVIOUS
<1>0. TypeOK'  BY TypeNext DEF IInv
<1>a. None \notin Timer  BY NoneAssumption DEF Timer
<1> USE DEF IInv, ControlInv, NextTimeoutSafe, Settled, NotMissed, LastBeforeNow, FiresAtFirstBlock
<1>1. ASSUME NEW dt \in 0..MaxTime, BeginBlock(dt)  PROVE IInv'
  <2>1. ControlInv' /\ NextTimeoutSafe' /\ FiresAtFirstBlock' /\ LastBeforeNow' /\ phase' = "BlockHeight"
    BY <1>1 DEF BeginBlock, TimerTypes, TypeOK
  <2>2. NotMissed'
    BY <1>1 DEF BeginBlock, TypeOK
  <2> QED BY <1>0, <2>1, <2>2
<1>2. ASSUME NEW w \in TimerTypes, NEW k \in Keys, NEW d \in Data, NEW v \in 1..Bound(w),
             AddTimer([which |-> w, value |-> v, key |-> k, data |-> d])
      PROVE  IInv'
  <2> DEFINE t == [which |-> w, value |-> v, key |-> k, data |-> d]
  <2>0. v \in Nat  BY BoundAssumption DEF Bound, TimerTypes
  <2>1. t \in Timer /\ t.which = w /\ t.value = v  BY <2>0 DEF Timer
  <2> HIDE DEF t
  <2>2. AddTimer(t)  BY <1>2 DEF t
  <2>3. \A x \in TimerTypes : \A u \in timers'[x] : u \in timers[x] \/ (x = w /\ u = t)
    BY <2>1, <2>2 DEF AddTimer, TypeOK, SubStore
  <2>4. v > now[w] /\ UNCHANGED <<now, last, phase, stage, callback>>
    BY <2>1, <2>2 DEF AddTimer
  <2>5. NextTimeoutSafe'
    <3>1. nextTimeout'[w] <= v /\ \A x \in TimerTypes : nextTimeout'[x] <= nextTimeout[x]
      BY <2>0, <2>1, <2>2 DEF AddTimer, SubStore, Lowered, TypeOK
    <3>2. nextTimeout' \in [TimerTypes -> Nat] /\ timers' \in [TimerTypes -> SUBSET Timer]
      BY <1>0 DEF TypeOK
    <3> QED BY <2>0, <2>1, <2>3, <3>1, <3>2 DEF TypeOK, Timer
  <2>6. \A x \in TimerTypes : Settled(x)'
    BY <2>1, <2>3, <2>4
  <2>7. last[w] < v
    BY <2>0, <2>4 DEF TypeOK
  <2>8. NotMissed'
    BY <2>1, <2>3, <2>4, <2>7
  <2> QED BY <1>0, <2>4, <2>5, <2>6, <2>8
<1>3. ASSUME NEW w \in TimerTypes, NEW t \in timers[w], DelTimer(t)  PROVE IInv'
  <2>1. \A x \in TimerTypes : timers'[x] \subseteq timers[x]
    BY <1>3 DEF DelTimer, SubStore, TypeOK
  <2> QED BY <1>0, <1>3, <2>1 DEF DelTimer
<1>4. ASSUME NEW w \in TimerTypes, TickSkip(w)  PROVE IInv'
  <2>1. \A t \in timers[w] : t.value > now[w]
    BY <1>4 DEF TickSkip, TypeOK, Timer
  <2> QED BY <1>0, <1>4, <2>1 DEF TickSkip, After, TimerTypes
<1>5. ASSUME NEW w \in TimerTypes, TickLoop(w)  PROVE IInv'
  BY <1>0, <1>5 DEF TickLoop
<1>6. ASSUME NEW w \in TimerTypes, TickStop(w)  PROVE IInv'
  <2>1. \A t \in timers[w] : t.value > now[w] /\ nextTimeout'[w] <= t.value
    BY <1>6 DEF TickStop, TypeOK, Timer, IsFront, NotLater, IsDue
  <2>2. \A x \in TimerTypes : x # w => nextTimeout'[x] = nextTimeout[x]
    BY <1>6 DEF TickStop, TypeOK
  <2> QED BY <1>0, <1>6, <2>1, <2>2 DEF TickStop, After, TimerTypes
<1>7. ASSUME NEW w \in TimerTypes, NEW t \in timers[w], TickFire(w, t)  PROVE IInv'
  <2>1. \A x \in TimerTypes : timers'[x] \subseteq timers[x]
    BY <1>7 DEF TickFire, TypeOK
  <2>2. t.which = w /\ t \in Timer
    BY <1>7 DEF TypeOK
  <2> QED BY <1>0, <1>7, <2>1, <2>2 DEF TickFire, IsDue
<1>8. CASE CallbackReturn
  BY <1>0, <1>8 DEF CallbackReturn
<1>9. CASE ExportInit
  BY <1>0, <1>9, ExportInitStutters DEF vars
<1>10. CASE UNCHANGED vars
  BY <1>0, <1>10 DEF vars
<1> QED BY <1>1, <1>2, <1>3, <1>4, <1>5, <1>6, <1>7, <1>8, <1>9, <1>10 DEF Next

\* It holds in every reachable state.
LEMMA Invariance == Spec => []IInv
  BY InvInit, InvNext, PTL DEF Spec

\* The type invariant holds in every reachable state, whatever the keys,
\* data and bounds.
THEOREM TypeCorrect == Spec => []TypeOK
<1>1. IInv => TypeOK  BY DEF IInv
<1> QED BY <1>1, Invariance, PTL

\* The early return of tickValue never skips a due timer: the cached next
\* timeout is at most the expiry of every pending timer.
THEOREM NextTimeoutIsSafe == Spec => []NextTimeoutSafe
<1>1. IInv => NextTimeoutSafe  BY DEF IInv
<1> QED BY <1>1, Invariance, PTL

\* Once Tick is over no expired timer is left pending.
THEOREM NothingOverdue == Spec => []NoOverdueTimer
<1>1. IInv => NoOverdueTimer  BY DEF IInv, Settled, NoOverdueTimer
<1> QED BY <1>1, Invariance, PTL

\* A callback runs in the first block that reaches the expiry of its timer.
THEOREM FiresOnTime == Spec => []FiresAtFirstBlock
<1>1. IInv => FiresAtFirstBlock  BY DEF IInv
<1> QED BY <1>1, Invariance, PTL

\* Every step of the store is a step of the timer service, or no visible step.
LEMMA StepRefines == IInv /\ [Next]_vars => [Service!Next]_(Service!vars)
<1> SUFFICES ASSUME IInv, [Next]_vars PROVE [Service!Next]_(Service!vars)
  OBVIOUS
<1> USE DEF Service!vars, Service!UserRuns, UserRuns
<1>a. Service!TimerTypes = TimerTypes  BY DEF Service!TimerTypes, TimerTypes
<1>b. TypeOK  BY DEF IInv
<1>1. ASSUME NEW dt \in 0..MaxTime, BeginBlock(dt)  PROVE Service!Next
  <2>1. Service!NewBlock(dt)  BY <1>1, <1>a DEF BeginBlock, Service!NewBlock
  <2> QED BY <2>1 DEF Service!Next
<1>2. ASSUME NEW w \in TimerTypes, NEW k \in Keys, NEW d \in Data, NEW v \in 1..Bound(w),
             AddTimer([which |-> w, value |-> v, key |-> k, data |-> d])
      PROVE  Service!Next
  <2>1. Service!Add([which |-> w, value |-> v, key |-> k, data |-> d])
    BY <1>2 DEF AddTimer, Service!Add, SubStore
  <2>2. v \in 1..(MaxHeight + MaxTime)
    BY BoundAssumption DEF Bound
  <2> QED BY <1>a, <2>1, <2>2 DEF Service!Next
<1>3. ASSUME NEW w \in TimerTypes, NEW t \in timers[w], DelTimer(t)  PROVE Service!Next
  <2>1. Service!Remove(t)  BY <1>3 DEF DelTimer, Service!Remove, SubStore
  <2> QED BY <1>a, <2>1 DEF Service!Next
<1>4. ASSUME NEW w \in TimerTypes, TickSkip(w)  PROVE Service!Next
  <2>1. \A t \in timers[w] : t.value > now[w]
    BY <1>4, <1>b DEF TickSkip, IInv, NextTimeoutSafe, TypeOK, Timer
  <2>2. callback = None
    BY <1>4 DEF TickSkip, IInv, ControlInv
  <2>3. Service!Done(w)
    BY <1>4, <2>1, <2>2 DEF TickSkip, Service!Done, After, Service!After
  <2> QED BY <1>a, <2>3 DEF Service!Next
<1>5. ASSUME NEW w \in TimerTypes, TickLoop(w)  PROVE UNCHANGED Service!vars
  BY <1>5 DEF TickLoop
<1>6. ASSUME NEW w \in TimerTypes, TickStop(w)  PROVE Service!Next
  <2>1. \A t \in timers[w] : t.value > now[w]
    BY <1>6, <1>b DEF TickStop, TypeOK, Timer, IsFront, NotLater, IsDue
  <2>2. Service!Done(w)
    BY <1>6, <2>1 DEF TickStop, Service!Done, After, Service!After
  <2> QED BY <1>a, <2>2 DEF Service!Next
<1>7. ASSUME NEW w \in TimerTypes, NEW t \in timers[w], TickFire(w, t)  PROVE Service!Next
  <2>1. Service!Fire(w, t)
    BY <1>7 DEF TickFire, Service!Fire, IsFront, NotLater, Service!NotLater, IsDue
  <2> QED BY <1>a, <2>1 DEF Service!Next
<1>8. CASE CallbackReturn
  <2>1. Service!Return  BY <1>8 DEF CallbackReturn, Service!Return
  <2> QED BY <2>1 DEF Service!Next
<1>9. CASE ExportInit
  BY <1>9, <1>b, ExportInitStutters DEF vars, IInv
<1>10. CASE UNCHANGED vars
  BY <1>10 DEF vars
<1> QED BY <1>1, <1>2, <1>3, <1>4, <1>5, <1>6, <1>7, <1>8, <1>9, <1>10 DEF Next

\* The store, with its cached next timeout, implements the timer service.
THEOREM RefinesTimerService == Spec => ImplementsTimerService
<1>1. Init => Service!Init
  BY DEF Init, Service!Init, TimerTypes, Service!TimerTypes
<1> QED BY <1>1, StepRefines, Invariance, PTL
        DEF Spec, ImplementsTimerService, Service!Spec

-----------------------------------------------------------------------------
(* The epoch storage: its inductive invariant. *)

Versions == UNION {[D -> Nat] : D \in SUBSET Nat}
Store ==
    [params : Params, change : Nat, fixated : [FixationKeys -> Versions], start : Nat,
     earliest : Nat, deleted : SUBSET Nat, stored : SUBSET Nat, panic : BOOLEAN]

\* The length of the epoch that began at h.
Length(H, h) == H[h]["EpochBlocks"]

\* H gives the parameters of the epochs from block 0 to the one that begins at start,
\* each of which begins where the one before it ends.
Calendar(H, start) ==
    /\ DOMAIN H \in SUBSET Nat /\ H \in [DOMAIN H -> Params]
    /\ 0 \in DOMAIN H /\ start \in DOMAIN H
    /\ \A h \in DOMAIN H : h <= start
    /\ \A h \in DOMAIN H : h # start => h + Length(H, h) \in DOMAIN H
    /\ \A h, g \in DOMAIN H : h < g => h + Length(H, h) <= g

\* The version b of a parameter is the last one at block n.
InForce(f, b, n) == b \in DOMAIN f /\ b <= n /\ \A c \in DOMAIN f : c <= n => c <= b

\* The versions of a parameter begin with epochs, reach back to the earliest epoch in
\* memory, and give each epoch its value; epochs are counted from the version on.
Truthful(f, key, H, earliest) ==
    /\ DOMAIN f \in SUBSET DOMAIN H
    /\ \E b \in DOMAIN f : b <= earliest
    /\ \A h \in DOMAIN H, b \in DOMAIN f : InForce(f, b, h) =>
         /\ f[b] = H[h][key]
         /\ key = "EpochBlocks" => (h - b) % f[b] = 0

\* A version that is not needed for the earliest epoch is not older than the last
\* change, which came in the epoch before it or later.
Recent(f, H, earliest, change) ==
    \A b \in DOMAIN f : b > earliest => \E p \in DOMAIN H : p <= change /\ p + Length(H, p) = b

\* Parameters that differ from those of this epoch were changed in this epoch.
Announced(st, H) ==
    \A key \in FixationKeys :
        st.params[key] # H[st.start][key] => st.change >= st.start /\ st.change > 0

\* The epochs in memory, and those that were deleted last.
Remembered(st, H) ==
    /\ st.earliest \in DOMAIN H
    /\ st.stored = {b \in DOMAIN H \ {0} : b >= st.earliest}
    /\ \A d \in st.deleted : d < st.earliest

Sound(st, H) ==
    /\ st \in Store /\ ~st.panic
    /\ Calendar(H, st.start)
    /\ \A key \in FixationKeys : Truthful(st.fixated[key], key, H, st.earliest)
    /\ \A key \in FixationKeys : Recent(st.fixated[key], H, st.earliest, st.change)
    /\ Announced(st, H)
    /\ Remembered(st, H)

EpochInv ==
    /\ height \in Nat /\ store.change <= height
    /\ store.start <= height /\ height < store.start + Length(history, store.start)
    /\ Sound(store, history)

-----------------------------------------------------------------------------
(* Numbers. *)

\* A bounded set of natural numbers has a greatest element, and that is its Max.
LEMMA GreatestNumber ==
    ASSUME NEW T \in SUBSET Nat, T # {}, NEW n \in Nat, \A x \in T : x <= n
    PROVE  Max(T) \in T /\ \A x \in T : x <= Max(T)
<1> DEFINE U == {n - x : x \in T}
<1>1. U \in SUBSET Nat /\ U # {}
  <2>1. \A x \in T : n - x \in Nat
    OBVIOUS
  <2> QED BY <2>1
<1>2. PICK m \in U : \A u \in U : m <= u
  <2> HIDE DEF U
  <2> QED BY <1>1, LeastNumber
<1>3. PICK x \in T : m = n - x
  BY <1>2
<1>4. \A y \in T : x >= y
  BY <1>2, <1>3
<1>5. Max(T) \in T /\ \A y \in T : Max(T) >= y
  BY <1>4 DEF Max
<1> QED BY <1>5

\* The Max of a set is the element that none exceeds.
LEMMA MaxIs ==
    ASSUME NEW T \in SUBSET Nat, NEW x \in T, \A y \in T : y <= x
    PROVE  Max(T) = x
<1>1. \A y \in T : x >= y
  OBVIOUS
<1>2. Max(T) \in T /\ \A y \in T : Max(T) >= y
  BY <1>1 DEF Max
<1>3. \A m \in T : m >= x => m = x
  OBVIOUS
<1> HIDE DEF Max
<1> QED BY <1>2, <1>3

\* Remainders of a multiple of n and what follows it.
LEMMA Remainder ==
    ASSUME NEW n \in Nat \ {0}, NEW a \in Nat, a % n = 0
    PROVE  /\ \A r \in 0..(n - 1) : (a + r) % n = r
           /\ (a + n) % n = 0
<1> DEFINE q == a \div n
<1>1. a = q * n /\ q \in Nat
  BY SMT
<1> HIDE DEF q
<1>2. ASSUME NEW r \in 0..(n - 1) PROVE (a + r) % n = r
  <2> DEFINE d == (a + r) \div n
             m == (a + r) % n
  <2>1. d \in Nat /\ m \in 0..(n - 1) /\ a + r = d * n + m
    BY SMT
  <2> HIDE DEF d, m
  <2>2. q * n + r = d * n + m
    BY <1>1, <2>1
  <2>3. ~ (d < q)
    <3> SUFFICES ASSUME d < q PROVE FALSE
      OBVIOUS
    <3>1. (d + 1) * n <= q * n
      BY <1>1, <2>1
    <3> QED BY <1>1, <2>1, <2>2, <3>1
  <2>4. ~ (q < d)
    <3> SUFFICES ASSUME q < d PROVE FALSE
      OBVIOUS
    <3>1. (q + 1) * n <= d * n
      BY <1>1, <2>1
    <3> QED BY <1>1, <2>1, <2>2, <3>1
  <2>5. m = r
    BY <1>1, <2>1, <2>2, <2>3, <2>4
  <2> QED BY <2>5 DEF m
<1>3. (q + 1) * n = a + n /\ ((q + 1) * n) % n = 0
  BY <1>1, SMT
<1> QED BY <1>2, <1>3

-----------------------------------------------------------------------------
(* What the module says of a block. *)

\* The parts of a calendar.
LEMMA CalendarFacts ==
    ASSUME NEW H, NEW start, Calendar(H, start)
    PROVE  /\ DOMAIN H \in SUBSET Nat /\ 0 \in DOMAIN H /\ start \in DOMAIN H
           /\ \A h \in DOMAIN H :
                /\ h <= start /\ H[h] \in Params /\ Length(H, h) \in Nat \ {0}
                /\ H[h]["EpochsToSave"] \in Nat
                /\ h # start => h + Length(H, h) \in DOMAIN H
                /\ \A g \in DOMAIN H : h < g => h + Length(H, h) <= g
<1>1. \A h \in DOMAIN H : H[h] \in Params
  BY DEF Calendar
<1>2. \A p \in Params : p["EpochBlocks"] \in Nat \ {0} /\ p["EpochsToSave"] \in Nat
  BY EpochBlocksAssumption, EpochsToSaveAssumption DEF Params
<1> QED BY <1>1, <1>2 DEF Calendar, Length

\* A parameter that has a version has one in force.
LEMMA VersionExists ==
    ASSUME NEW f, DOMAIN f \in SUBSET Nat, NEW n \in Nat, NEW c \in DOMAIN f, c <= n
    PROVE  \E b \in DOMAIN f : InForce(f, b, n)
<1> DEFINE T == {b \in DOMAIN f : b <= n}
<1>1. T \in SUBSET Nat /\ T # {} /\ \A x \in T : x <= n
  OBVIOUS
<1>2. Max(T) \in T /\ \A x \in T : x <= Max(T)
  <2> HIDE DEF T
  <2> QED BY <1>1, GreatestNumber
<1> QED BY <1>2 DEF InForce

\* The version in force is the one that is used.
LEMMA VersionUsed ==
    ASSUME NEW st, NEW key, DOMAIN st.fixated[key] \in SUBSET Nat, NEW n \in Nat, NEW b,
           InForce(st.fixated[key], b, n)
    PROVE  /\ Known(st, key, n) /\ FixationBlock(st, key, n) = b
           /\ GetParamForBlock(st, key, n) = st.fixated[key][b]
<1> DEFINE T == {c \in DOMAIN st.fixated[key] : c <= n}
<1>1. T \in SUBSET Nat /\ b \in T /\ \A y \in T : y <= b
  BY DEF InForce
<1>2. Known(st, key, n)
  BY <1>1 DEF Known
<1>3. Max(T) = b
  <2> HIDE DEF T
  <2> QED BY <1>1, MaxIs
<1>4. FixationBlock(st, key, n) = b
  BY <1>2, <1>3 DEF FixationBlock
<1> QED BY <1>2, <1>4 DEF GetParamForBlock

\* No version begins within an epoch.
LEMMA SameVersion ==
    ASSUME NEW st, NEW H, Sound(st, H), NEW key \in FixationKeys, NEW h \in DOMAIN H,
           h >= st.earliest, NEW n \in Nat, h <= n,
           n < h + Length(H, h) \/ h = st.start
    PROVE  \E b \in DOMAIN st.fixated[key] :
             /\ InForce(st.fixated[key], b, h) /\ InForce(st.fixated[key], b, n)
             /\ b \in Nat /\ b <= h /\ st.fixated[key][b] = H[h][key]
             /\ key = "EpochBlocks" => (h - b) % st.fixated[key][b] = 0
<1> DEFINE f == st.fixated[key]
<1>1. Calendar(H, st.start) /\ Truthful(f, key, H, st.earliest) /\ st.earliest \in DOMAIN H
  BY DEF Sound, Remembered
<1>2. DOMAIN f \in SUBSET DOMAIN H /\ \E b \in DOMAIN f : b <= st.earliest
  BY <1>1 DEF Truthful
<1>3. /\ DOMAIN f \in SUBSET Nat /\ h \in Nat /\ st.earliest \in Nat
      /\ Length(H, h) \in Nat
      /\ \A g \in DOMAIN H : (h < g => h + Length(H, h) <= g) /\ g <= st.start /\ g \in Nat
  BY <1>1, <1>2, CalendarFacts
<1>4. PICK c \in DOMAIN f : c <= h
  BY <1>2, <1>3
<1> HIDE DEF f
<1>5. PICK b \in DOMAIN f : InForce(f, b, h)
  BY <1>3, <1>4, VersionExists
<1>6. b \in Nat /\ b <= h
  BY <1>3, <1>5 DEF InForce
<1>7. \A g \in DOMAIN f : g <= n => g <= h
  BY <1>2, <1>3
<1>8. InForce(f, b, n)
  BY <1>3, <1>5, <1>6, <1>7 DEF InForce
<1>9. f[b] = H[h][key] /\ (key = "EpochBlocks" => (h - b) % f[b] = 0)
  BY <1>1, <1>5 DEF Truthful
<1> QED BY <1>5, <1>6, <1>8, <1>9 DEF f

\* A block of an epoch in memory is known to belong to it, with its parameters.
LEMMA BlockOfEpoch ==
    ASSUME NEW st, NEW H, Sound(st, H), NEW h \in DOMAIN H, h >= st.earliest,
           NEW n \in Nat, h <= n, n < h + Length(H, h)
    PROVE  /\ BlockInEpoch(st, n) = n - h /\ GetEpochStartForBlock(st, n) = h
           /\ GetNextEpoch(st, n) = h + Length(H, h)
           /\ \A key \in FixationKeys :
                Known(st, key, n) /\ GetParamForBlock(st, key, n) = H[h][key]
<1>1. Calendar(H, st.start) /\ \A key \in FixationKeys : DOMAIN st.fixated[key] \in SUBSET DOMAIN H
  BY DEF Sound, Truthful
<1>2. /\ h \in Nat /\ Length(H, h) \in Nat \ {0}
      /\ \A key \in FixationKeys : DOMAIN st.fixated[key] \in SUBSET Nat
  BY <1>1, CalendarFacts
<1>3. ASSUME NEW key \in FixationKeys
      PROVE  Known(st, key, n) /\ GetParamForBlock(st, key, n) = H[h][key]
  <2>1. PICK b \in DOMAIN st.fixated[key] :
          InForce(st.fixated[key], b, n) /\ st.fixated[key][b] = H[h][key]
    BY SameVersion
  <2> QED BY <1>2, <2>1, VersionUsed
<1> DEFINE f == st.fixated["EpochBlocks"]
<1>4. "EpochBlocks" \in FixationKeys
  BY DEF FixationKeys
<1>5. PICK b \in DOMAIN f : /\ InForce(f, b, n) /\ b \in Nat /\ b <= h
                            /\ f[b] = Length(H, h) /\ (h - b) % f[b] = 0
  BY <1>4, SameVersion DEF Length
<1>6. FixationBlock(st, "EpochBlocks", n) = b /\ EpochBlocks(st, n) = Length(H, h)
  BY <1>2, <1>4, <1>5, VersionUsed DEF EpochBlocks
<1>7. ((h - b) + (n - h)) % Length(H, h) = n - h
  <2>1. h - b \in Nat /\ n - h \in 0..(Length(H, h) - 1)
    BY <1>2, <1>5
  <2> QED BY <1>2, <1>5, <2>1, Remainder
<1>8. (h - b) + (n - h) = n - b
  BY <1>2, <1>5
<1>9. BlockInEpoch(st, n) = n - h
  BY <1>6, <1>7, <1>8 DEF BlockInEpoch
<1>10. GetEpochStartForBlock(st, n) = h
  BY <1>2, <1>9 DEF GetEpochStartForBlock
<1> QED BY <1>3, <1>6, <1>9, <1>10 DEF GetNextEpoch

\* The block after the current epoch begins one.
LEMMA BlockAfterEpoch ==
    ASSUME NEW st, NEW H, Sound(st, H), NEW n \in Nat, n = st.start + Length(H, st.start)
    PROVE  BlockInEpoch(st, n) = 0 /\ GetEpochStartForBlock(st, n) = n
<1> DEFINE h == st.start
           f == st.fixated["EpochBlocks"]
<1>1. /\ Calendar(H, h) /\ DOMAIN f \in SUBSET DOMAIN H /\ "EpochBlocks" \in FixationKeys
      /\ st.earliest \in DOMAIN H
  BY DEF Sound, Truthful, FixationKeys, Remembered
<1>2. h \in DOMAIN H /\ h \in Nat /\ Length(H, h) \in Nat \ {0} /\ DOMAIN f \in SUBSET Nat /\ h >= st.earliest
  BY <1>1, CalendarFacts
<1>3. PICK b \in DOMAIN f : /\ InForce(f, b, n) /\ b \in Nat /\ b <= h
                            /\ f[b] = Length(H, h) /\ (h - b) % f[b] = 0
  BY <1>1, <1>2, SameVersion DEF Length
<1>4. FixationBlock(st, "EpochBlocks", n) = b /\ EpochBlocks(st, n) = Length(H, h)
  BY <1>1, <1>2, <1>3, VersionUsed DEF EpochBlocks
<1>5. ((h - b) + Length(H, h)) % Length(H, h) = 0
  <2>1. h - b \in Nat
    BY <1>2, <1>3
  <2> QED BY <1>2, <1>3, <2>1, Remainder
<1>6. (h - b) + Length(H, h) = n - b
  BY <1>2, <1>3
<1>7. BlockInEpoch(st, n) = 0
  BY <1>4, <1>5, <1>6 DEF BlockInEpoch
<1> QED BY <1>7 DEF GetEpochStartForBlock

-----------------------------------------------------------------------------
(* The fixation of parameters at the start of an epoch. *)

\* The calendar with the epoch that begins at n.
Longer(H, n, p) == [b \in DOMAIN H \cup {n} |-> IF b = n THEN p ELSE H[b]]

\* Epoch n follows the last epoch of the calendar.
Follows(H, start, n, p) ==
    /\ Calendar(H, start) /\ p \in Params
    /\ n \in Nat /\ n = start + Length(H, start)

\* The longer calendar.
LEMMA LongerCalendar ==
    ASSUME NEW H, NEW start, NEW n, NEW p, Follows(H, start, n, p)
    PROVE  /\ Calendar(Longer(H, n, p), n) /\ n \notin DOMAIN H /\ start < n
           /\ DOMAIN Longer(H, n, p) = DOMAIN H \cup {n} /\ Longer(H, n, p)[n] = p
           /\ \A h \in DOMAIN H : Longer(H, n, p)[h] = H[h] /\ h < n
<1> DEFINE L == Longer(H, n, p)
<1>1. Calendar(H, start) /\ p \in Params /\ n \in Nat /\ n = start + Length(H, start)
  BY DEF Follows
<1>2. /\ DOMAIN H \in SUBSET Nat /\ 0 \in DOMAIN H /\ start \in DOMAIN H
      /\ \A h \in DOMAIN H :
           /\ h <= start /\ H[h] \in Params /\ Length(H, h) \in Nat \ {0}
           /\ h # start => h + Length(H, h) \in DOMAIN H
           /\ \A g \in DOMAIN H : h < g => h + Length(H, h) <= g
  BY <1>1, CalendarFacts
<1>3. \A h \in DOMAIN H : h < n /\ h \in Nat
  BY <1>1, <1>2
<1>4. n \notin DOMAIN H /\ start < n
  BY <1>1, <1>2, <1>3
<1>5. /\ DOMAIN L = DOMAIN H \cup {n} /\ L[n] = p
      /\ \A h \in DOMAIN H : L[h] = H[h]
  BY <1>4 DEF Longer
<1>6. L \in [DOMAIN L -> Params]
  BY <1>1, <1>2 DEF Longer
<1>7. \A h \in DOMAIN H : Length(L, h) = Length(H, h)
  BY <1>5 DEF Length
<1> HIDE DEF L
<1>8. \A h \in DOMAIN L : h # n => h + Length(L, h) \in DOMAIN L
  BY <1>1, <1>2, <1>5, <1>7
<1>9. \A h, g \in DOMAIN L : h < g => h + Length(L, h) <= g
  <2> SUFFICES ASSUME NEW h \in DOMAIN L, NEW g \in DOMAIN L, h < g PROVE h + Length(L, h) <= g
    OBVIOUS
  <2>1. CASE h = n
    BY <1>1, <1>3, <1>5, <2>1
  <2>2. CASE h # n /\ g # n
    BY <1>2, <1>5, <1>7, <2>2
  <2>3. CASE h # n /\ g = n
    <3>1. h = start \/ h + Length(H, h) \in DOMAIN H
      BY <1>2, <1>5, <2>3
    <3> QED BY <1>1, <1>2, <1>3, <1>5, <1>7, <2>3, <3>1
  <2> QED BY <2>1, <2>2, <2>3
<1>10. Calendar(L, n)
  <2>1. DOMAIN L \in SUBSET Nat /\ 0 \in DOMAIN L /\ n \in DOMAIN L /\ \A h \in DOMAIN L : h <= n
    BY <1>1, <1>2, <1>3, <1>5
  <2> QED BY <1>6, <1>8, <1>9, <2>1 DEF Calendar
<1> QED BY <1>3, <1>4, <1>5, <1>10 DEF L

\* A parameter that has not changed needs no new version.
LEMMA VersionsLast ==
    ASSUME NEW H, NEW start, NEW n, NEW p, Follows(H, start, n, p),
           NEW key \in FixationKeys, NEW f, NEW earliest, Truthful(f, key, H, earliest),
           p[key] = H[start][key]
    PROVE  Truthful(f, key, Longer(H, n, p), earliest)
<1> DEFINE L == Longer(H, n, p)
<1>1. /\ DOMAIN f \in SUBSET DOMAIN H /\ \E b \in DOMAIN f : b <= earliest
      /\ \A h \in DOMAIN H, b \in DOMAIN f : InForce(f, b, h) =>
           f[b] = H[h][key] /\ (key = "EpochBlocks" => (h - b) % f[b] = 0)
  BY DEF Truthful
<1>2. /\ Calendar(H, start) /\ n \in Nat /\ n = start + Length(H, start)
  BY DEF Follows
<1>3. /\ start \in DOMAIN H /\ start \in Nat /\ Length(H, start) \in Nat \ {0}
      /\ DOMAIN H \in SUBSET Nat /\ \A h \in DOMAIN H : h <= start
  BY <1>2, CalendarFacts
<1>4. /\ DOMAIN L = DOMAIN H \cup {n} /\ L[n] = p
      /\ \A h \in DOMAIN H : L[h] = H[h] /\ h < n
  BY LongerCalendar DEF Longer
<1> HIDE DEF L
<1>5. ASSUME NEW b \in DOMAIN f, InForce(f, b, n)
      PROVE  f[b] = L[n][key] /\ (key = "EpochBlocks" => (n - b) % f[b] = 0)
  <2>1. InForce(f, b, start)
    BY <1>1, <1>2, <1>3, <1>4, <1>5 DEF InForce
  <2>2. f[b] = H[start][key] /\ (key = "EpochBlocks" => (start - b) % f[b] = 0)
    BY <1>1, <1>3, <2>1
  <2>3. ASSUME key = "EpochBlocks" PROVE (n - b) % f[b] = 0
    <3>1. f[b] = Length(H, start) /\ start - b \in Nat /\ (start - b) + f[b] = n - b
      BY <1>1, <1>2, <1>3, <2>1, <2>2, <2>3 DEF Length, InForce
    <3> QED BY <1>3, <2>2, <2>3, <3>1, Remainder
  <2> QED BY <1>4, <2>2, <2>3
<1>6. \A h \in DOMAIN L, b \in DOMAIN f : InForce(f, b, h) =>
        f[b] = L[h][key] /\ (key = "EpochBlocks" => (h - b) % f[b] = 0)
  BY <1>1, <1>4, <1>5
<1>7. DOMAIN f \in SUBSET DOMAIN L
  BY <1>1, <1>4
<1> QED BY <1>1, <1>6, <1>7 DEF Truthful, L

\* A version pushed at n is right.
LEMMA VersionPushed ==
    ASSUME NEW H, NEW start, NEW n, NEW p, Follows(H, start, n, p),
           NEW key \in FixationKeys, NEW f, NEW earliest, Truthful(f, key, H, earliest),
           NEW g, g = [b \in DOMAIN f \cup {n} |-> IF b = n THEN p[key] ELSE f[b]]
    PROVE  Truthful(g, key, Longer(H, n, p), earliest)
<1> DEFINE L == Longer(H, n, p)
<1>1. /\ DOMAIN f \in SUBSET DOMAIN H /\ \E b \in DOMAIN f : b <= earliest
      /\ \A h \in DOMAIN H, b \in DOMAIN f : InForce(f, b, h) =>
           f[b] = H[h][key] /\ (key = "EpochBlocks" => (h - b) % f[b] = 0)
  BY DEF Truthful
<1>2. Calendar(L, n) /\ n \in Nat
  BY LongerCalendar DEF Follows
<1>3. /\ DOMAIN L = DOMAIN H \cup {n} /\ L[n] = p /\ n \notin DOMAIN H
      /\ \A h \in DOMAIN H : L[h] = H[h] /\ h < n /\ h \in Nat
  <2>1. DOMAIN H \in SUBSET Nat
    BY CalendarFacts DEF Follows
  <2>2. /\ DOMAIN L = DOMAIN H \cup {n} /\ L[n] = p /\ n \notin DOMAIN H
        /\ \A h \in DOMAIN H : L[h] = H[h] /\ h < n
    BY LongerCalendar DEF Longer
  <2> HIDE DEF L
  <2> QED BY <2>1, <2>2
<1>4. DOMAIN g = DOMAIN f \cup {n} /\ g[n] = p[key] /\ \A b \in DOMAIN f : g[b] = f[b]
  BY <1>1, <1>3
<1>5. Length(L, n) \in Nat \ {0}
  BY <1>2, <1>3, CalendarFacts
<1> HIDE DEF L
<1>6. ASSUME NEW h \in DOMAIN L, NEW b \in DOMAIN g, InForce(g, b, h)
      PROVE  g[b] = L[h][key] /\ (key = "EpochBlocks" => (h - b) % g[b] = 0)
  <2>1. CASE h = n
    <3>1. b = n
      BY <1>1, <1>2, <1>3, <1>4, <1>6, <2>1 DEF InForce
    <3>2. ASSUME key = "EpochBlocks" PROVE (h - b) % g[b] = 0
      <4>1. g[b] = Length(L, n) /\ h - b = 0
        BY <1>2, <1>3, <1>4, <2>1, <3>1, <3>2 DEF Length
      <4>2. \A x \in Nat \ {0} : 0 % x = 0
        OBVIOUS
      <4> QED BY <1>5, <4>1, <4>2
    <3> QED BY <1>3, <1>4, <2>1, <3>1, <3>2
  <2>2. CASE h # n
    <3>1. h \in DOMAIN H /\ h < n /\ h \in Nat
      BY <1>3, <2>2
    <3>2. b \in DOMAIN f /\ InForce(f, b, h)
      BY <1>2, <1>4, <1>6, <3>1 DEF InForce
    <3> QED BY <1>1, <1>3, <1>4, <3>1, <3>2
  <2> QED BY <2>1, <2>2
<1>7. DOMAIN g \in SUBSET DOMAIN L /\ \E b \in DOMAIN g : b <= earliest
  BY <1>1, <1>3, <1>4
<1> QED BY <1>6, <1>7 DEF Truthful, L

\* The newest versions from one on that reaches back far enough are right.
LEMMA VersionsKept ==
    ASSUME NEW H, NEW key, NEW f, NEW earliest, Truthful(f, key, H, earliest),
           DOMAIN H \in SUBSET Nat,
           NEW K \in SUBSET DOMAIN f, \E b \in K : b <= earliest,
           \A b \in K, c \in DOMAIN f : c > b => c \in K
    PROVE  Truthful(Restrict(f, K), key, H, earliest)
<1> DEFINE g == Restrict(f, K)
<1>1. DOMAIN g = K /\ \A b \in K : g[b] = f[b]
  BY DEF Restrict
<1>2. DOMAIN f \in SUBSET DOMAIN H
  BY DEF Truthful
<1> HIDE DEF g
<1>3. ASSUME NEW h \in DOMAIN H, NEW b \in DOMAIN g, InForce(g, b, h) PROVE InForce(f, b, h)
  BY <1>1, <1>2, <1>3 DEF InForce
<1>4. /\ DOMAIN g \in SUBSET DOMAIN H /\ \E b \in DOMAIN g : b <= earliest
      /\ \A b \in DOMAIN g : b \in DOMAIN f
  BY <1>1, <1>2
<1> QED BY <1>1, <1>3, <1>4 DEF Truthful, g

\* The newest version of a parameter.
LEMMA NewestVersion ==
    ASSUME NEW H, NEW start, Calendar(H, start), NEW key, NEW f, NEW earliest,
           Truthful(f, key, H, earliest)
    PROVE  /\ Newest(f) \in DOMAIN f /\ \A b \in DOMAIN f : b <= Newest(f)
           /\ f[Newest(f)] = H[start][key]
<1>1. /\ DOMAIN f \in SUBSET DOMAIN H /\ DOMAIN f # {}
      /\ \A h \in DOMAIN H, b \in DOMAIN f : InForce(f, b, h) => f[b] = H[h][key]
  BY DEF Truthful
<1>2. /\ DOMAIN H \in SUBSET Nat /\ start \in DOMAIN H /\ \A h \in DOMAIN H : h <= start
  BY CalendarFacts
<1>3. DOMAIN f \in SUBSET Nat /\ start \in Nat /\ \A b \in DOMAIN f : b <= start
  BY <1>1, <1>2
<1>4. Newest(f) \in DOMAIN f /\ \A b \in DOMAIN f : b <= Newest(f)
  BY <1>1, <1>3, GreatestNumber DEF Newest
<1>5. InForce(f, Newest(f), start)
  BY <1>3, <1>4 DEF InForce
<1> QED BY <1>1, <1>2, <1>4, <1>5

\* The versions that cover the memory.
LEMMA CoveringVersions ==
    ASSUME NEW D \in SUBSET Nat, NEW limit \in Nat, \E b \in D : b <= limit
    PROVE  /\ KeepCovering(D, limit) \in SUBSET D
           /\ \E b \in KeepCovering(D, limit) : b <= limit
           /\ \A b \in KeepCovering(D, limit), c \in D : c > b => c \in KeepCovering(D, limit)
<1> DEFINE older == {b \in D : b < limit}
<1>1. CASE older = {}
  <2>1. KeepCovering(D, limit) = D
    BY <1>1 DEF KeepCovering
  <2> QED BY <2>1
<1>2. CASE older # {}
  <2>1. older \in SUBSET Nat /\ \A x \in older : x <= limit
    <3>1. \A x \in D : x \in Nat /\ (x < limit => x <= limit)
      OBVIOUS
    <3> QED BY <3>1
  <2>2. Max(older) \in older /\ \A x \in older : x <= Max(older)
    <3> HIDE DEF older
    <3> QED BY <1>2, <2>1, GreatestNumber
  <2>3. KeepCovering(D, limit) = (D \ older) \cup {Max(older)}
    BY <1>2 DEF KeepCovering
  <2> DEFINE m == Max(older)
  <2>4. /\ m \in D /\ m \in Nat /\ m < limit /\ \A x \in D : x < limit => x <= m
        /\ \A x : x \in KeepCovering(D, limit) <=> x = m \/ (x \in D /\ ~ (x < limit))
    BY <2>1, <2>2, <2>3
  <2> HIDE DEF m, older
  <2>5. KeepCovering(D, limit) \in SUBSET D
    BY <2>4
  <2>6. m \in KeepCovering(D, limit) /\ m <= limit
    BY <2>4
  <2>7. ASSUME NEW b \in KeepCovering(D, limit), NEW c \in D, c > b
        PROVE  c \in KeepCovering(D, limit)
    <3>1. b \in Nat /\ c \in Nat /\ (b = m \/ ~ (b < limit))
      BY <2>4
    <3>2. ~ (c < limit)
      BY <2>4, <2>7, <3>1
    <3> QED BY <2>4, <3>2
  <2> QED BY <2>5, <2>6, <2>7
<1> QED BY <1>1, <1>2

\* What FixateParams leaves alone, and what holds of the versions it leaves.
Fixated(st, new, H, n) ==
    /\ new \in Store
    /\ new.params = st.params /\ new.start = st.start /\ new.earliest = st.earliest
    /\ new.deleted = st.deleted /\ new.stored = st.stored /\ new.panic = st.panic
    /\ new.change <= st.change
    /\ \A key \in FixationKeys :
         /\ Truthful(new.fixated[key], key, Longer(H, n, st.params), st.earliest)
         /\ Recent(new.fixated[key], Longer(H, n, st.params), st.earliest, new.change)

\* A version stays as recent as it was.
LEMMA StillRecent ==
    ASSUME NEW H, NEW start, NEW n, NEW p, Follows(H, start, n, p), NEW f, NEW earliest,
           NEW change, Recent(f, H, earliest, change)
    PROVE  Recent(f, Longer(H, n, p), earliest, change)
<1>1. /\ \A h \in DOMAIN H : h \in DOMAIN Longer(H, n, p) /\ Longer(H, n, p)[h] = H[h]
  BY LongerCalendar DEF Longer
<1>2. \A h \in DOMAIN H : h \in DOMAIN Longer(H, n, p) /\ Length(Longer(H, n, p), h) = Length(H, h)
  BY <1>1 DEF Length
<1> QED BY <1>2 DEF Recent

\* The blocks and values of versions.
LEMMA VersionNumbers ==
    ASSUME NEW f \in Versions
    PROVE  DOMAIN f \in SUBSET Nat /\ \A b \in DOMAIN f : f[b] \in Nat
<1>1. PICK D \in SUBSET Nat : f \in [D -> Nat]
  BY DEF Versions
<1> QED BY <1>1

\* Some of the versions are versions.
LEMMA AreVersions ==
    ASSUME NEW f \in Versions, NEW K \in SUBSET Nat, K \in SUBSET DOMAIN f
    PROVE  Restrict(f, K) \in Versions
<1>1. PICK D \in SUBSET Nat : f \in [D -> Nat]
  BY DEF Versions
<1>2. Restrict(f, K) \in [K -> Nat]
  BY <1>1 DEF Restrict
<1> QED BY <1>1, <1>2 DEF Versions

\* The types of a store's fields.
LEMMA StoreFields ==
    ASSUME NEW st \in Store
    PROVE  /\ st.params \in Params /\ st.change \in Nat /\ st.start \in Nat /\ st.earliest \in Nat
           /\ st.fixated \in [FixationKeys -> Versions] /\ st.deleted \in SUBSET Nat
           /\ st.stored \in SUBSET Nat /\ st.panic \in BOOLEAN
           /\ \A key \in FixationKeys : st.fixated[key] \in Versions /\ st.params[key] \in Nat
<1>1. /\ st.params \in Params /\ st.change \in Nat /\ st.start \in Nat /\ st.earliest \in Nat
      /\ st.fixated \in [FixationKeys -> Versions] /\ st.deleted \in SUBSET Nat
      /\ st.stored \in SUBSET Nat /\ st.panic \in BOOLEAN
  BY DEF Store
<1>2. \A p \in Params : \A key \in FixationKeys : p[key] \in Nat
  BY EpochBlocksAssumption, EpochsToSaveAssumption DEF Params, FixationKeys
<1> QED BY <1>1, <1>2

\* Versions older than the newest are not needed when the last change came before
\* the earliest epoch in memory.
LEMMA Cleaned ==
    ASSUME NEW st, NEW H, Sound(st, H), NEW n \in Nat, n = st.start + Length(H, st.start),
           st.change < st.earliest
    PROVE  Fixated(st, CleanAllOlder(st), H, n)
<1> DEFINE F == [key \in FixationKeys |-> Restrict(st.fixated[key], {Newest(st.fixated[key])})]
           new == [st EXCEPT !.change = 0, !.fixated = F]
           L == Longer(H, n, st.params)
<1>1. /\ st \in Store /\ Calendar(H, st.start) /\ st.earliest \in DOMAIN H
      /\ \A key \in FixationKeys : /\ Truthful(st.fixated[key], key, H, st.earliest)
                                   /\ Recent(st.fixated[key], H, st.earliest, st.change)
      /\ Announced(st, H)
  BY DEF Sound, Remembered
<1>2. Follows(H, st.start, n, st.params)
  BY <1>1, StoreFields DEF Follows
<1>3. /\ DOMAIN H \in SUBSET Nat /\ st.start \in Nat /\ st.earliest \in Nat /\ st.change \in Nat
      /\ st.earliest <= st.start
      /\ \A h, g \in DOMAIN H : h < g => h + Length(H, h) <= g
      /\ \A h \in DOMAIN H : Length(H, h) \in Nat
  BY <1>1, CalendarFacts, StoreFields
<1>4. CleanAllOlder(st) = new
  BY DEF CleanAllOlder
<1>5. ASSUME NEW key \in FixationKeys
      PROVE  /\ Truthful(F[key], key, L, st.earliest) /\ Recent(F[key], L, st.earliest, 0)
             /\ F[key] \in Versions
  <2> DEFINE f == st.fixated[key]
             b == Newest(f)
  <2>1. b \in DOMAIN f /\ \A c \in DOMAIN f : c <= b
    BY <1>1, NewestVersion
  <2>2. f \in Versions /\ DOMAIN f \in SUBSET DOMAIN H
    BY <1>1, StoreFields DEF Truthful
  <2>3. b \in Nat /\ DOMAIN f \in SUBSET Nat
    BY <1>3, <2>1, <2>2
  <2>4. b <= st.earliest
    <3> SUFFICES ASSUME b > st.earliest PROVE FALSE
      BY <1>3, <2>3
    <3>1. PICK p \in DOMAIN H : p <= st.change /\ p + Length(H, p) = b
      BY <1>1, <2>1 DEF Recent
    <3>2. p < st.earliest /\ p \in Nat
      BY <1>3, <3>1
    <3>3. p + Length(H, p) <= st.earliest
      BY <1>1, <1>3, <3>2
    <3> HIDE DEF b
    <3> QED BY <1>3, <2>3, <3>1, <3>3
  <2>5. st.params[key] = H[st.start][key]
    BY <1>1, <1>3 DEF Announced
  <2>6. Truthful(f, key, L, st.earliest)
    BY <1>1, <1>2, <2>5, VersionsLast
  <2>7. DOMAIN L \in SUBSET Nat
    BY <1>2, <1>3 DEF Longer, Follows
  <2>8. F[key] = Restrict(f, {b})
    OBVIOUS
  <2>9. {b} \in SUBSET DOMAIN f /\ {b} \in SUBSET Nat
    BY <2>1, <2>3
  <2> HIDE DEF f, b, L, F
  <2>10. \A x \in {b}, c \in DOMAIN f : c > x => c \in {b}
    BY <2>1, <2>3
  <2>11. Truthful(F[key], key, L, st.earliest)
    BY <2>4, <2>6, <2>7, <2>8, <2>9, <2>10, VersionsKept
  <2>12. F[key] \in Versions
    BY <2>2, <2>8, <2>9, AreVersions
  <2>13. Recent(F[key], L, st.earliest, 0)
    <3>1. DOMAIN F[key] = {b}
      BY <2>8 DEF Restrict
    <3> QED BY <1>3, <2>3, <2>4, <3>1 DEF Recent
  <2> QED BY <2>11, <2>12, <2>13
<1>6. F \in [FixationKeys -> Versions]
  BY <1>5
<1> HIDE DEF F, L
<1>7. /\ new \in Store /\ new.fixated = F /\ new.change = 0
      /\ new.params = st.params /\ new.start = st.start /\ new.earliest = st.earliest
      /\ new.deleted = st.deleted /\ new.stored = st.stored /\ new.panic = st.panic
  BY <1>1, <1>6 DEF Store
<1> HIDE DEF new
<1> QED BY <1>3, <1>4, <1>5, <1>7 DEF Fixated, L

\* A change since the last epoch began is fixated.
LEMMA Pushed ==
    ASSUME NEW st, NEW H, Sound(st, H), NEW n \in Nat, n = st.start + Length(H, st.start),
           st.change >= st.start
    PROVE  Fixated(st, PushFixatedParams(st, n, st.earliest), H, n)
<1> DEFINE New(key) == [b \in DOMAIN st.fixated[key] \cup {n} |->
                           IF b = n THEN st.params[key] ELSE st.fixated[key][b]]
           Push(key) == IF st.fixated[key][Newest(st.fixated[key])] = st.params[key]
                        THEN st.fixated[key]
                        ELSE Restrict(New(key), KeepCovering(DOMAIN New(key), st.earliest))
           F == [key \in FixationKeys |-> Push(key)]
           new == [st EXCEPT !.fixated = F]
           L == Longer(H, n, st.params)
<1>1. /\ st \in Store /\ Calendar(H, st.start) /\ st.earliest \in DOMAIN H
      /\ \A key \in FixationKeys : /\ Truthful(st.fixated[key], key, H, st.earliest)
                                   /\ Recent(st.fixated[key], H, st.earliest, st.change)
  BY DEF Sound, Remembered
<1>2. Follows(H, st.start, n, st.params)
  BY <1>1, StoreFields DEF Follows
<1>3. /\ DOMAIN H \in SUBSET Nat /\ st.start \in DOMAIN H /\ st.start \in Nat /\ st.earliest \in Nat
      /\ st.change \in Nat
  BY <1>1, CalendarFacts, StoreFields
<1>4. PushFixatedParams(st, n, st.earliest) = new
  BY DEF PushFixatedParams
<1>5. DOMAIN L = DOMAIN H \cup {n} /\ \A h \in DOMAIN H : Length(L, h) = Length(H, h)
  <2>1. n \notin DOMAIN H
    BY <1>2, LongerCalendar
  <2>2. DOMAIN L = DOMAIN H \cup {n} /\ \A h \in DOMAIN H : L[h] = H[h]
    BY <2>1 DEF Longer
  <2> HIDE DEF L
  <2> QED BY <2>2 DEF Length
<1> HIDE DEF L
<1>6. ASSUME NEW key \in FixationKeys
      PROVE  /\ Truthful(Push(key), key, L, st.earliest)
             /\ Recent(Push(key), L, st.earliest, st.change)
             /\ Push(key) \in Versions
  <2> DEFINE f == st.fixated[key]
             g == New(key)
             K == KeepCovering(DOMAIN g, st.earliest)
  <2>1. f \in Versions /\ st.params[key] \in Nat /\ DOMAIN f \in SUBSET DOMAIN H
    BY <1>1, StoreFields DEF Truthful
  <2>2. Recent(f, L, st.earliest, st.change)
    BY <1>1, <1>2, StillRecent DEF L
  <2>3. CASE f[Newest(f)] = st.params[key]
    <3>1. st.params[key] = H[st.start][key]
      BY <1>1, <2>3, NewestVersion
    <3>2. Truthful(f, key, L, st.earliest)
      BY <1>1, <1>2, <3>1, VersionsLast DEF L
    <3>3. Push(key) = f
      BY <2>3
    <3> QED BY <2>1, <2>2, <3>2, <3>3
  <2>4. CASE f[Newest(f)] # st.params[key]
    <3>1. Push(key) = Restrict(g, K)
      BY <2>4
    <3>2. DOMAIN f \in SUBSET Nat /\ \A b \in DOMAIN f : f[b] \in Nat
      <4> HIDE DEF f
      <4> QED BY <2>1, VersionNumbers
    <3>3. g \in Versions /\ DOMAIN g = DOMAIN f \cup {n} /\ DOMAIN g \in SUBSET Nat
      <4> DEFINE D == DOMAIN f \cup {n}
      <4>1. D \in SUBSET Nat /\ g = [b \in D |-> IF b = n THEN st.params[key] ELSE f[b]]
        BY <3>2
      <4>2. g \in [D -> Nat]
        BY <2>1, <3>2, <4>1
      <4> HIDE DEF D, g
      <4>3. g \in Versions /\ DOMAIN g = D
        BY <4>1, <4>2 DEF Versions
      <4> QED BY <4>1, <4>3 DEF D
    <3>4. Truthful(g, key, L, st.earliest)
      BY <1>1, <1>2, VersionPushed DEF L
    <3> HIDE DEF g
    <3>5. \E b \in DOMAIN g : b <= st.earliest
      BY <3>4 DEF Truthful
    <3>6. /\ K \in SUBSET DOMAIN g /\ \E b \in K : b <= st.earliest
          /\ \A b \in K, c \in DOMAIN g : c > b => c \in K
      BY <1>3, <3>3, <3>5, CoveringVersions
    <3> HIDE DEF K
    <3>7. DOMAIN L \in SUBSET Nat
      BY <1>3, <1>5
    <3>8. Truthful(Restrict(g, K), key, L, st.earliest)
      BY <3>4, <3>6, <3>7, VersionsKept
    <3>9. Restrict(g, K) \in Versions
      BY <3>3, <3>6, AreVersions
    <3>10. Recent(Restrict(g, K), L, st.earliest, st.change)
      <4>1. DOMAIN Restrict(g, K) = K
        BY DEF Restrict
      <4>2. ASSUME NEW b \in K, b > st.earliest
            PROVE  \E p \in DOMAIN L : p <= st.change /\ p + Length(L, p) = b
        <5>1. CASE b = n
          <6>1. st.start <= st.change /\ st.start + Length(L, st.start) = n /\ st.start \in DOMAIN L
            BY <1>3, <1>5
          <6> QED BY <5>1, <6>1
        <5>2. CASE b # n
          BY <2>2, <3>3, <3>6, <4>2, <5>2 DEF Recent
        <5> QED BY <5>1, <5>2
      <4> QED BY <4>1, <4>2 DEF Recent
    <3> QED BY <3>1, <3>8, <3>9, <3>10
  <2> QED BY <2>3, <2>4
<1> HIDE DEF Push
<1>7. F \in [FixationKeys -> Versions] /\ \A key \in FixationKeys : F[key] = Push(key)
  BY <1>6
<1> HIDE DEF F
<1>8. /\ new \in Store /\ new.fixated = F /\ new.change = st.change
      /\ new.params = st.params /\ new.start = st.start /\ new.earliest = st.earliest
      /\ new.deleted = st.deleted /\ new.stored = st.stored /\ new.panic = st.panic
  BY <1>1, <1>7 DEF Store
<1> HIDE DEF new
<1> QED BY <1>3, <1>4, <1>6, <1>7, <1>8 DEF Fixated, L

\* FixateParams fixates a change of the epoch before, and nothing else.
LEMMA FixateParamsFixates ==
    ASSUME NEW st, NEW H, Sound(st, H), NEW n \in Nat, n = st.start + Length(H, st.start)
    PROVE  Fixated(st, FixateParams(st, n), H, n)
<1>1. /\ st \in Store /\ Calendar(H, st.start) /\ st.earliest \in DOMAIN H
      /\ \A key \in FixationKeys : /\ Truthful(st.fixated[key], key, H, st.earliest)
                                   /\ Recent(st.fixated[key], H, st.earliest, st.change)
      /\ Announced(st, H)
  BY DEF Sound, Remembered
<1>2. Follows(H, st.start, n, st.params)
  BY <1>1, StoreFields DEF Follows
<1>3. /\ st.start \in DOMAIN H /\ st.start \in Nat /\ st.earliest \in Nat /\ st.change \in Nat
      /\ st.earliest <= st.start /\ Length(H, st.start) \in Nat \ {0}
  BY <1>1, CalendarFacts, StoreFields
<1>4. GetEpochStartForBlock(st, n) = n
  BY BlockAfterEpoch
<1>5. n - 1 \in Nat /\ st.start <= n - 1 /\ n - 1 < st.start + Length(H, st.start) /\ n > 0
  BY <1>3
<1>6. Known(st, "EpochBlocks", n - 1) /\ GetEpochStartForBlock(st, n - 1) = st.start
  <2>1. "EpochBlocks" \in FixationKeys
    BY DEF FixationKeys
  <2> QED BY <1>3, <1>5, <2>1, BlockOfEpoch
<1>7. PreviousEpochKnown(st, n) /\ GetPreviousEpochStartForBlock(st, n) = st.start
  BY <1>4, <1>5, <1>6 DEF PreviousEpochKnown, GetPreviousEpochStartForBlock
<1>8. CASE st.change # 0 /\ st.change < st.earliest
  BY <1>8, Cleaned DEF FixateParams
<1>9. CASE st.change # 0 /\ ~ (st.change < st.earliest) /\ st.change >= st.start
  BY <1>7, <1>9, Pushed DEF FixateParams
<1>10. CASE st.change = 0 \/ (~ (st.change < st.earliest) /\ ~ (st.change >= st.start))
  <2>1. FixateParams(st, n) = st
    BY <1>7, <1>10 DEF FixateParams
  <2>2. \A key \in FixationKeys : st.params[key] = H[st.start][key]
    BY <1>1, <1>3, <1>10 DEF Announced
  <2>3. \A key \in FixationKeys :
          /\ Truthful(st.fixated[key], key, Longer(H, n, st.params), st.earliest)
          /\ Recent(st.fixated[key], Longer(H, n, st.params), st.earliest, st.change)
    BY <1>1, <1>2, <2>2, VersionsLast, StillRecent
  <2> QED BY <1>1, <1>3, <2>1, <2>3 DEF Fixated
<1> QED BY <1>8, <1>9, <1>10

\* The new epoch is in the store before old ones are forgotten.
LEMMA EpochStored ==
    ASSUME NEW st, NEW H, Sound(st, H), NEW n \in Nat, n = st.start + Length(H, st.start)
    PROVE  /\ Sound(StoreEpoch(FixateParams(st, n), n), Longer(H, n, st.params))
           /\ StoreEpoch(FixateParams(st, n), n).start = n
           /\ StoreEpoch(FixateParams(st, n), n).change <= st.change
<1> DEFINE fx == FixateParams(st, n)
           L == Longer(H, n, st.params)
           new == [fx EXCEPT !.start = n, !.stored = fx.stored \cup {n}]
<1>1. Fixated(st, fx, H, n)
  BY FixateParamsFixates
<1>2. st \in Store /\ Calendar(H, st.start) /\ Remembered(st, H) /\ ~st.panic
  BY DEF Sound
<1>3. Follows(H, st.start, n, st.params)
  BY <1>2, StoreFields DEF Follows
<1>4. /\ Calendar(L, n) /\ n \notin DOMAIN H /\ st.start < n
      /\ DOMAIN L = DOMAIN H \cup {n} /\ L[n] = st.params
  <2>1. Calendar(L, n) /\ n \notin DOMAIN H /\ st.start < n
    <3> HIDE DEF L
    <3> QED BY <1>3, LongerCalendar DEF L
  <2>2. DOMAIN L = DOMAIN H \cup {n} /\ L[n] = st.params
    BY DEF Longer
  <2> QED BY <2>1, <2>2
<1>5. StoreEpoch(fx, n) = new
  BY DEF StoreEpoch
<1> HIDE DEF fx, L
<1>6. /\ new \in Store /\ new.params = fx.params /\ new.change = fx.change /\ new.start = n
      /\ new.fixated = fx.fixated /\ new.earliest = fx.earliest /\ new.deleted = fx.deleted
      /\ new.stored = fx.stored \cup {n} /\ new.panic = fx.panic
  BY <1>1 DEF Fixated, Store
<1>7. /\ new.params = st.params /\ new.earliest = st.earliest /\ new.deleted = st.deleted
      /\ new.stored = st.stored \cup {n} /\ new.panic = st.panic /\ new.change <= st.change
      /\ \A key \in FixationKeys : /\ Truthful(new.fixated[key], key, L, new.earliest)
                                   /\ Recent(new.fixated[key], L, new.earliest, new.change)
  BY <1>1, <1>6 DEF Fixated, L
<1> HIDE DEF new
<1>8. Announced(new, L)
  BY <1>4, <1>6, <1>7 DEF Announced
<1>9. Remembered(new, L)
  <2>1. n \in Nat /\ n # 0 /\ n >= st.earliest
    BY <1>2, <1>4, CalendarFacts DEF Remembered
  <2> QED BY <1>2, <1>4, <1>7, <2>1 DEF Remembered
<1> QED BY <1>2, <1>4, <1>5, <1>6, <1>7, <1>8, <1>9 DEF Sound, fx, L

-----------------------------------------------------------------------------
(* The loop that forgets epochs. *)

IsLoop(f, st, limit) ==
    f = [e \in Nat |-> IF e >= limit \/ ~Known(st, "EpochBlocks", e) THEN {}
                       ELSE {e} \cup f[GetNextEpoch(st, e)]]

\* The loop is the function that Passed defines.
LEMMA PassedDef ==
    ASSUME NEW st, NEW from, NEW limit
    PROVE  Passed(st, from, limit) = (CHOOSE f : IsLoop(f, st, limit))[from]
  BY DEF Passed, IsLoop

\* Every step of the loop goes forward.
LEMMA NextEpochIsLater ==
    ASSUME NEW st, NEW H, Sound(st, H), NEW e \in Nat, Known(st, "EpochBlocks", e)
    PROVE  GetNextEpoch(st, e) \in Nat /\ GetNextEpoch(st, e) > e
<1> DEFINE f == st.fixated["EpochBlocks"]
<1>1. /\ Calendar(H, st.start) /\ Truthful(f, "EpochBlocks", H, st.earliest)
      /\ DOMAIN f \in SUBSET DOMAIN H
  BY DEF Sound, FixationKeys, Truthful
<1>2. DOMAIN f \in SUBSET Nat /\ \A h \in DOMAIN H : Length(H, h) \in Nat \ {0}
  BY <1>1, CalendarFacts
<1>3. PICK c \in DOMAIN f : c <= e
  BY DEF Known
<1>4. PICK b \in DOMAIN f : InForce(f, b, e)
  <2> HIDE DEF f
  <2> QED BY <1>2, <1>3, VersionExists
<1>5. FixationBlock(st, "EpochBlocks", e) = b /\ EpochBlocks(st, e) = f[b]
  BY <1>2, <1>4, VersionUsed DEF EpochBlocks
<1>6. b \in Nat /\ b <= e
  BY <1>2, <1>4 DEF InForce
<1>7. f[b] \in Nat \ {0}
  <2>1. InForce(f, b, b)
    BY <1>2, <1>4 DEF InForce
  <2>2. f[b] = Length(H, b)
    BY <1>1, <2>1 DEF Truthful, Length
  <2> QED BY <1>1, <1>2, <2>2
<1>8. (e - b) % f[b] \in 0..(f[b] - 1) /\ (e - b) % f[b] <= e - b
  <2>1. \A x \in Nat, l \in Nat \ {0} : x % l \in 0..(l - 1) /\ x % l <= x
    BY SMT
  <2>2. e - b \in Nat
    BY <1>6
  <2> HIDE DEF f
  <2> QED BY <1>7, <2>1, <2>2
<1>9. GetNextEpoch(st, e) = e - ((e - b) % f[b]) + f[b]
  BY <1>5 DEF GetNextEpoch, GetEpochStartForBlock, BlockInEpoch
<1> DEFINE r == (e - b) % f[b]
           l == f[b]
<1>10. r \in Nat /\ r < l /\ r <= e - b /\ l \in Nat /\ GetNextEpoch(st, e) = e - r + l
  BY <1>7, <1>8, <1>9
<1> HIDE DEF r, l
<1> QED BY <1>6, <1>10

\* The loop ends: a function as Passed defines it exists.
LEMMA LoopExists ==
    ASSUME NEW st, NEW H, Sound(st, H), NEW limit \in Nat
    PROVE  \E f : IsLoop(f, st, limit)
<1> DEFINE P(k) == {e \in Nat : e + k >= limit}
           Ends(e) == e >= limit \/ ~Known(st, "EpochBlocks", e)
           Body(g, e) == IF Ends(e) THEN {} ELSE {e} \cup g[GetNextEpoch(st, e)]
           Ok(k) == \E g : g = [e \in P(k) |-> g[e]] /\ \A e \in P(k) : g[e] = Body(g, e)
           T == {k \in Nat : ~Ok(k)}
<1>1. \A e \in Nat : ~Ends(e) => GetNextEpoch(st, e) \in Nat /\ GetNextEpoch(st, e) > e /\ e < limit
  BY NextEpochIsLater
<1> HIDE DEF Ends
<1>2. Ok(0)
  <2> DEFINE g == [e \in P(0) |-> {}]
  <2>1. g = [e \in P(0) |-> g[e]]
    OBVIOUS
  <2>2. \A e \in P(0) : g[e] = Body(g, e)
    <3>1. \A e \in P(0) : Ends(e)
      BY DEF Ends
    <3> QED BY <3>1
  <2> QED BY <2>1, <2>2
<1>3. ASSUME NEW k \in Nat, Ok(k) PROVE Ok(k + 1)
  <2>1. PICK g : g = [e \in P(k) |-> g[e]] /\ \A e \in P(k) : g[e] = Body(g, e)
    BY <1>3
  <2> DEFINE h == [e \in P(k + 1) |-> Body(g, e)]
  <2>2. \A e \in P(k + 1) : ~Ends(e) => GetNextEpoch(st, e) \in P(k)
    BY <1>1
  <2>3. \A e \in P(k) : e \in P(k + 1)
    OBVIOUS
  <2>4. \A e \in P(k) : h[e] = g[e]
    BY <2>1, <2>3
  <2>5. \A e \in P(k + 1) : h[e] = Body(h, e)
    BY <2>2, <2>4
  <2>6. h = [e \in P(k + 1) |-> h[e]]
    OBVIOUS
  <2> HIDE DEF h
  <2> QED BY <2>5, <2>6
<1> HIDE DEF Ok
<1>4. T = {}
  <2> SUFFICES ASSUME T # {} PROVE FALSE
    OBVIOUS
  <2>1. PICK m \in T : \A k \in T : m <= k
    <3>1. T \in SUBSET Nat
      OBVIOUS
    <3> HIDE DEF T
    <3> QED BY <3>1, LeastNumber
  <2>2. m \in Nat /\ m # 0
    BY <1>2
  <2>3. m - 1 \in Nat /\ m - 1 \notin T
    BY <2>1, <2>2
  <2> QED BY <1>3, <2>2, <2>3
<1>5. PICK g : g = [e \in P(limit) |-> g[e]] /\ \A e \in P(limit) : g[e] = Body(g, e)
  BY <1>4 DEF Ok
<1>6. P(limit) = Nat
  OBVIOUS
<1>7. g = [e \in Nat |-> Body(g, e)]
  BY <1>5, <1>6
<1> QED BY <1>7 DEF IsLoop, Ends

\* The loop passes the epochs in memory that begin before the limit.
LEMMA PassedEpochs ==
    ASSUME NEW st, NEW H, Sound(st, H), NEW limit \in Nat, limit <= st.start
    PROVE  Passed(st, st.earliest, limit) = {h \in DOMAIN H : st.earliest <= h /\ h < limit}
<1> DEFINE f == CHOOSE g : IsLoop(g, st, limit)
           From(e) == {h \in DOMAIN H : e <= h /\ h < limit}
           Bad == {h \in DOMAIN H : h >= st.earliest /\ f[h] # From(h)}
<1>1. IsLoop(f, st, limit)
  BY LoopExists
<1>2. Passed(st, st.earliest, limit) = f[st.earliest]
  BY PassedDef
<1> HIDE DEF f
<1>3. Calendar(H, st.start) /\ st.earliest \in DOMAIN H
  BY DEF Sound, Remembered
<1>4. /\ DOMAIN H \in SUBSET Nat /\ st.start \in Nat /\ st.earliest \in Nat
      /\ \A h \in DOMAIN H :
           /\ h <= st.start /\ Length(H, h) \in Nat \ {0}
           /\ h # st.start => h + Length(H, h) \in DOMAIN H
           /\ \A g \in DOMAIN H : h < g => h + Length(H, h) <= g
  BY <1>3, CalendarFacts
<1>5. ASSUME NEW h \in DOMAIN H, h >= st.earliest,
             \A g \in DOMAIN H : g > h => g \notin Bad
      PROVE  f[h] = From(h)
  <2>1. CASE h >= limit
    <3>1. f[h] = {}
      BY <1>1, <1>4, <2>1 DEF IsLoop
    <3>2. From(h) = {}
      BY <1>4, <2>1
    <3> QED BY <3>1, <3>2
  <2>2. CASE ~ (h >= limit)
    <3> DEFINE next == h + Length(H, h)
    <3>1. h \in Nat /\ h < limit /\ next \in DOMAIN H /\ next > h /\ next \in Nat
      BY <1>4, <2>2
    <3>2. Known(st, "EpochBlocks", h) /\ GetNextEpoch(st, h) = next
      <4>1. "EpochBlocks" \in FixationKeys
        BY DEF FixationKeys
      <4>2. h <= h /\ h < h + Length(H, h)
        BY <1>4
      <4> QED BY <1>5, <3>1, <4>1, <4>2, BlockOfEpoch
    <3>3. f[h] = {h} \cup f[next]
      BY <1>1, <2>2, <3>1, <3>2 DEF IsLoop
    <3>4. next \notin Bad /\ next >= st.earliest
      BY <1>4, <1>5, <3>1
    <3>5. f[next] = From(next)
      BY <3>1, <3>4
    <3>6. From(h) = {h} \cup From(next)
      <4>1. \A g \in DOMAIN H : (h <= g /\ g < limit) <=> (g = h \/ (next <= g /\ g < limit))
        BY <1>4, <3>1
      <4> HIDE DEF next
      <4> QED BY <4>1
    <3> QED BY <3>3, <3>5, <3>6
  <2> QED BY <2>1, <2>2
<1>6. Bad = {}
  <2> SUFFICES ASSUME Bad # {} PROVE FALSE
    OBVIOUS
  <2>1. Bad \in SUBSET Nat /\ \A h \in Bad : h <= st.start
    BY <1>4
  <2>2. Max(Bad) \in Bad /\ \A h \in Bad : h <= Max(Bad)
    <3> HIDE DEF Bad
    <3> QED BY <1>4, <2>1, GreatestNumber
  <2>3. PICK h \in Bad : \A g \in Bad : g <= h
    BY <2>2
  <2>4. \A g \in DOMAIN H : g > h => g \notin Bad
    BY <1>4, <2>1, <2>3
  <2>5. h \in DOMAIN H /\ h >= st.earliest /\ f[h] # From(h)
    OBVIOUS
  <2> QED BY <1>5, <2>4, <2>5
<1>7. st.earliest >= st.earliest
  BY <1>4
<1> QED BY <1>2, <1>3, <1>6, <1>7

\* It arrives at the first epoch that does not.
LEMMA ArrivedEpoch ==
    ASSUME NEW st, NEW H, Sound(st, H), NEW limit \in Nat, limit <= st.start,
           Passed(st, st.earliest, limit) # {}
    PROVE  LET new == Arrived(st, st.earliest, limit)
           IN  /\ new \in DOMAIN H /\ new >= limit /\ new > st.earliest
               /\ Passed(st, st.earliest, limit) = {h \in DOMAIN H : st.earliest <= h /\ h < new}
<1> DEFINE S == Passed(st, st.earliest, limit)
           m == Max(S)
           new == Arrived(st, st.earliest, limit)
<1>1. S = {h \in DOMAIN H : st.earliest <= h /\ h < limit}
  BY PassedEpochs
<1>2. Calendar(H, st.start) /\ st.earliest \in DOMAIN H
  BY DEF Sound, Remembered
<1>3. /\ DOMAIN H \in SUBSET Nat /\ st.start \in Nat /\ st.earliest \in Nat
      /\ \A h \in DOMAIN H :
           /\ h <= st.start /\ Length(H, h) \in Nat \ {0}
           /\ h # st.start => h + Length(H, h) \in DOMAIN H
           /\ \A g \in DOMAIN H : h < g => h + Length(H, h) <= g
  BY <1>2, CalendarFacts
<1> HIDE DEF S
<1>4. S \in SUBSET Nat /\ S # {} /\ \A h \in S : h <= limit
  BY <1>1, <1>3 DEF S
<1>5. m \in S /\ \A h \in S : h <= m
  BY <1>4, GreatestNumber
<1> HIDE DEF m
<1>6. m \in DOMAIN H /\ m \in Nat /\ st.earliest <= m /\ m < limit /\ Length(H, m) \in Nat \ {0}
  BY <1>1, <1>3, <1>5
<1>7. GetNextEpoch(st, m) = m + Length(H, m)
  <2>1. m <= m /\ m < m + Length(H, m) /\ m >= st.earliest
    BY <1>3, <1>6
  <2> QED BY <1>6, <2>1, BlockOfEpoch
<1>8. new = m + Length(H, m)
  BY <1>4, <1>7 DEF Arrived, S, m
<1> HIDE DEF new
<1>9. new \in DOMAIN H /\ new \in Nat /\ new > m
  BY <1>3, <1>6, <1>8
<1>10. new >= limit
  <2> SUFFICES ASSUME ~ (new >= limit) PROVE FALSE
    OBVIOUS
  <2>1. new \in S
    BY <1>1, <1>3, <1>6, <1>9
  <2> QED BY <1>5, <1>6, <1>9, <2>1
<1>11. \A h \in DOMAIN H : (st.earliest <= h /\ h < limit) <=> (st.earliest <= h /\ h < new)
  <2> SUFFICES ASSUME NEW h \in DOMAIN H PROVE h < limit <=> h < new
    OBVIOUS
  <2>1. h \in Nat /\ (m < h => new <= h)
    BY <1>3, <1>6, <1>8
  <2> QED BY <1>6, <1>9, <1>10, <2>1
<1>12. S = {h \in DOMAIN H : st.earliest <= h /\ h < new}
  BY <1>1, <1>11
<1>13. new > st.earliest
  BY <1>3, <1>6, <1>9
<1> QED BY <1>9, <1>10, <1>12, <1>13 DEF S, new

\* Old epochs are forgotten, and nothing that is needed.
LEMMA EpochsForgotten ==
    ASSUME NEW st, NEW H, Sound(st, H)
    PROVE  LET new == RemoveOldEpochData(UpdateEarliestEpochstart(st, st.start))
           IN  Sound(new, H) /\ new.start = st.start /\ new.change = st.change
<1> DEFINE limit == st.start - BlocksToSave(st, st.earliest)
           passed == Passed(st, st.earliest, limit)
           first == Arrived(st, st.earliest, limit)
           up == UpdateEarliestEpochstart(st, st.start)
           new == [up EXCEPT !.stored = up.stored \ up.deleted]
<1>1. /\ st \in Store /\ ~st.panic /\ Calendar(H, st.start) /\ st.earliest \in DOMAIN H
      /\ \A key \in FixationKeys : /\ Truthful(st.fixated[key], key, H, st.earliest)
                                   /\ Recent(st.fixated[key], H, st.earliest, st.change)
      /\ Announced(st, H)
      /\ st.stored = {b \in DOMAIN H \ {0} : b >= st.earliest}
      /\ \A d \in st.deleted : d < st.earliest
  BY DEF Sound, Remembered
<1>2. /\ st.start \in Nat /\ st.earliest \in Nat /\ DOMAIN H \in SUBSET Nat
      /\ Length(H, st.earliest) \in Nat \ {0} /\ H[st.earliest]["EpochsToSave"] \in Nat
      /\ st.start \in DOMAIN H
  BY <1>1, CalendarFacts
<1>3. \A key \in FixationKeys : /\ Known(st, key, st.earliest)
                                /\ GetParamForBlock(st, key, st.earliest) = H[st.earliest][key]
  <2>1. st.earliest <= st.earliest /\ st.earliest < st.earliest + Length(H, st.earliest)
        /\ st.earliest >= st.earliest
    BY <1>2
  <2> QED BY <1>1, <1>2, <2>1, BlockOfEpoch
<1>4. limit \in Int /\ limit <= st.start
  <2>1. BlocksToSave(st, st.earliest) = H[st.earliest]["EpochsToSave"] * Length(H, st.earliest)
    BY <1>3 DEF BlocksToSave, EpochBlocks, FixationKeys, Length
  <2>2. \A x, y \in Nat : x * y \in Nat
    OBVIOUS
  <2>3. BlocksToSave(st, st.earliest) \in Nat
    BY <1>2, <2>1, <2>2
  <2> QED BY <1>2, <2>3
<1>5. RemoveOldEpochData(up) = new
  BY DEF RemoveOldEpochData
<1>6. up = IF limit <= 0 \/ passed = {} THEN st
           ELSE IF first < limit THEN [st EXCEPT !.panic = TRUE]
           ELSE [st EXCEPT !.earliest = first, !.deleted = passed]
  BY <1>3 DEF UpdateEarliestEpochstart, BlocksToSaveKnown
<1> HIDE DEF limit, passed, first, up
<1>7. CASE limit <= 0 \/ passed = {}
  <2>1. up = st
    BY <1>6, <1>7
  <2>2. st.stored \ st.deleted = st.stored
    <3>1. \A d \in st.deleted : d \in Nat /\ ~ (d >= st.earliest)
      BY <1>1, <1>2, StoreFields
    <3> QED BY <1>1, <3>1
  <2>3. new = st
    BY <1>1, <2>1, <2>2 DEF Store
  <2> QED BY <1>5, <2>3 DEF up
<1>8. CASE ~ (limit <= 0 \/ passed = {})
  <2>1. limit \in Nat
    BY <1>4, <1>8
  <2>2. /\ first \in DOMAIN H /\ first >= limit /\ first > st.earliest
        /\ passed = {h \in DOMAIN H : st.earliest <= h /\ h < first}
    BY <1>4, <1>8, <2>1, ArrivedEpoch DEF passed, first
  <2>3. first \in Nat /\ passed \in SUBSET Nat
    BY <1>2, <2>2
  <2>4. up = [st EXCEPT !.earliest = first, !.deleted = passed]
    BY <1>4, <1>6, <1>8, <2>2, <2>3
  <2>5. /\ new \in Store /\ new.params = st.params /\ new.change = st.change
        /\ new.fixated = st.fixated /\ new.start = st.start /\ new.earliest = first
        /\ new.deleted = passed /\ new.stored = st.stored \ passed /\ new.panic = st.panic
    BY <1>1, <2>3, <2>4 DEF Store
  <2> HIDE DEF new
  <2>6. Remembered(new, H)
    <3>1. \A b \in DOMAIN H : (b >= st.earliest /\ b \notin passed) <=> b >= first
      BY <1>2, <2>2, <2>3
    <3>2. st.stored \ passed = {b \in DOMAIN H \ {0} : b >= first}
      BY <1>1, <3>1
    <3> QED BY <2>2, <2>5, <3>2 DEF Remembered
  <2>7. \A key \in FixationKeys : Truthful(new.fixated[key], key, H, new.earliest)
    <3> SUFFICES ASSUME NEW key \in FixationKeys
                 PROVE  Truthful(st.fixated[key], key, H, first)
      BY <2>5
    <3>1. DOMAIN st.fixated[key] \in SUBSET Nat /\ \E b \in DOMAIN st.fixated[key] : b <= st.earliest
      BY <1>1, <1>2 DEF Truthful
    <3>2. \E b \in DOMAIN st.fixated[key] : b <= first
      BY <1>2, <2>2, <2>3, <3>1
    <3> QED BY <1>1, <3>2 DEF Truthful
  <2>8. \A key \in FixationKeys : Recent(new.fixated[key], H, new.earliest, new.change)
    <3> SUFFICES ASSUME NEW key \in FixationKeys
                 PROVE  Recent(st.fixated[key], H, first, st.change)
      BY <2>5
    <3>1. \A b \in DOMAIN st.fixated[key] : b \in Nat /\ (b > first => b > st.earliest)
      BY <1>1, <1>2, <2>2, <2>3 DEF Truthful
    <3> QED BY <1>1, <3>1 DEF Recent
  <2>9. Announced(new, H)
    BY <1>1, <2>5 DEF Announced
  <2> QED BY <1>1, <1>5, <2>5, <2>6, <2>7, <2>8, <2>9 DEF Sound, up
<1> QED BY <1>7, <1>8

-----------------------------------------------------------------------------
(* The invariant is inductive. *)

\* The genesis.
LEMMA EpochInvInit == EpochInit => EpochInv
<1> SUFFICES ASSUME EpochInit PROVE EpochInv
  OBVIOUS
<1>1. PICK p \in Params :
        /\ store = [params |-> p, change |-> 0,
                    fixated |-> [key \in FixationKeys |-> [b \in {0} |-> p[key]]],
                    start |-> 0, earliest |-> 0, deleted |-> {}, stored |-> {}, panic |-> FALSE]
        /\ history = [b \in {0} |-> p]
  BY DEF EpochInit
<1>2. height = 0
  BY DEF EpochInit
<1>3. /\ p["EpochBlocks"] \in Nat \ {0}
      /\ \A key \in FixationKeys : p[key] \in Nat
  BY EpochBlocksAssumption, EpochsToSaveAssumption DEF Params, FixationKeys
<1> DEFINE F == [key \in FixationKeys |-> [b \in {0} |-> p[key]]]
<1>4. DOMAIN history = {0} /\ history[0] = p /\ Length(history, 0) \in Nat \ {0}
  BY <1>1, <1>3 DEF Length
<1>5. F \in [FixationKeys -> Versions]
  <2>1. \A key \in FixationKeys : [b \in {0} |-> p[key]] \in [{0} -> Nat]
    BY <1>3
  <2>2. {0} \in SUBSET Nat
    OBVIOUS
  <2> QED BY <2>1, <2>2 DEF Versions
<1>6. \A key \in FixationKeys : DOMAIN F[key] = {0} /\ F[key][0] = p[key]
  OBVIOUS
<1>7. /\ store.params = p /\ store.change = 0 /\ store.fixated = F /\ store.start = 0
      /\ store.earliest = 0 /\ store.deleted = {} /\ store.stored = {} /\ store.panic = FALSE
  BY <1>1
<1>8. store \in Store
  <2> HIDE DEF F
  <2>1. store = [params |-> p, change |-> 0, fixated |-> F, start |-> 0, earliest |-> 0,
                 deleted |-> {}, stored |-> {}, panic |-> FALSE]
    BY <1>1 DEF F
  <2> QED BY <1>5, <2>1 DEF Store
<1> HIDE DEF F
<1>9. Calendar(history, store.start)
  <2>1. history \in [DOMAIN history -> Params]
    BY <1>1, <1>4
  <2> QED BY <1>4, <1>7, <2>1 DEF Calendar
<1>10. ASSUME NEW key \in FixationKeys
       PROVE  /\ Truthful(store.fixated[key], key, history, store.earliest)
              /\ Recent(store.fixated[key], history, store.earliest, store.change)
  <2>1. key = "EpochBlocks" => 0 % p[key] = 0 /\ 0 - 0 = 0
    BY <1>3
  <2>2. Truthful(F[key], key, history, 0)
    BY <1>4, <1>6, <2>1 DEF Truthful
  <2>3. Recent(F[key], history, 0, 0)
    BY <1>6 DEF Recent
  <2> QED BY <1>7, <2>2, <2>3
<1>11. Announced(store, history) /\ Remembered(store, history)
  BY <1>4, <1>7 DEF Announced, Remembered
<1>12. Sound(store, history)
  BY <1>7, <1>8, <1>9, <1>10, <1>11 DEF Sound
<1> QED BY <1>2, <1>4, <1>7, <1>12 DEF EpochInv

\* A block within the epoch, and the first of the next.
LEMMA NextBlock ==
    ASSUME EpochInv
    PROVE  /\ height + 1 \in Nat /\ store.start \in Nat /\ Length(history, store.start) \in Nat \ {0}
           /\ store.start \in DOMAIN history
           /\ BlockInEpoch(store, height + 1) # 0 =>
                height + 1 < store.start + Length(history, store.start)
           /\ BlockInEpoch(store, height + 1) = 0 =>
                height + 1 = store.start + Length(history, store.start)
<1> DEFINE len == Length(history, store.start)
<1>1. /\ height \in Nat /\ store.start <= height /\ height < store.start + len
      /\ Sound(store, history)
  BY DEF EpochInv
<1>2. Calendar(history, store.start) /\ store.earliest \in DOMAIN history
  BY <1>1 DEF Sound, Remembered
<1>3. /\ store.start \in DOMAIN history /\ store.start \in Nat /\ len \in Nat \ {0}
      /\ store.start >= store.earliest
  BY <1>2, CalendarFacts
<1>4. CASE height + 1 = store.start + len
  BY <1>1, <1>3, <1>4, BlockAfterEpoch
<1>5. CASE height + 1 < store.start + len
  <2>1. height + 1 \in Nat /\ store.start <= height + 1
    BY <1>1, <1>3
  <2>2. BlockInEpoch(store, height + 1) = (height + 1) - store.start
    BY <1>1, <1>3, <1>5, <2>1, BlockOfEpoch
  <2>3. (height + 1) - store.start # 0
    BY <1>1, <1>3
  <2> QED BY <1>3, <1>5, <2>1, <2>2, <2>3
<1> HIDE DEF len
<1>6. height + 1 = store.start + len \/ height + 1 < store.start + len
  BY <1>1, <1>3
<1> QED BY <1>4, <1>5, <1>6 DEF len

\* A new block.
LEMMA BeginBlockKeeps == EpochInv /\ EpochBeginBlock => EpochInv'
<1> SUFFICES ASSUME EpochInv, EpochBeginBlock PROVE EpochInv'
  OBVIOUS
<1> DEFINE n == height + 1
<1>1. /\ height \in Nat /\ store.change <= height /\ store.start <= height
      /\ Sound(store, history)
  BY DEF EpochInv
<1>2. height' = n /\ n \in Nat /\ store.start \in Nat /\ store.change \in Nat
  BY <1>1, NextBlock, StoreFields DEF EpochBeginBlock, Sound
<1>3. CASE BlockInEpoch(store, n) = 0
  <2> DEFINE st == StoreEpoch(FixateParams(store, n), n)
             L == Longer(history, n, store.params)
  <2>1. n = store.start + Length(history, store.start)
    BY <1>3, NextBlock
  <2>2. Sound(st, L) /\ st.start = n /\ st.change <= store.change
    BY <1>1, <1>2, <2>1, EpochStored
  <2>3. store' = RemoveOldEpochData(UpdateEarliestEpochstart(st, n)) /\ history' = L
    BY <1>3 DEF EpochBeginBlock, EpochStart, Longer
  <2> HIDE DEF st, L
  <2>4. Sound(store', history') /\ store'.start = n /\ store'.change = st.change
    BY <2>2, <2>3, EpochsForgotten
  <2>5. Length(history', n) \in Nat \ {0}
    <3>1. Calendar(history', n)
      BY <2>4 DEF Sound
    <3> QED BY <3>1, CalendarFacts
  <2>6. st.change \in Nat
    BY <2>2, StoreFields DEF Sound
  <2>7. store'.change <= n
    BY <1>1, <1>2, <2>2, <2>4, <2>6
  <2>8. store'.start <= n /\ n < store'.start + Length(history', store'.start)
    BY <1>2, <2>4, <2>5
  <2> QED BY <1>2, <2>4, <2>7, <2>8 DEF EpochInv
<1>4. CASE BlockInEpoch(store, n) # 0
  <2>1. n < store.start + Length(history, store.start)
    BY <1>4, NextBlock
  <2>2. store' = store /\ history' = history
    BY <1>4 DEF EpochBeginBlock
  <2>3. store.change <= n /\ store.start <= n
    BY <1>1, <1>2
  <2> QED BY <1>1, <1>2, <2>1, <2>2, <2>3 DEF EpochInv
<1> QED BY <1>3, <1>4

\* A change of parameters.
LEMMA ChangeParamsKeeps ==
    ASSUME EpochInv, NEW p \in Params, ChangeParams(p)
    PROVE  EpochInv'
<1>1. /\ height \in Nat /\ store.change <= height /\ store.start <= height
      /\ height < store.start + Length(history, store.start)
      /\ Sound(store, history)
  BY DEF EpochInv
<1>2. /\ store \in Store /\ ~store.panic /\ Calendar(history, store.start)
      /\ \A key \in FixationKeys : /\ Truthful(store.fixated[key], key, history, store.earliest)
                                   /\ Recent(store.fixated[key], history, store.earliest, store.change)
      /\ Remembered(store, history)
  BY <1>1 DEF Sound
<1>3. /\ height' = height /\ history' = history /\ height > 0
      /\ store' = [store EXCEPT !.params = p, !.change = height]
  BY DEF ChangeParams
<1>4. /\ store' \in Store /\ store'.change = height
      /\ store'.fixated = store.fixated /\ store'.start = store.start
      /\ store'.earliest = store.earliest /\ store'.deleted = store.deleted
      /\ store'.stored = store.stored /\ store'.panic = store.panic
  BY <1>1, <1>2, <1>3 DEF Store
<1>5. \A key \in FixationKeys : Recent(store.fixated[key], history, store.earliest, height)
  <2>1. \A h \in DOMAIN history : h \in Nat
    BY <1>2, CalendarFacts
  <2>2. store.change \in Nat
    BY <1>2, StoreFields
  <2>3. \A h \in DOMAIN history : h <= store.change => h <= height
    BY <1>1, <2>1, <2>2
  <2> QED BY <1>2, <2>3 DEF Recent
<1>6. Announced(store', history')
  BY <1>1, <1>3, <1>4 DEF Announced
<1>7. Remembered(store', history')
  BY <1>2, <1>3, <1>4 DEF Remembered
<1>8. \A key \in FixationKeys :
        /\ Truthful(store'.fixated[key], key, history', store'.earliest)
        /\ Recent(store'.fixated[key], history', store'.earliest, store'.change)
  BY <1>2, <1>3, <1>4, <1>5
<1>9. Sound(store', history')
  BY <1>2, <1>3, <1>4, <1>6, <1>7, <1>8 DEF Sound
<1>10. height <= height
  BY <1>1
<1> QED BY <1>1, <1>3, <1>4, <1>9, <1>10 DEF EpochInv

\* Every step.
LEMMA EpochInvNext == EpochInv /\ [EpochNext]_epochVars => EpochInv'
<1> SUFFICES ASSUME EpochInv, [EpochNext]_epochVars PROVE EpochInv'
  OBVIOUS
<1>1. CASE EpochBeginBlock
  BY <1>1, BeginBlockKeeps
<1>2. CASE \E p \in Params : ChangeParams(p)
  BY <1>2, ChangeParamsKeeps
<1>3. CASE UNCHANGED epochVars
  BY <1>3 DEF epochVars, EpochInv
<1> QED BY <1>1, <1>2, <1>3 DEF EpochNext

-----------------------------------------------------------------------------
(* The theorems. *)

\* The invariant implies what the module answers for the blocks in memory.
LEMMA InvIsTruthful == EpochInv => PastIsTruthful
<1> SUFFICES ASSUME EpochInv PROVE PastIsTruthful
  OBVIOUS
<1>1. /\ height \in Nat /\ Sound(store, history)
      /\ height < store.start + Length(history, store.start)
  BY DEF EpochInv
<1>2. ~store.panic /\ Calendar(history, store.start) /\ store.earliest \in DOMAIN history
  BY <1>1 DEF Sound, Remembered
<1>3. /\ DOMAIN history \in SUBSET Nat
      /\ \A h \in DOMAIN history :
           /\ h \in Nat /\ Length(history, h) \in Nat \ {0}
           /\ h # store.start => h + Length(history, h) \in DOMAIN history
  BY <1>2, CalendarFacts
<1>4. ASSUME NEW b \in store.earliest..height
      PROVE  /\ GetEpochStartForBlock(store, b) = RealEpochStart(b)
             /\ \A key \in FixationKeys :
                  /\ Known(store, key, b)
                  /\ GetParamForBlock(store, key, b) = history[RealEpochStart(b)][key]
  <2> DEFINE T == {h \in DOMAIN history : h <= b}
             m == RealEpochStart(b)
  <2>1. b \in Nat /\ store.earliest \in T /\ b <= height
    BY <1>1, <1>2, <1>3
  <2>2. T \in SUBSET Nat /\ \A h \in T : h <= b
    BY <1>3
  <2>3. m = Max(T)
    BY DEF RealEpochStart
  <2>4. m \in T /\ \A h \in T : h <= m
    <3> HIDE DEF T, m
    <3> QED BY <2>1, <2>2, <2>3, GreatestNumber
  <2>5. m \in DOMAIN history /\ m <= b /\ m >= store.earliest /\ m \in Nat
    BY <1>2, <1>3, <2>1, <2>4
  <2> HIDE DEF m
  <2>6. b < m + Length(history, m)
    <3>1. CASE m = store.start
      BY <1>1, <1>3, <2>1, <2>5, <3>1
    <3>2. CASE m # store.start
      <4>1. m + Length(history, m) \in DOMAIN history
        BY <1>3, <2>5, <3>2
      <4>2. ~ (m + Length(history, m) <= b)
        BY <1>3, <2>4, <2>5, <4>1
      <4> QED BY <1>3, <2>1, <2>5, <4>2
    <3> QED BY <3>1, <3>2
  <2>7. /\ GetEpochStartForBlock(store, b) = m
        /\ \A key \in FixationKeys :
             Known(store, key, b) /\ GetParamForBlock(store, key, b) = history[m][key]
    BY <1>1, <2>1, <2>5, <2>6, BlockOfEpoch
  <2> QED BY <2>7 DEF m
<1> QED BY <1>2, <1>4 DEF PastIsTruthful

\* For every block in memory GetEpochStartForBlock and GetParamForBlock answer with
\* the epoch that the block belonged to and its parameters, however often governance
\* changed them, and UpdateEarliestEpochstart never panics.
THEOREM PastStaysTruthful == EpochSpec => []PastIsTruthful
  BY EpochInvInit, EpochInvNext, InvIsTruthful, PTL DEF EpochSpec

\* The stake storages are those of the epochs in memory: RemoveOldEpochData leaks no
\* epoch and removes none too early.
THEOREM EpochsAreStored == EpochSpec => []StoredEpochs
<1>1. EpochInv => StoredEpochs
  BY DEF EpochInv, Sound, Remembered, StoredEpochs
<1> QED BY <1>1, EpochInvInit, EpochInvNext, PTL DEF EpochSpec

\* The next epoch begins at the block that GetCurrentNextEpoch announced, while more
\* than one epoch is in memory.
THEOREM NextEpochIsForeseen == EpochSpec => NextEpochForeseen
<1>1. ASSUME EpochInv, [EpochNext]_epochVars
      PROVE  [store'.start # store.start /\ store.earliest # store.start =>
                store'.start = GetCurrentNextEpoch(store, height)]_epochVars
  <2> SUFFICES ASSUME store'.start # store.start, store.earliest # store.start
               PROVE  store'.start = GetCurrentNextEpoch(store, height)
    OBVIOUS
  <2>1. /\ height \in Nat /\ store.start <= height /\ Sound(store, history)
        /\ height < store.start + Length(history, store.start)
    BY <1>1 DEF EpochInv
  <2>2. /\ Calendar(history, store.start) /\ store.earliest \in DOMAIN history /\ store \in Store
    BY <2>1 DEF Sound, Remembered
  <2>3. EpochBeginBlock
    <3>1. ASSUME NEW p \in Params, ChangeParams(p) PROVE store'.start = store.start
      BY <2>2, <3>1 DEF ChangeParams, Store
    <3> QED BY <1>1, <3>1 DEF EpochNext, epochVars
  <2>4. BlockInEpoch(store, height + 1) = 0
    BY <2>3 DEF EpochBeginBlock
  <2>5. store'.start = height + 1
    <3> DEFINE n == height + 1
               st == StoreEpoch(FixateParams(store, n), n)
    <3>1. n \in Nat /\ n = store.start + Length(history, store.start)
      BY <1>1, <2>4, NextBlock
    <3>2. Sound(st, Longer(history, n, store.params)) /\ st.start = n
      BY <2>1, <3>1, EpochStored
    <3>3. store' = RemoveOldEpochData(UpdateEarliestEpochstart(st, n))
      BY <2>3, <2>4 DEF EpochBeginBlock, EpochStart
    <3> HIDE DEF st
    <3> QED BY <3>2, <3>3, EpochsForgotten
  <2>6. height + 1 = store.start + Length(history, store.start)
    BY <1>1, <2>4, NextBlock
  <2>7. GetNextEpoch(store, height) = store.start + Length(history, store.start)
    <3>1. store.start \in DOMAIN history /\ store.start >= store.earliest
      BY <2>2, CalendarFacts
    <3> QED BY <2>1, <3>1, BlockOfEpoch
  <2> QED BY <2>5, <2>6, <2>7 DEF GetCurrentNextEpoch
<1> QED BY <1>1, EpochInvInit, EpochInvNext, PTL DEF EpochSpec, NextEpochForeseen

=============================================================================
