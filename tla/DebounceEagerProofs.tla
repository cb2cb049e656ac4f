------------------------- MODULE DebounceEagerProofs -------------------------
(***************************************************************************)
(* Proofs about DebounceEager for any keys in any rows, debounce time,    *)
(* counters and timer: a group of keys stays locked for DEBOUNCE ticks    *)
(* after a change, and not for longer, unless the timer wraps.            *)
(***************************************************************************)
EXTENDS DebounceEager, Integers, TLAPS

\* Two times modulo max that are x apart: the macro never measures more, and
\* it measures x if that is less than max.
LEMMA CounterDiff ==
  ASSUME NEW max \in Nat \ {0}, NEW t \in Nat, NEW x \in Nat
  PROVE  /\ TIMER_DIFF((t + x) % max, t % max, max) \in Nat
         /\ TIMER_DIFF((t + x) % max, t % max, max) <= x
         /\ x < max => TIMER_DIFF((t + x) % max, t % max, max) = x
<1> DEFINE n == (t + x) % max
           c == t % max
           k == ((t + x) \div max) - (t \div max)
<1>1. n \in 0 .. max - 1 /\ c \in 0 .. max - 1 /\ k \in Int
  OBVIOUS
<1>2. x = max * k + n - c
  <2>1. t + x = max * ((t + x) \div max) + n /\ t = max * (t \div max) + c
    OBVIOUS
  <2>2. max * ((t + x) \div max) - max * (t \div max) = max * k
    OBVIOUS
  <2> HIDE DEF n, c, k
  <2>3. (t + x) \div max \in Int /\ t \div max \in Int
    OBVIOUS
  <2> QED
    BY <2>1, <2>2, <2>3, <1>1
<1> HIDE DEF n, c, k
<1>3. CASE k <= -1
  <2>1. max * k <= -max
    BY <1>1, <1>3
  <2> QED
    BY <1>1, <1>2, <2>1
<1>4. CASE k = 0
  <2>1. max * k = 0
    BY <1>1, <1>4
  <2> QED
    BY <1>1, <1>2, <2>1 DEF TIMER_DIFF, n, c
<1>5. CASE k = 1
  <2>1. max * k = max
    BY <1>1, <1>5
  <2>2. x = max + n - c
    BY <1>2, <2>1
  <2> QED
    BY <1>1, <2>2 DEF TIMER_DIFF, n, c
<1>6. CASE k >= 2
  <2>1. max * k >= max + max
    BY <1>1, <1>6
  <2> QED
    BY <1>1, <1>2, <2>1 DEF TIMER_DIFF, n, c
<1> QED
  BY <1>1, <1>3, <1>4, <1>5, <1>6

-----------------------------------------------------------------------------
(* What a scan does.                                                       *)

CounterValues == (0 .. MAX_DEBOUNCE - 1) \cup {DEBOUNCE_ELAPSED}

\* The counters a scan goes by, and the groups it passes on.
Counters   == UpdatedCounters(CurrentTime)
PassedScan == Passed(Counters)

LEMMA EagerTypes ==
  /\ MAX_DEBOUNCE \in Nat \ {0} /\ DEBOUNCE \in Nat /\ TimerMax \in Nat
  /\ DEBOUNCE_ELAPSED \in Nat /\ DEBOUNCE_ELAPSED \notin 0 .. MAX_DEBOUNCE - 1
  /\ \A d \in TimeSteps \cup LongGaps : d \in Nat /\ d <= TimerMax
BY MatrixAssumption, EagerAssumption DEF DEBOUNCE_ELAPSED

\* The groups are a partition of the keys.
LEMMA GroupsPart ==
  /\ UNION Groups = Keys
  /\ \A g, h \in Groups : \A k \in g : k \in h => g = h
<1>1. CASE per_row
  <2>2. UNION Rows = Keys /\ \A g, h \in Rows : g = h \/ g \cap h = {}
    BY EagerAssumption
  <2>3. \A g, h \in Rows : \A k \in g : k \in h => g = h
    BY <2>2
  <2> QED
    <3>1. Groups = Rows
      BY <1>1 DEF Groups
    <3>2. UNION Groups = Keys
      BY <3>1, <2>2
    <3>3. \A g, h \in Groups : \A k \in g : k \in h => g = h
      BY <3>1, <2>3
    <3> QED
      BY <3>2, <3>3
<1>2. CASE ~per_row
  <2>1. Groups = {{k} : k \in Keys}
    BY <1>2 DEF Groups
  <2>2. \A g \in Groups : \E k \in Keys : g = {k}
    BY <2>1
  <2>3. \A k \in Keys : {k} \in Groups
    BY <2>1
  <2>4. UNION Groups = Keys
    BY <2>2, <2>3
  <2>5. \A g, h \in Groups : \A k \in g : k \in h => g = h
    BY <2>2
  <2> QED
    BY <2>4, <2>5
<1> QED
  BY <1>1, <1>2

LEMMA ScanTime ==
  ASSUME IInv, NEW d \in TimeSteps \cup LongGaps, Scan(d)
  PROVE  /\ timer \in Nat /\ timer' \in 0 .. TimerMax /\ d \in Nat
         /\ Ticks = d
         /\ Wraps(d) => timer' < timer
         /\ ~Wraps(d) => timer' = timer + d
         /\ CurrentTime \in 0 .. MAX_DEBOUNCE - 1
<1>1. /\ timer \in 0 .. TimerMax /\ d \in Nat /\ d <= TimerMax /\ TimerMax \in Nat
      /\ MAX_DEBOUNCE \in Nat \ {0}
  BY EagerTypes DEF IInv, TypeOK, MatrixTypeOK
<1>2. timer' = IF timer + d > TimerMax THEN timer + d - (TimerMax + 1) ELSE timer + d
  BY DEF Scan, ReadSwitches, Wraps
<1>3. timer' \in 0 .. TimerMax
  BY <1>1, <1>2
<1>4. \A n \in Nat, m \in Nat : n < m => n % m = n /\ (n + m) % m = n
  OBVIOUS
<1>5. Ticks = d
  <2>1. CASE timer + d > TimerMax
    <3>1. timer' + TimerMax + 1 - timer = d
      BY <1>1, <1>2, <2>1
    <3> QED
      BY <3>1, <1>1, <1>4 DEF Ticks
  <2>2. CASE ~(timer + d > TimerMax)
    <3>1. timer' + TimerMax + 1 - timer = d + (TimerMax + 1)
      BY <1>1, <1>2, <2>2
    <3> QED
      BY <3>1, <1>1, <1>4 DEF Ticks
  <2> QED
    BY <2>1, <2>2
<1>6. CurrentTime \in 0 .. MAX_DEBOUNCE - 1
  <2>1. CurrentTime = timer' % MAX_DEBOUNCE
    BY DEF CurrentTime
  <2>2. timer' \in Nat
    BY <1>1, <1>3
  <2>3. \A n \in Nat, m \in Nat \ {0} : n % m \in 0 .. m - 1
    OBVIOUS
  <2> QED
    BY <2>1, <2>2, <2>3, <1>1
<1> QED
  BY <1>1, <1>2, <1>3, <1>5, <1>6 DEF Wraps

LEMMA CountersType ==
  ASSUME IInv, NEW d \in TimeSteps \cup LongGaps, Scan(d)
  PROVE  /\ Counters \in [Groups -> CounterValues]
         /\ PassedScan \subseteq Groups
         /\ \A g \in Groups :
              Counters[g] = IF /\ counters_need_update
                               /\ debounce_counters[g] # DEBOUNCE_ELAPSED
                               /\ TIMER_DIFF(CurrentTime, debounce_counters[g], MAX_DEBOUNCE) >= DEBOUNCE
                            THEN DEBOUNCE_ELAPSED ELSE debounce_counters[g]
<1>1. debounce_counters \in [Groups -> CounterValues]
  BY DEF IInv, TypeOK, CounterValues
<1> QED
  BY <1>1 DEF Counters, UpdatedCounters, PassedScan, Passed, CounterValues

\* The groups of a build stay the same.
LEMMA ScanIs ==
  ASSUME NEW d, Scan(d)
  PROVE  /\ Groups' = Groups /\ per_row' = per_row /\ raw' \in SUBSET Keys
         /\ debounce_counters' =
              [g \in Groups |-> IF g \in PassedScan THEN CurrentTime ELSE Counters[g]]
         /\ counters_need_update' =
              (PassedScan # {} \/ (counters_need_update /\ Running(Counters)))
         /\ matrix_need_update' =
              IF TransferDue(Counters)
              THEN \E g \in Groups : Differs(g) /\ g \notin PassedScan
              ELSE matrix_need_update
         /\ cooked' = (cooked \ UNION PassedScan) \cup (raw' \cap UNION PassedScan)
         /\ age' = [g \in Groups |-> IF g \in PassedScan THEN 0
                                     ELSE IF age[g] + d > DEBOUNCE THEN DEBOUNCE ELSE age[g] + d]
         /\ wrapped' = IF Wraps(d) THEN Groups \ PassedScan ELSE wrapped \ PassedScan
         /\ skipped' = IF d \in LongGaps THEN Groups \ PassedScan ELSE skipped \ PassedScan
<1>1. Groups' = Groups /\ per_row' = per_row
  BY DEF Scan, Groups
<1> QED
  BY <1>1, Zenon DEF Scan, ReadSwitches, History, Counters, PassedScan

LEMMA ScanType ==
  ASSUME IInv, NEW d \in TimeSteps \cup LongGaps, Scan(d)
  PROVE  TypeOK'
<1>1. /\ Groups' = Groups /\ per_row \in BOOLEAN /\ wrapped \subseteq Groups
      /\ skipped \subseteq Groups /\ cooked \subseteq Keys /\ age \in [Groups -> 0 .. DEBOUNCE]
      /\ matrix_need_update \in BOOLEAN /\ counters_need_update \in BOOLEAN
  BY ScanIs DEF IInv, TypeOK, MatrixTypeOK
<1>2. CurrentTime \in CounterValues /\ PassedScan \subseteq Groups
      /\ Counters \in [Groups -> CounterValues] /\ d \in Nat /\ DEBOUNCE \in Nat
      /\ timer' \in 0 .. TimerMax
  BY ScanTime, CountersType, EagerTypes DEF CounterValues
<1>3. debounce_counters' \in [Groups -> CounterValues]
  BY <1>1, <1>2, ScanIs
<1>4. age' \in [Groups -> 0 .. DEBOUNCE]
  <2>1. \A g \in Groups : age[g] \in 0 .. DEBOUNCE
    BY <1>1
  <2>2. \A g \in Groups : (IF g \in PassedScan THEN 0
                           ELSE IF age[g] + d > DEBOUNCE THEN DEBOUNCE ELSE age[g] + d)
                          \in 0 .. DEBOUNCE
    BY <2>1, <1>2
  <2>3. age' = [g \in Groups |-> IF g \in PassedScan THEN 0
                                ELSE IF age[g] + d > DEBOUNCE THEN DEBOUNCE ELSE age[g] + d]
    BY ScanIs
  <2> QED
    BY <2>2, <2>3
<1>5. wrapped' \subseteq Groups /\ skipped' \subseteq Groups
  BY <1>1, ScanIs
<1>6. UNION PassedScan \subseteq Keys
  BY <1>2, GroupsPart
<1>7. raw' \subseteq Keys /\ cooked' \subseteq Keys /\ per_row' \in BOOLEAN
  BY <1>1, <1>6, ScanIs
<1>8. counters_need_update' \in BOOLEAN
  BY ScanIs
<1>9. matrix_need_update' \in BOOLEAN
  BY <1>1, ScanIs
<1> QED
  BY <1>1, <1>2, <1>3, <1>4, <1>5, <1>7, <1>8, <1>9 DEF TypeOK, MatrixTypeOK, CounterValues

-----------------------------------------------------------------------------
(* The lock of a group.                                                    *)

\* A group that is passed on had no counter running, or one that is over.
LEMMA PassedIs ==
  ASSUME IInv, NEW d \in TimeSteps \cup LongGaps, Scan(d),
         NEW g \in Groups, PassedNow(g)
  PROVE  g \in PassedScan /\ Counters[g] = DEBOUNCE_ELAPSED
<1>1. cooked' = (cooked \ UNION PassedScan) \cup (raw' \cap UNION PassedScan)
  BY ScanIs
<1>2. PICK k \in g : k \in UNION PassedScan
  BY <1>1 DEF PassedNow
<1>3. PICK h \in PassedScan : k \in h
  BY <1>2
<1>4. PassedScan \subseteq Groups
  BY CountersType
<1>5. g = h
  BY <1>3, <1>4, GroupsPart
<1> QED
  BY <1>3, <1>5 DEF PassedScan, Passed

\* A running counter of which the age is known measures it, and never too
\* much.
LEMMA CounterMeasures ==
  ASSUME IInv, NEW d \in TimeSteps \cup LongGaps, Scan(d), ~Wraps(d),
         NEW g \in Groups, g \notin wrapped,
         debounce_counters[g] # DEBOUNCE_ELAPSED, age[g] < DEBOUNCE
  PROVE  LET diff == TIMER_DIFF(CurrentTime, debounce_counters[g], MAX_DEBOUNCE)
         IN  /\ diff \in Nat /\ diff <= age[g] + d
             /\ age[g] + d < MAX_DEBOUNCE => diff = age[g] + d
<1> DEFINE t == timer - age[g]
           x == age[g] + d
<1>1. /\ age[g] \in Nat /\ d \in Nat /\ timer \in Nat /\ timer' = timer + d
      /\ MAX_DEBOUNCE \in Nat \ {0}
  BY ScanTime, EagerTypes DEF IInv, TypeOK
<1>2. age[g] <= timer /\ debounce_counters[g] = t % MAX_DEBOUNCE
  BY DEF IInv, CounterInv
<1>3. t \in Nat /\ x \in Nat /\ timer' = t + x
  BY <1>1, <1>2
<1> HIDE DEF t, x
<1>4. CurrentTime = (t + x) % MAX_DEBOUNCE
  BY <1>3 DEF CurrentTime
<1>5. LET diff == TIMER_DIFF(CurrentTime, debounce_counters[g], MAX_DEBOUNCE)
      IN  diff \in Nat /\ diff <= x /\ (x < MAX_DEBOUNCE => diff = x)
  BY <1>1, <1>2, <1>3, <1>4, CounterDiff
<1> QED
  BY <1>5 DEF x

\* When the counter of a group is over, so is the lock.
LEMMA LockOver ==
  ASSUME IInv, NEW d \in TimeSteps \cup LongGaps, Scan(d), ~Wraps(d),
         NEW g \in Groups, g \notin wrapped, Counters[g] = DEBOUNCE_ELAPSED
  PROVE  age[g] + d >= DEBOUNCE
<1>1. age[g] \in 0 .. DEBOUNCE /\ d \in Nat /\ DEBOUNCE \in Nat
  BY EagerTypes DEF IInv, TypeOK
<1>2. CASE debounce_counters[g] = DEBOUNCE_ELAPSED
  BY <1>1, <1>2 DEF IInv, CounterInv
<1>3. CASE debounce_counters[g] # DEBOUNCE_ELAPSED
  <2>1. TIMER_DIFF(CurrentTime, debounce_counters[g], MAX_DEBOUNCE) >= DEBOUNCE
    BY <1>3, CountersType
  <2> SUFFICES ASSUME age[g] < DEBOUNCE
               PROVE  age[g] + d >= DEBOUNCE
      BY <1>1
  <2> QED
    BY <2>1, <1>1, <1>3, CounterMeasures
<1> QED
  BY <1>2, <1>3

\* And when the lock is over, so is the counter, but for a long gap.
LEMMA CounterOver ==
  ASSUME IInv, NEW d \in TimeSteps \ LongGaps, Scan(d), ~Wraps(d),
         NEW g \in Groups, g \notin wrapped \cup skipped, age[g] + d >= DEBOUNCE
  PROVE  Counters[g] = DEBOUNCE_ELAPSED
<1>1. /\ age[g] \in 0 .. DEBOUNCE /\ d \in Nat /\ DEBOUNCE \in Nat /\ MAX_DEBOUNCE \in Nat
      /\ DEBOUNCE + d <= MAX_DEBOUNCE
  BY EagerTypes, EagerAssumption DEF IInv, TypeOK
<1> SUFFICES ASSUME debounce_counters[g] # DEBOUNCE_ELAPSED
             PROVE  TIMER_DIFF(CurrentTime, debounce_counters[g], MAX_DEBOUNCE) >= DEBOUNCE
  <2>1. debounce_counters[g] # DEBOUNCE_ELAPSED => counters_need_update
    BY DEF IInv, Running
  <2> QED
    BY <2>1, CountersType
<1>2. CASE age[g] < DEBOUNCE
  <2>1. age[g] + d < MAX_DEBOUNCE
    BY <1>1, <1>2
  <2> QED
    BY <2>1, <1>1, <1>2, CounterMeasures
<1>3. CASE DEBOUNCE = 0
  <2>1. CurrentTime \in 0 .. MAX_DEBOUNCE - 1
    BY ScanTime
  <2>2. debounce_counters[g] \in 0 .. MAX_DEBOUNCE - 1
    BY DEF IInv, TypeOK
  <2> QED
    BY <1>1, <1>3, <2>1, <2>2 DEF TIMER_DIFF
<1> QED
  BY <1>2, <1>3 DEF IInv, CounterInv

-----------------------------------------------------------------------------
(* The invariant.                                                          *)

LEMMA EagerInitInv == Init => IInv
<1> SUFFICES ASSUME Init
             PROVE  IInv
    OBVIOUS
<1>1. DEBOUNCE \in 0 .. DEBOUNCE /\ 0 \in 0 .. TimerMax
  BY EagerTypes
<1>2. TypeOK
  BY <1>1 DEF Init, MatrixInit, TypeOK, MatrixTypeOK
<1>3. \A g \in Groups : debounce_counters[g] = DEBOUNCE_ELAPSED /\ age[g] = DEBOUNCE
  BY DEF Init
<1>4. cooked = raw
  BY DEF Init, MatrixInit
<1> QED
  BY <1>2, <1>3, <1>4 DEF IInv, Running, CounterInv

LEMMA ScanCounterInv ==
  ASSUME IInv, NEW d \in TimeSteps \cup LongGaps, Scan(d),
         NEW g \in Groups, g \notin wrapped'
  PROVE  CounterInv(g)'
<1>1. /\ age[g] \in 0 .. DEBOUNCE /\ d \in Nat /\ DEBOUNCE \in Nat /\ timer' \in Nat
      /\ debounce_counters'[g] = IF g \in PassedScan THEN CurrentTime ELSE Counters[g]
      /\ age'[g] = IF g \in PassedScan THEN 0
                   ELSE IF age[g] + d > DEBOUNCE THEN DEBOUNCE ELSE age[g] + d
  <2>1. age[g] \in 0 .. DEBOUNCE /\ d \in Nat /\ DEBOUNCE \in Nat /\ timer' \in Nat
    BY EagerTypes, ScanTime DEF IInv, TypeOK
  <2>2. /\ debounce_counters' =
              [h \in Groups |-> IF h \in PassedScan THEN CurrentTime ELSE Counters[h]]
        /\ age' = [h \in Groups |-> IF h \in PassedScan THEN 0
                                   ELSE IF age[h] + d > DEBOUNCE THEN DEBOUNCE ELSE age[h] + d]
    BY ScanIs
  <2> QED
    BY <2>1, <2>2
<1>2. CASE g \in PassedScan
  <2>1. debounce_counters'[g] = CurrentTime /\ age'[g] = 0
    BY <1>1, <1>2
  <2>2. CurrentTime # DEBOUNCE_ELAPSED
    BY ScanTime, EagerTypes
  <2>3. CurrentTime = (timer' - 0) % MAX_DEBOUNCE
    BY <1>1 DEF CurrentTime
  <2>4. 0 <= timer' /\ (0 < DEBOUNCE \/ DEBOUNCE = 0)
    BY <1>1
  <2> QED
    BY <2>1, <2>2, <2>3, <2>4 DEF CounterInv, DEBOUNCE_ELAPSED
<1>3. CASE g \notin PassedScan
  <2>1. /\ debounce_counters'[g] = Counters[g]
        /\ age'[g] = IF age[g] + d > DEBOUNCE THEN DEBOUNCE ELSE age[g] + d
    BY <1>1, <1>3
  <2>2. ~Wraps(d) /\ g \notin wrapped
    BY <1>3, ScanIs
  <2>3. CASE Counters[g] = DEBOUNCE_ELAPSED
    <3>1. age[g] + d >= DEBOUNCE
      BY <2>2, <2>3, LockOver
    <3>2. age'[g] = DEBOUNCE
      BY <3>1, <2>1, <1>1
    <3> QED
      BY <3>2, <2>1, <2>3 DEF CounterInv, DEBOUNCE_ELAPSED
  <2>4. CASE Counters[g] # DEBOUNCE_ELAPSED
    <3>1. debounce_counters[g] = Counters[g]
      BY <2>4, CountersType
    <3>2. ASSUME age'[g] < DEBOUNCE
          PROVE  age'[g] <= timer' /\ Counters[g] = (timer' - age'[g]) % MAX_DEBOUNCE
      <4>1. age'[g] = age[g] + d /\ age[g] < DEBOUNCE
        BY <3>2, <2>1, <1>1
      <4>2. age[g] <= timer /\ Counters[g] = (timer - age[g]) % MAX_DEBOUNCE
        BY <4>1, <3>1, <2>2, <2>4 DEF IInv, CounterInv
      <4>3. timer' = timer + d /\ timer \in Nat
        BY <2>2, ScanTime
      <4>4. timer' - age'[g] = timer - age[g]
        BY <4>1, <4>3, <1>1
      <4> QED
        BY <4>1, <4>2, <4>3, <4>4, <1>1
    <3>3. ASSUME g \notin skipped' PROVE age'[g] < DEBOUNCE \/ DEBOUNCE = 0
      <4>1. g \notin skipped /\ d \in TimeSteps \ LongGaps
        BY <3>3, <1>3, ScanIs
      <4>2. ~(age[g] + d >= DEBOUNCE)
        BY <4>1, <2>2, <2>4, CounterOver
      <4> QED
        BY <4>2, <2>1, <1>1
    <3> QED
      BY <3>2, <3>3, <2>1, <2>4 DEF CounterInv, DEBOUNCE_ELAPSED
  <2> QED
    BY <2>3, <2>4
<1> QED
  BY <1>2, <1>3

\* What is passed on shows the switches, and what differs waits.
LEMMA ScanShows ==
  ASSUME IInv, NEW d \in TimeSteps \cup LongGaps, Scan(d), NEW g \in Groups,
         ~matrix_need_update' \/ Counters[g] = DEBOUNCE_ELAPSED
  PROVE  cooked' \cap g = raw' \cap g
<1>1. cooked' = (cooked \ UNION PassedScan) \cup (raw' \cap UNION PassedScan)
  BY ScanIs
<1>2. CASE ~TransferDue(Counters)
  <2>1. PassedScan = {} /\ raw' = raw /\ ~matrix_need_update
    BY <1>2 DEF PassedScan, Passed, TransferDue
  <2>2. cooked = raw
    BY <2>1 DEF IInv
  <2> QED
    BY <1>1, <2>1, <2>2
<1>3. CASE TransferDue(Counters)
  <2>1. g \in PassedScan \/ ~Differs(g)
    <3>1. CASE Counters[g] = DEBOUNCE_ELAPSED
      BY <1>3, <3>1 DEF PassedScan, Passed
    <3>2. CASE ~matrix_need_update'
      <4>1. matrix_need_update' = \E h \in Groups : Differs(h) /\ h \notin PassedScan
        BY <1>3, ScanIs
      <4> QED
        BY <4>1, <3>2
    <3> QED
      BY <3>1, <3>2
  <2>2. CASE g \in PassedScan
    <3>1. \A k \in g : k \in UNION PassedScan
      BY <2>2
    <3> QED
      BY <3>1, <1>1
  <2>3. CASE ~Differs(g)
    BY <2>3, <1>1 DEF Differs
  <2> QED
    BY <2>1, <2>2, <2>3
<1> QED
  BY <1>2, <1>3

LEMMA EagerNextInv == IInv /\ [Next]_vars => IInv'
<1> SUFFICES ASSUME IInv, [Next]_vars
             PROVE  IInv'
    OBVIOUS
<1>1. CASE Next
  <2>1. PICK d \in TimeSteps \cup LongGaps : Scan(d)
    BY <1>1 DEF Next
  <2>2. TypeOK' /\ Groups' = Groups
    BY <2>1, ScanType, ScanIs
  <2>3. \A g \in Groups \ wrapped' : CounterInv(g)'
    BY <2>1, ScanCounterInv
  <2>4. ASSUME NEW g \in Groups, debounce_counters'[g] # DEBOUNCE_ELAPSED
        PROVE  counters_need_update'
    <3>1. debounce_counters'[g] = IF g \in PassedScan THEN CurrentTime ELSE Counters[g]
      BY <2>1, ScanIs
    <3>2. counters_need_update' = (PassedScan # {} \/ (counters_need_update /\ Running(Counters)))
      BY <2>1, ScanIs
    <3>3. CASE g \in PassedScan
      BY <3>2, <3>3
    <3>4. CASE g \notin PassedScan
      <4>1. Counters[g] # DEBOUNCE_ELAPSED
        BY <3>1, <3>4, <2>4
      <4>2. debounce_counters[g] # DEBOUNCE_ELAPSED
        BY <4>1, <2>1, CountersType
      <4>3. counters_need_update /\ Running(Counters)
        BY <4>1, <4>2 DEF IInv, Running
      <4> QED
        BY <4>3, <3>2
    <3> QED
      BY <3>3, <3>4
  <2>5. ASSUME ~matrix_need_update' PROVE cooked' = raw'
    <3>1. \A g \in Groups : cooked' \cap g = raw' \cap g
      BY <2>1, <2>5, ScanShows
    <3>2. cooked' \subseteq UNION Groups /\ raw' \subseteq UNION Groups
      BY <2>2, GroupsPart DEF TypeOK, MatrixTypeOK
    <3>3. ASSUME NEW k \in UNION Groups PROVE k \in cooked' <=> k \in raw'
      <4>1. PICK g \in Groups : k \in g
        OBVIOUS
      <4>2. cooked' \cap g = raw' \cap g
        BY <3>1
      <4> QED
        BY <4>1, <4>2
    <3> QED
      BY <3>2, <3>3
  <2>6. Running(debounce_counters)' => counters_need_update'
    BY <2>2, <2>4 DEF Running, DEBOUNCE_ELAPSED
  <2> QED
    BY <2>2, <2>3, <2>5, <2>6 DEF IInv
<1>2. CASE UNCHANGED vars
  <2>1. UNCHANGED <<raw, cooked, timer, per_row, debounce_counters, counters_need_update,
                    matrix_need_update, age, wrapped, skipped>>
    BY <1>2 DEF vars, matrixVars
  <2>2. TypeOK' /\ Groups' = Groups
    BY <2>1 DEF IInv, TypeOK, MatrixTypeOK, Groups
  <2>3. Running(debounce_counters)' = Running(debounce_counters)
    BY <2>1, <2>2 DEF Running
  <2>4. \A g \in Groups \ wrapped : CounterInv(g)'
    BY <2>1 DEF IInv, CounterInv
  <2> QED
    BY <2>1, <2>2, <2>3, <2>4 DEF IInv
<1> QED
  BY <1>1, <1>2

\* The types, and the invariant itself.
THEOREM EagerInvariance == Spec => [](TypeOK /\ IInv)
<1>1. Init => IInv
  BY EagerInitInv
<1>2. IInv /\ [Next]_vars => IInv'
  BY EagerNextInv
<1>3. IInv => TypeOK /\ IInv
  BY DEF IInv
<1> QED
  BY <1>1, <1>2, <1>3, PTL DEF Spec

\* After a change is passed on, no other of its group is for DEBOUNCE ticks,
\* unless the timer wraps.
THEOREM Lock == Spec => LockedUnlessWrapped
<1>1. Init => IInv
  BY EagerInitInv
<1>2. IInv /\ [Next]_vars => IInv'
  BY EagerNextInv
<1>3. IInv /\ [Next]_vars =>
        [\A g \in Groups : PassedNow(g) =>
           \/ g \in wrapped \/ timer' < timer
           \/ age[g] + Ticks >= DEBOUNCE]_vars
  <2> SUFFICES ASSUME IInv, NEW d \in TimeSteps \cup LongGaps, Scan(d),
                      NEW g \in Groups, PassedNow(g), g \notin wrapped, ~(timer' < timer)
               PROVE  age[g] + Ticks >= DEBOUNCE
      BY DEF Next
  <2>1. ~Wraps(d) /\ Ticks = d
    BY ScanTime
  <2>2. Counters[g] = DEBOUNCE_ELAPSED
    BY PassedIs
  <2> QED
    BY <2>1, <2>2, LockOver
<1> QED
  BY <1>1, <1>2, <1>3, PTL DEF Spec, LockedUnlessWrapped

\* Once the lock is over, the matrix shows what the switches of the group do
\* in the same scan, unless the timer wraps or a gap is too long.
THEOREM Response == Spec => Immediate
<1>1. Init => IInv
  BY EagerInitInv
<1>2. IInv /\ [Next]_vars => IInv'
  BY EagerNextInv
<1>3. IInv /\ [Next]_vars =>
        [\A g \in Groups :
           /\ g \notin wrapped \cup skipped /\ timer' >= timer /\ Ticks \notin LongGaps
           /\ age[g] + Ticks >= DEBOUNCE
           => cooked' \cap g = raw' \cap g]_vars
  <2> SUFFICES ASSUME IInv, NEW d \in TimeSteps \cup LongGaps, Scan(d),
                      NEW g \in Groups, g \notin wrapped \cup skipped, timer' >= timer,
                      Ticks \notin LongGaps, age[g] + Ticks >= DEBOUNCE
               PROVE  cooked' \cap g = raw' \cap g
      BY DEF Next
  <2>1. Ticks = d /\ (Wraps(d) => timer' < timer) /\ timer \in Nat /\ timer' \in 0 .. TimerMax
    BY ScanTime
  <2>2. ~Wraps(d) /\ d \in TimeSteps \ LongGaps /\ age[g] + d >= DEBOUNCE
    <3>1. TimerMax \in Nat
      BY EagerTypes
    <3> QED
      BY <3>1, <2>1
  <2>3. Counters[g] = DEBOUNCE_ELAPSED
    BY <2>2, CounterOver
  <2> QED
    BY <2>3, ScanShows
<1> QED
  BY <1>1, <1>2, <1>3, PTL DEF Spec, Immediate

=============================================================================
