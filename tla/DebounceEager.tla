---------------------------- MODULE DebounceEager ----------------------------
(***************************************************************************)
(* quantum/debounce/eager_pk.c and eager_pr.c: a change is passed on at   *)
(* once, and then the key (eager_pk) or its row (eager_pr) is locked for  *)
(* DEBOUNCE ms.  The two differ in what a counter stands for, here a      *)
(* group of keys, and in one condition.  For a group of one key, flipping *)
(* the bit and copying the row are the same.                              *)
(*                                                                         *)
(* The 8-bit counters hold the time of the change modulo MAX_DEBOUNCE.    *)
(***************************************************************************)
EXTENDS Matrix

CONSTANTS Rows,            \* the keys of each row: a partition of Keys
          MAX_DEBOUNCE,
          LongGaps         \* times between two scans in which the 8-bit
                           \* counters may come round

\* In any other gap between two scans no counter comes round.
ASSUME EagerAssumption ==
  /\ Rows \subseteq SUBSET Keys /\ UNION Rows = Keys
  /\ \A g, h \in Rows : g = h \/ g \cap h = {}
  /\ MAX_DEBOUNCE \in Nat \ {0}
  /\ LongGaps \subseteq 0 .. TimerMax
  /\ \A d \in TimeSteps \ LongGaps : DEBOUNCE + d <= MAX_DEBOUNCE

DEBOUNCE_ELAPSED == MAX_DEBOUNCE + 1

VARIABLES per_row,   \* the firmware was built with eager_pr, not eager_pk
          debounce_counters, counters_need_update, matrix_need_update,
          age,       \* history: ticks since the group was passed on, up to
                     \* DEBOUNCE
          wrapped,   \* history: groups for which the 16-bit timer wrapped since
          skipped    \* history: groups for which a long gap passed since

\* The keys of each counter.
Groups == IF per_row THEN Rows ELSE {{k} : k \in Keys}

vars == <<matrixVars, per_row, debounce_counters, counters_need_update,
          matrix_need_update, age, wrapped, skipped>>

Init ==
  /\ MatrixInit
  /\ per_row \in BOOLEAN
  /\ debounce_counters = [g \in Groups |-> DEBOUNCE_ELAPSED]
  /\ counters_need_update = FALSE /\ matrix_need_update = FALSE
  /\ age = [g \in Groups |-> DEBOUNCE] /\ wrapped = {} /\ skipped = {}

CurrentTime == timer' % MAX_DEBOUNCE

Differs(g) == raw' \cap g # cooked \cap g

\* update_debounce_counters: the counters it leaves.
UpdatedCounters(now) ==
  [g \in Groups |->
     IF /\ counters_need_update
        /\ debounce_counters[g] # DEBOUNCE_ELAPSED
        /\ TIMER_DIFF(now, debounce_counters[g], MAX_DEBOUNCE) >= DEBOUNCE
     THEN DEBOUNCE_ELAPSED ELSE debounce_counters[g]]

Running(counters) == \E g \in Groups : counters[g] # DEBOUNCE_ELAPSED

\* Seeded fault: eager_pk without matrix_need_update.
TransferDueOnChange(counters) == raw' # raw

\* Whether debounce calls transfer_matrix_values.
TransferDue(counters) ==
  \/ raw' # raw
  \/ matrix_need_update
  \/ per_row /\ counters_need_update /\ ~Running(counters)

\* Seeded fault: a locked group is passed on as well.
PassedUnlocked(counters) ==
  IF TransferDue(counters) THEN {g \in Groups : Differs(g)} ELSE {}

\* The groups transfer_matrix_values passes on.
Passed(counters) ==
  IF TransferDue(counters)
  THEN {g \in Groups : Differs(g) /\ counters[g] = DEBOUNCE_ELAPSED} ELSE {}

History(d, passed) ==
  /\ age' = [g \in Groups |-> IF g \in passed THEN 0
                              ELSE IF age[g] + d > DEBOUNCE THEN DEBOUNCE ELSE age[g] + d]
  /\ wrapped' = IF Wraps(d) THEN Groups \ passed ELSE wrapped \ passed
  /\ skipped' = IF d \in LongGaps THEN Groups \ passed ELSE skipped \ passed

Scan(d) ==
  /\ ReadSwitches(d)
  /\ LET now      == CurrentTime
         counters == UpdatedCounters(now)
         passed   == Passed(counters)
     IN  /\ debounce_counters' = [g \in Groups |-> IF g \in passed THEN now ELSE counters[g]]
         /\ counters_need_update' =
              (passed # {} \/ (counters_need_update /\ Running(counters)))
         /\ matrix_need_update' =
              IF TransferDue(counters)
              THEN \E g \in Groups : Differs(g) /\ g \notin passed
              ELSE matrix_need_update
         /\ cooked' = (cooked \ UNION passed) \cup (raw' \cap UNION passed)
         /\ History(d, passed)
  /\ UNCHANGED per_row

Next == \E d \in TimeSteps \cup LongGaps : Scan(d)

Spec == Init /\ [][Next]_vars

\* The firmware scans for ever, and time passes, not only by long gaps.
FairSpec == Spec /\ SF_vars(\E d \in TimeSteps \ {0} : Scan(d))

-----------------------------------------------------------------------------
TypeOK ==
  /\ MatrixTypeOK
  /\ per_row \in BOOLEAN
  /\ debounce_counters \in [Groups -> (0 .. MAX_DEBOUNCE - 1) \cup {DEBOUNCE_ELAPSED}]
  /\ counters_need_update \in BOOLEAN /\ matrix_need_update \in BOOLEAN
  /\ age \in [Groups -> 0 .. DEBOUNCE]
  /\ wrapped \in SUBSET Groups /\ skipped \in SUBSET Groups

PassedNow(g) == cooked' \cap g # cooked \cap g
Ticks        == (timer' + TimerMax + 1 - timer) % (TimerMax + 1)

\* "No further inputs are accepted until DEBOUNCE milliseconds have
\* occurred" (eager_pk.c:18, eager_pr.c:18), but for a lock during which
\* the 16-bit timer wraps: 65536 is not a multiple of MAX_DEBOUNCE, and the
\* counter then misjudges its age.
LockedUnlessWrapped ==
  [][\A g \in Groups : PassedNow(g) =>
       \/ g \in wrapped \/ timer' < timer
       \/ age[g] + Ticks >= DEBOUNCE]_vars

\* "On any state change, response is immediate": a change of the switches
\* that finds its group unlocked shows in the same scan, and so does one
\* that waited for the lock to end.  A lock lasts longer only when the timer
\* wraps or so much time passes between two scans that its counter comes round.
Immediate ==
  [][\A g \in Groups :
       /\ g \notin wrapped \cup skipped /\ timer' >= timer /\ Ticks \notin LongGaps
       /\ age[g] + Ticks >= DEBOUNCE
       => cooked' \cap g = raw' \cap g]_vars

\* The strengthening that makes these inductive.  Unless the timer wrapped, a
\* counter that runs holds the time of the change as long as that is known,
\* and it stops as soon as the lock is over, but for a long gap.
CounterInv(g) ==
  IF debounce_counters[g] = DEBOUNCE_ELAPSED THEN age[g] = DEBOUNCE
  ELSE /\ age[g] < DEBOUNCE =>
            age[g] <= timer /\ debounce_counters[g] = (timer - age[g]) % MAX_DEBOUNCE
       /\ g \notin skipped => age[g] < DEBOUNCE \/ DEBOUNCE = 0

IInv ==
  /\ TypeOK
  /\ Running(debounce_counters) => counters_need_update
  /\ ~matrix_need_update => cooked = raw
  /\ \A g \in Groups \ wrapped : CounterInv(g)
=============================================================================
