------------------------- MODULE DebounceSymGProofs -------------------------
(***************************************************************************)
(* Proofs about DebounceSymG for any keys, positive debounce time, timer  *)
(* and gaps between scans: what is pushed was still for longer than      *)
(* DEBOUNCE ticks although the timer wraps, and no change is forgotten.   *)
(***************************************************************************)
EXTENDS DebounceSymG, TLAPS

LEMMA InitInv == Init => IInv
<1> SUFFICES ASSUME Init
             PROVE  IInv
    OBVIOUS
<1>1. 0 \in 0 .. TimerMax /\ 0 \in 0 .. DEBOUNCE + 1
  BY MatrixAssumption
<1>2. TypeOK
  BY <1>1 DEF Init, MatrixInit, TypeOK, MatrixTypeOK
<1> QED
  BY <1>2 DEF Init, MatrixInit, IInv, PendingIsDebounced

LEMMA TimerType ==
  ASSUME IInv, NEW d \in TimeSteps, ReadSwitches(d)
  PROVE  /\ timer \in Nat /\ timer' \in Nat /\ d \in Nat /\ d =< TimerMax
         /\ TimerMax \in Nat /\ DEBOUNCE \in Nat /\ DEBOUNCE =< TimerMax
         /\ timer =< TimerMax /\ timer' =< TimerMax
         /\ timer' = timer + d \/ timer' = timer + d - (TimerMax + 1)
<1>1. timer \in 0 .. TimerMax /\ d \in 0 .. TimerMax /\ TimerMax \in Nat
  BY MatrixAssumption DEF IInv, TypeOK, MatrixTypeOK
<1>2. timer' = IF timer + d > TimerMax THEN timer + d - (TimerMax + 1) ELSE timer + d
  BY DEF ReadSwitches, Wraps
<1> QED
  BY <1>1, <1>2, MatrixAssumption

\* still counts on from debouncing_time, or the wait begins.
LEMMA StillExact ==
  ASSUME IInv, NEW d \in TimeSteps, Scan(d),
         changed \/ debouncing, still' < DEBOUNCE + 1
  PROVE  \/ timer' = debouncing_time' + still'
         \/ timer' = debouncing_time' + still' - (TimerMax + 1)
<1>1. CASE changed
  BY <1>1, TimerType DEF Scan, Start
<1>2. CASE ~changed
  <2>1. still \in Nat /\ debouncing_time \in Nat /\ debouncing_time =< TimerMax
    BY DEF IInv, TypeOK
  <2>2. still' = still + d /\ debouncing_time' = debouncing_time
    BY <1>2, <2>1, TimerType DEF Scan, Start
  <2>3. still < DEBOUNCE + 1
    BY <2>1, <2>2, TimerType DEF Scan
  <2>4. \/ timer = debouncing_time + still
        \/ timer = debouncing_time + still - (TimerMax + 1)
    BY <1>2, <2>3 DEF IInv
  <2>5. /\ timer \in Nat /\ timer' \in Nat /\ d \in Nat /\ TimerMax \in Nat
        /\ DEBOUNCE \in Nat /\ DEBOUNCE =< TimerMax
        /\ timer' = timer + d \/ timer' = timer + d - (TimerMax + 1)
    BY TimerType DEF Scan
  <2>6. still' \in Nat /\ still' =< DEBOUNCE
    BY <2>1, <2>2, <2>5
  <2> QED
    BY <2>1, <2>2, <2>4, <2>5, <2>6
<1> QED
  BY <1>1, <1>2

\* The code finds the time over only when the switches were still for it.
LEMMA ElapsedIsStill ==
  ASSUME IInv, NEW d \in TimeSteps, Scan(d), changed \/ debouncing, Elapsed
  PROVE  still' > DEBOUNCE /\ ~changed
<1>1. ReadSwitches(d) /\ Start
  BY DEF Scan
<1>2. debouncing_time' \in Nat /\ debouncing_time' =< TimerMax
  BY <1>1, TimerType DEF Start, IInv, TypeOK
<1>3. still' \in Nat
  BY <1>1, TimerType DEF Scan, IInv, TypeOK
<1>4. still' > DEBOUNCE
  <2> SUFFICES ASSUME still' < DEBOUNCE + 1
               PROVE  FALSE
      BY <1>1, <1>3, TimerType
  <2>1. \/ timer' = debouncing_time' + still'
        \/ timer' = debouncing_time' + still' - (TimerMax + 1)
    BY StillExact
  <2>2. (IF timer' >= debouncing_time' THEN timer' - debouncing_time'
         ELSE TimerMax - debouncing_time' + timer') > DEBOUNCE
    BY DEF Elapsed, TIMER_DIFF
  <2> QED
    BY <1>1, <1>2, <1>3, <2>1, <2>2, TimerType
<1>5. ~changed
  <2> SUFFICES ASSUME changed
               PROVE  FALSE
      OBVIOUS
  <2>1. still' = 0
    BY DEF Scan
  <2> QED
    BY <1>1, <1>4, <2>1, TimerType
<1> QED
  BY <1>4, <1>5

\* Every scan keeps the invariant, and pushes only what was still.
LEMMA ScanStep ==
  ASSUME IInv, NEW d \in TimeSteps, Scan(d)
  PROVE  /\ IInv'
         /\ cooked' # cooked => still' > DEBOUNCE /\ cooked' = raw
<1>1. ReadSwitches(d) /\ Start /\ Push
  BY DEF Scan
<1>2. TypeOK'
  <2>1. raw' \in SUBSET Keys /\ cooked' \in SUBSET Keys
    BY <1>1 DEF ReadSwitches, Push, IInv, TypeOK, MatrixTypeOK
  <2>2. timer' \in 0 .. TimerMax
    BY <1>1, TimerType
  <2>3. debouncing_time' \in 0 .. TimerMax
    BY <1>1, <2>2 DEF Start, IInv, TypeOK
  <2>4. debouncing' \in BOOLEAN
    BY <1>1 DEF Push
  <2>5. still' \in 0 .. DEBOUNCE + 1
    BY <1>1, TimerType DEF Scan, IInv, TypeOK
  <2> QED
    BY <2>1, <2>2, <2>3, <2>4, <2>5 DEF TypeOK, MatrixTypeOK
<1>3. cooked' # cooked => (changed \/ debouncing) /\ Elapsed /\ cooked' = raw'
  BY <1>1 DEF Push
<1>4. cooked' # cooked => still' > DEBOUNCE /\ cooked' = raw
  BY <1>3, ElapsedIsStill DEF changed
<1>5. PendingIsDebounced'
  BY <1>1 DEF Push, PendingIsDebounced, IInv, changed
<1>6. debouncing' => changed \/ debouncing
  BY <1>1 DEF Push
<1> QED
  BY <1>2, <1>4, <1>5, <1>6, StillExact DEF IInv

LEMMA NextStep ==
  IInv /\ [Next]_vars => /\ IInv'
                         /\ [cooked' # cooked => still' > DEBOUNCE /\ cooked' = raw]_vars
<1>1. IInv /\ UNCHANGED vars => IInv'
  BY DEF vars, matrixVars, IInv, TypeOK, MatrixTypeOK, PendingIsDebounced
<1> QED
  BY <1>1, ScanStep DEF Next

\* The count of ticks is right in every reachable state.
THEOREM Invariance == Spec => []IInv
<1>1. Init => IInv
  BY InitInv
<1>2. IInv /\ [Next]_vars => IInv'
  BY NextStep
<1> QED
  BY <1>1, <1>2, PTL DEF Spec

\* No change of the switches is forgotten (PendingIsDebounced).
THEOREM NothingForgotten == Spec => []PendingIsDebounced
<1>1. IInv => PendingIsDebounced
  BY DEF IInv
<1> QED
  BY <1>1, Invariance, PTL

\* sym_g pushes only what was still for DEBOUNCE ms (PushedWhenStill).
THEOREM PushesWhatIsStill == Spec => PushedWhenStill
<1>1. IInv /\ [Next]_vars => [cooked' # cooked => still' > DEBOUNCE /\ cooked' = raw]_vars
  BY NextStep
<1> QED
  BY <1>1, Invariance, PTL DEF Spec, PushedWhenStill
=============================================================================
