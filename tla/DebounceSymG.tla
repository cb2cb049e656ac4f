---------------------------- MODULE DebounceSymG ----------------------------
(***************************************************************************)
(* quantum/debounce/sym_g.c, the default algorithm: one timer for all     *)
(* keys; when nothing has changed for DEBOUNCE ms, everything is pushed.  *)
(* DEBOUNCE is positive: for 0 the file holds another debounce, which     *)
(* copies the matrix.                                                      *)
(***************************************************************************)
EXTENDS Matrix

ASSUME DebounceAssumption == DEBOUNCE > 0

VARIABLES debouncing, debouncing_time,
          still      \* history: ticks since raw changed, up to DEBOUNCE + 1

vars == <<matrixVars, debouncing, debouncing_time, still>>

Init ==
  /\ MatrixInit
  /\ debouncing = FALSE /\ debouncing_time = 0
  /\ still = 0

changed == raw' # raw

\* Seeded fault: a change while debouncing does not restart the timer.
StartOnce ==
  debouncing_time' = IF changed /\ ~debouncing THEN timer' ELSE debouncing_time

Start ==
  debouncing_time' = IF changed THEN timer' ELSE debouncing_time

\* timer_elapsed(debouncing_time) > DEBOUNCE.
Elapsed == TIMER_DIFF(timer', debouncing_time', TimerMax) > DEBOUNCE

\* Seeded fault: only a change of this scan is waited for.
PushForgets ==
  LET push == (changed \/ debouncing) /\ Elapsed
  IN  /\ cooked' = IF push THEN raw' ELSE cooked
      /\ debouncing' = changed

Push ==
  LET push == (changed \/ debouncing) /\ Elapsed
  IN  /\ cooked' = IF push THEN raw' ELSE cooked
      /\ debouncing' = ((changed \/ debouncing) /\ ~push)

Scan(d) ==
  /\ ReadSwitches(d)
  /\ Start
  /\ Push
  /\ still' = IF changed THEN 0
              ELSE IF still + d > DEBOUNCE THEN DEBOUNCE + 1 ELSE still + d

Next == \E d \in TimeSteps : Scan(d)

Spec == Init /\ [][Next]_vars

\* The firmware scans for ever, and time passes.
FairSpec == Spec /\ SF_vars(\E d \in TimeSteps \ {0} : Scan(d))

-----------------------------------------------------------------------------
TypeOK ==
  /\ MatrixTypeOK
  /\ debouncing \in BOOLEAN /\ debouncing_time \in 0 .. TimerMax
  /\ still \in 0 .. DEBOUNCE + 1

\* "When no state changes have occured for DEBOUNCE milliseconds, we push
\* the state" (sym_g.c:17): what is pushed is the state that was still for
\* that long, although the timer wraps.
PushedWhenStill ==
  [][cooked' # cooked => still' > DEBOUNCE /\ cooked' = raw]_vars

\* What is not yet pushed is being debounced: no change of the switches is
\* forgotten.
PendingIsDebounced == raw # cooked => debouncing

\* The strengthening that makes these inductive: until still is capped it
\* counts from debouncing_time on, and the timer wrapped once at most.
IInv ==
  /\ TypeOK
  /\ PendingIsDebounced
  /\ debouncing /\ still < DEBOUNCE + 1 =>
       \/ timer = debouncing_time + still
       \/ timer = debouncing_time + still - (TimerMax + 1)
=============================================================================
