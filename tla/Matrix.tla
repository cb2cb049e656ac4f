------------------------------- MODULE Matrix -------------------------------
(***************************************************************************)
(* matrix_scan (quantum/matrix.c): one scan reads the switches into       *)
(* raw_matrix and lets the debounce algorithm bring matrix, here cooked,  *)
(* up to date.  A matrix is the set of keys that are down.  The module is *)
(* what the debounce algorithms have in common, and their environment.    *)
(***************************************************************************)
EXTENDS Timer

CONSTANTS Keys,
          DEBOUNCE,     \* in timer ticks
          TimerMax,     \* UINT16_MAX
          TimeSteps     \* ticks of the timer that may pass between two scans

ASSUME MatrixAssumption ==
  /\ TimerMax \in Nat /\ DEBOUNCE \in 0 .. TimerMax
  /\ TimeSteps \subseteq 0 .. TimerMax

VARIABLES raw, cooked, timer

matrixVars == <<raw, cooked, timer>>

MatrixInit == raw = {} /\ cooked = {} /\ timer = 0

Wraps(d) == timer + d > TimerMax

\* The switches bounce as they like, and d ticks pass.
ReadSwitches(d) ==
  /\ raw' \in SUBSET Keys
  /\ timer' = IF Wraps(d) THEN timer + d - (TimerMax + 1) ELSE timer + d

MatrixTypeOK ==
  /\ raw \in SUBSET Keys /\ cooked \in SUBSET Keys
  /\ timer \in 0 .. TimerMax

\* Once the switches are at rest, the debounced matrix shows them.
Settles == \A R \in SUBSET Keys : <>[](raw = R) => <>[](cooked = R)
=============================================================================
