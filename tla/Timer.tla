------------------------------- MODULE Timer -------------------------------
(***************************************************************************)
(* The arithmetic of tmk_core/common/timer.h on a timer that counts from  *)
(* 0 to max and then starts again.                                        *)
(***************************************************************************)
EXTENDS Naturals

\* The time from b to a.  When the timer started again in between, the
\* macro counts one tick too few: it adds max where max + 1 have passed.
TIMER_DIFF(a, b, max) == IF a >= b THEN a - b ELSE max - b + a

\* timer_read() | 1: the time of an event is never 0.
EventTime(t) == IF t % 2 = 0 THEN t + 1 ELSE t
=============================================================================
