----------------------------- MODULE LossyLine ------------------------------
(***************************************************************************)
(* What Transport assumes of a serial line: frames arrive whole and in    *)
(* the order they were sent, but any of them may be lost.                 *)
(***************************************************************************)
EXTENDS Naturals, Sequences

CONSTANT Frames

VARIABLES inFlight,    \* frames sent that may still arrive
          received     \* frames handed to route_incoming_frame

vars == <<inFlight, received>>

Init == inFlight = << >> /\ received = << >>

Send(f) == inFlight' = Append(inFlight, f) /\ UNCHANGED received

\* The i-th frame arrives, and the ones before it never will.
Deliver(i) ==
  /\ received' = Append(received, inFlight[i])
  /\ inFlight' = SubSeq(inFlight, i + 1, Len(inFlight))

Next == (\E f \in Frames : Send(f)) \/ (\E i \in DOMAIN inFlight : Deliver(i))

Spec == Init /\ [][Next]_vars
=============================================================================
