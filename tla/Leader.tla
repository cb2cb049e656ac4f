------------------------------- MODULE Leader -------------------------------
(***************************************************************************)
(* The leader key (quantum/process_keycode/process_leader.c) and the      *)
(* LEADER_DICTIONARY that a keymap puts into matrix_scan_user             *)
(* (docs/feature_leader_key.md).                                           *)
(***************************************************************************)
EXTENDS Processing

CONSTANTS LEADER_TIMEOUT,
          LeaderLength,    \* entries of leader_sequence
          Dictionary       \* the code a sequence taps

ASSUME LeaderAssumption == LEADER_TIMEOUT \in Nat /\ LeaderLength \in Nat

LeaderInit == [leading |-> FALSE, time |-> 0, sequence |-> << >>]

qk_leader_start(q) == [q EXCEPT !.leader = [leading |-> TRUE, time |-> q.now, sequence |-> << >>]]

\* A key more than the sequence can hold ends it; the keymap's dictionary
\* does not see it then.
InSequence(q, kc) ==
  IF Len(q.leader.sequence) < LeaderLength
  THEN [q EXCEPT !.leader.sequence = Append(@, kc)] ELSE [q EXCEPT !.leader.leading = FALSE]

process_leader(q, kc, r) ==
  CASE r.pressed /\ q.leader.leading /\ Elapsed(q, q.leader.time) < LEADER_TIMEOUT ->
         Swallowed(Spend(InSequence(q, kc), <<kc>>))
    [] r.pressed /\ ~q.leader.leading /\ kc = "KC_LEAD" -> Passed(qk_leader_start(q))
    [] OTHER -> Passed(q)

\* matrix_scan_user of a keymap.
LEADER_DICTIONARY(q) ==
  IF ~q.leader.leading \/ Elapsed(q, q.leader.time) <= LEADER_TIMEOUT THEN q
  ELSE LET ended == [q EXCEPT !.leader.leading = FALSE]
       IN  IF q.leader.sequence \in DOMAIN Dictionary
           THEN Tap(ended, Dictionary[q.leader.sequence]) ELSE ended
=============================================================================
