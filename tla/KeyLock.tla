------------------------------ MODULE KeyLock -------------------------------
(***************************************************************************)
(* KC_LOCK (quantum/process_keycode/process_key_lock.c): the next standard *)
(* key is held until it is pressed again.  One-shot modifiers are left    *)
(* out.                                                                    *)
(***************************************************************************)
EXTENDS Processing

KeyLockInit == [watching |-> FALSE, key_state |-> {}]

Watching(q, w) == [q EXCEPT !.lock.watching = w]

LockPress(q, kc) ==
  CASE kc = "KC_LOCK"     -> Swallowed(Watching(q, ~q.lock.watching))
    [] ~Standard(kc) /\ kc # "KC_LOCK" -> Passed(Watching(q, FALSE))
    [] Standard(kc) /\ q.lock.watching ->
         Passed([q EXCEPT !.lock = [watching |-> FALSE, key_state |-> @.key_state \cup {kc}]])
    [] Standard(kc) /\ ~q.lock.watching /\ kc \in q.lock.key_state ->
         Swallowed(Spend([q EXCEPT !.lock.key_state = @ \ {kc}], <<kc>>))
    [] OTHER -> Passed(q)

\* Seeded fault: the release that follows KC_LOCK is not masked.
LockPressOnly(q, kc, r) == IF r.pressed THEN LockPress(q, kc) ELSE Passed(q)

process_key_lock(q, kc, r) ==
  IF r.pressed THEN LockPress(q, kc)
  ELSE IF kc \in q.lock.key_state THEN Swallowed(q) ELSE Passed(q)
=============================================================================
