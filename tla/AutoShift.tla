----------------------------- MODULE AutoShift ------------------------------
(***************************************************************************)
(* Auto shift (quantum/process_keycode/process_auto_shift.c): the press of *)
(* a letter is kept back until its release or the next press, and typed   *)
(* with shift when it was held for longer than the timeout.  KC_ASRP,     *)
(* which types the timeout, is left out.                                   *)
(***************************************************************************)
EXTENDS Processing

CONSTANTS AUTO_SHIFT_TIMEOUT,
          AutoShifted      \* the codes it applies to

ASSUME AutoShiftAssumption == AUTO_SHIFT_TIMEOUT \in Nat /\ AutoShifted \subseteq Codes

AutoShiftInit == [enabled |-> TRUE, time |-> 0, lastkey |-> KC_NO, timeout |-> AUTO_SHIFT_TIMEOUT]

\* Seeded fault: the key stays to be typed again.
FlushAgain(q) ==
  LET c == q.shift.lastkey
  IN  IF c = KC_NO THEN q
      ELSE IF Elapsed(q, q.shift.time) > q.shift.timeout
      THEN Spend(Unregister(Tap(Register(q, "KC_LSFT"), c), "KC_LSFT"), <<c>>)
      ELSE Spend(Tap(q, c), <<c>>)

autoshift_flush(q) ==
  LET c    == q.shift.lastkey
      done == [q EXCEPT !.shift.time = 0, !.shift.lastkey = KC_NO]
  IN  IF c = KC_NO THEN q
      ELSE IF Elapsed(q, q.shift.time) > q.shift.timeout
      THEN Spend(Unregister(Tap(Register(done, "KC_LSFT"), c), "KC_LSFT"), <<c>>)
      ELSE Spend(Tap(done, c), <<c>>)

autoshift_on(q, kc) == [q EXCEPT !.shift.time = q.now, !.shift.lastkey = kc]

autoshift_enable(q)  == [q EXCEPT !.shift.enabled = TRUE]
autoshift_disable(q) == autoshift_flush([q EXCEPT !.shift.enabled = FALSE])
autoshift_toggle(q)  == IF q.shift.enabled THEN autoshift_disable(q) ELSE autoshift_enable(q)

\* The timeout has the width of the timer.
TimeoutBy(q, d) == [q EXCEPT !.shift.timeout = (@ + d) % (TimerMax + 1)]

AutoShiftKeys == {"KC_ASUP", "KC_ASDN", "KC_ASTG", "KC_ASON", "KC_ASOFF"}
AutoShiftKey(q, kc) ==
  CASE kc = "KC_ASUP"  -> TimeoutBy(q, 5)
    [] kc = "KC_ASDN"  -> TimeoutBy(q, -5)
    [] kc = "KC_ASTG"  -> autoshift_toggle(q)
    [] kc = "KC_ASON"  -> autoshift_enable(q)
    [] kc = "KC_ASOFF" -> autoshift_disable(q)

process_auto_shift(q, kc, r) ==
  IF r.pressed /\ kc \in AutoShiftKeys THEN Swallowed(AutoShiftKey(q, kc))
  ELSE LET flushed == autoshift_flush(q)
       IN  IF r.pressed /\ kc \in AutoShifted /\ q.shift.enabled /\ flushed.kb.real_mods = {}
           THEN Swallowed(autoshift_on(flushed, kc)) ELSE Passed(flushed)
=============================================================================
