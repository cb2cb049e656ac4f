------------------------------ MODULE TapDance ------------------------------
(***************************************************************************)
(* Tap dance (quantum/process_keycode/process_tap_dance.c), with the two  *)
(* kinds of dances it comes with: a key that sends kc1 when tapped or held *)
(* once and kc2 the second time (ACTION_TAP_DANCE_DOUBLE), and one that   *)
(* moves to a layer the second time (ACTION_TAP_DANCE_DUAL_ROLE).         *)
(*                                                                         *)
(* A dance is named by its keycode, and dances are in the order of their  *)
(* numbers.  interrupted is left out, as these dances do not look at it.  *)
(***************************************************************************)
EXTENDS Processing

\* tap_dance_actions: the keycode of each, its kc1, and its kc2 or, when that
\* is KC_NO, its layer.
CONSTANTS Dances

ASSUME DancesAssumption ==
  \A i \in DOMAIN Dances : /\ Dances[i].kc1 \in KeyCodes /\ Dances[i].kc2 \in KeyCodes
                           /\ Dances[i].layer \in Layers

TapDanceInit ==
  [last_td |-> 0, highest_td |-> 0,
   state |-> [i \in DOMAIN Dances |->
                [count |-> 0, timer |-> 0, pressed |-> FALSE, finished |-> FALSE,
                 oneshot_mods |-> {}, weak_mods |-> {}]]]

Pair(i) == Dances[i].kc2 # KC_NO

\* layer_move.
Second(q, i) ==
  IF Pair(i) THEN Register(q, Dances[i].kc2)
  ELSE [q EXCEPT !.kb = LayerStateSet(@, {Dances[i].layer})]

on_each_tap(q, i) ==
  IF q.dance.state[i].count = 2
  THEN [Second(q, i) EXCEPT !.dance.state[i].finished = TRUE] ELSE q

on_dance_finished(q, i) ==
  CASE q.dance.state[i].count = 1 -> Register(q, Dances[i].kc1)
    [] q.dance.state[i].count = 2 -> Second(q, i)
    [] OTHER -> q

on_reset(q, i) ==
  CASE q.dance.state[i].count = 1              -> Unregister(q, Dances[i].kc1)
    [] q.dance.state[i].count = 2 /\ Pair(i)   -> Unregister(q, Dances[i].kc2)
    [] OTHER -> q

\* The dance is over: what it decided is registered, once.
finish(q, i) ==
  LET d     == q.dance.state[i]
      ready == [q EXCEPT !.dance.state[i].finished = TRUE,
                         !.kb = SendKeyboardReport(AddWeakMods(AddMods(@, d.oneshot_mods), d.weak_mods))]
  IN  IF d.finished THEN q ELSE on_dance_finished(ready, i)

reset_tap_dance(q, i) ==
  LET d    == q.dance.state[i]
      done == on_reset(q, i)
      kb   == SendKeyboardReport(DelWeakMods(DelMods(done.kb, d.oneshot_mods), d.weak_mods))
  IN  IF d.pressed THEN q
      ELSE [done EXCEPT !.kb = kb, !.dance.last_td = 0,
                        !.dance.state[i].count = 0, !.dance.state[i].finished = FALSE]

\* The dances seen so far, in their order.
Seen(q) == [i \in 1 .. q.dance.highest_td |-> i]

\* A dance that is under way is finished and reset.
ended(q, i) == IF q.dance.state[i].count > 0 THEN reset_tap_dance(finish(q, i), i) ELSE q

\* A press ends the other dances, and its own when it was not the last.
preprocess_tap_dance(q, kc, r) ==
  IF ~r.pressed THEN q
  ELSE FoldLeft(LAMBDA s, i : IF kc = Dances[i].keycode /\ s.dance.last_td = i THEN s ELSE ended(s, i),
                q, Seen(q))

matrix_scan_tap_dance(q) ==
  FoldLeft(LAMBDA s, i : IF Elapsed(s, s.dance.state[i].timer) > TAPPING_TERM THEN ended(s, i) ELSE s,
           q, Seen(q))

DancePress(q, i) ==
  LET d == [q.dance.state[i] EXCEPT
              !.pressed = TRUE, !.count = @ + 1, !.timer = q.now,
              !.oneshot_mods = q.kb.oneshot_mods,
              !.weak_mods = q.kb.real_mods \cup q.kb.weak_mods]
      tapped == on_each_tap([q EXCEPT !.dance.state[i] = d], i)
  IN  [tapped EXCEPT !.dance.last_td = i, !.dance.highest_td = IF @ < i THEN i ELSE @]

DanceRelease(q, i) ==
  LET up == [q EXCEPT !.dance.state[i].pressed = FALSE]
      d  == q.dance.state[i]
  IN  IF d.count > 0 /\ d.finished THEN reset_tap_dance(up, i) ELSE up

process_tap_dance(q, kc, r) ==
  LET mine == {i \in DOMAIN Dances : Dances[i].keycode = kc}
  IN  IF mine = {} THEN Passed(q)
      ELSE LET i == CHOOSE i \in mine : TRUE
           IN  Passed(IF r.pressed THEN DancePress(q, i) ELSE DanceRelease(q, i))
=============================================================================
