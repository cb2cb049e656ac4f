------------------------------ MODULE Quantum -------------------------------
(***************************************************************************)
(* process_record with the key processing features before it              *)
(* (process_record_quantum of quantum/quantum.c), and the main loop that  *)
(* lets them see time pass (matrix_scan_quantum).                          *)
(*                                                                         *)
(* No key of the keymap is a tap key, so that action_tapping_process      *)
(* hands every record to process_record as it comes.                      *)
(***************************************************************************)
EXTENDS KeyLock, DynamicMacro, TapDance, Leader, Combo, AutoShift, SpaceCadet

CONSTANT TimeSteps    \* ticks of the timer that may pass between two scans

VARIABLES q,          \* the state of the firmware
          down,       \* keys down
          owed,       \* presses of plain keys that are still to be dealt with
          tape        \* key events since a recording began, and as kept for each slot

vars == <<q, down, owed, tape>>

InitialState ==
  [kb |-> InitialKeyboardState, now |-> 0, spent |-> << >>,
   lock |-> KeyLockInit, macro |-> MacroInit, dance |-> TapDanceInit, leader |-> LeaderInit,
   combo |-> ComboInit, shift |-> AutoShiftInit, cadet |-> SpaceCadetInit,
   grave_esc_was_shifted |-> FALSE]

Init == /\ q = InitialState /\ down = {}
        /\ owed = << >> /\ tape = [heard |-> << >>, kept |-> [slot \in Slots |-> << >>]]

\* get_record_keycode, once the layer of a press is in the cache.
KeycodeOf(s, k) == Keycode[s.kb.source_layers_cache[k]][k]

Plain(s, k) == KeycodeOf(s, k) \in Codes

\* A key that no feature kept: GRAVE_ESC, or its action.
Act(s, kc, r) ==
  IF kc = "GRAVE_ESC" THEN GraveEsc(s, r)
  ELSE Spend([s EXCEPT !.kb = Tailed(StoreAndProcess(@, r)).kb],
             IF r.pressed THEN <<kc>> ELSE << >>)

\* The features in the order of process_record_quantum.  The dynamic macros are
\* in process_record_user.
Features == <<"key_lock", "dynamic_macro", "tap_dance", "leader", "combo", "auto_shift", "space_cadet">>

process(feature, s, kc, r) ==
  CASE feature = "key_lock"      -> process_key_lock(s, kc, r)
    [] feature = "dynamic_macro" -> process_record_dynamic_macro(s, kc, r)
    [] feature = "tap_dance"     -> process_tap_dance(s, kc, r)
    [] feature = "leader"        -> process_leader(s, kc, r)
    [] feature = "combo"         -> process_combo(s, kc, r)
    [] feature = "auto_shift"    -> process_auto_shift(s, kc, r)
    [] feature = "space_cadet"   -> process_space_cadet(s, kc, r)

\* process_record_quantum and the action: the first feature that keeps the key
\* is the last to see it.
Chain(s, kc, r) ==
  LET done == FoldLeft(LAMBDA p, feature : IF p.pass THEN process(feature, p.q, kc, r) ELSE p,
                       Passed(preprocess_tap_dance(s, kc, r)), Features)
  IN  IF done.pass THEN Act(done.q, kc, r) ELSE done.q

Cached(s, r) == [s EXCEPT !.kb = StoreSourceLayer(@, r.pressed, r.key)]

\* process_record for a record of a macro, which is not a key that plays one.
ProcessPlayed(s, r) == LET c == Cached(s, r) IN Chain(c, KeycodeOf(c, r.key), r)

dynamic_macro_play(s, slot) ==
  play_end(FoldLeft(ProcessPlayed, play_begin(s), Records(s.macro, slot, s.macro.end[slot])), s)

process_record(s, r) ==
  LET c    == Cached(s, r)
      kc   == KeycodeOf(c, r.key)
      done == Chain(c, kc, r)
  IN  IF Plays(c, kc, r) THEN dynamic_macro_play(done, Play[kc]) ELSE done

matrix_scan_quantum(s) == LEADER_DICTIONARY(matrix_scan_combo(matrix_scan_tap_dance(s)))

Later(s, d) == [s EXCEPT !.now = (@ + d) % (TimerMax + 1), !.spent = << >>]

-----------------------------------------------------------------------------
(* What the properties compare the firmware with: the presses of keys with *)
(* a plain code, and the events a recording ought to hold.                 *)

Event(s, k, pressed) ==
  [code |-> IF Plain(s, k) THEN KeycodeOf(s, k) ELSE KC_NO, pressed |-> pressed]

CodesPressed(events) ==
  FoldLeft(LAMBDA codes, e : IF e.pressed /\ e.code # KC_NO THEN Append(codes, e.code) ELSE codes,
           << >>, events)

\* The events that one key event makes happen: those of the macro it plays.
Played(kc, event) ==
  IF kc \in DOMAIN Play /\ ~event.pressed /\ q.macro.id = 0 THEN tape.kept[Play[kc]] ELSE <<event>>

Due(s, k, pressed) == owed \o CodesPressed(Played(KeycodeOf(s, k), Event(s, k, pressed)))

Owes(due, spent) == SubSeq(due, Len(spent) + 1, Len(due))

UpToLastRelease(events) ==
  SubSeq(events, 1, Max({0} \cup {i \in DOMAIN events : ~events[i].pressed}))

Hear(event) ==
  IF \/ tape.heard = << >> /\ ~event.pressed
     \/ Len(tape.heard) + Len(tape.kept[Other[q.macro.id]]) = DYNAMIC_MACRO_SIZE
  THEN tape ELSE [tape EXCEPT !.heard = Append(@, event)]

Taped(kc, event) ==
  CASE q.macro.id = 0 /\ kc \in DOMAIN RecStart /\ ~event.pressed -> [tape EXCEPT !.heard = << >>]
    [] q.macro.id # 0 /\ kc = "DYN_REC_STOP" /\ event.pressed ->
         [tape EXCEPT !.kept[q.macro.id] = UpToLastRelease(tape.heard), !.heard = << >>]
    [] q.macro.id # 0 /\ kc \notin DOMAIN Play \cup {"DYN_REC_STOP"} -> Hear(event)
    [] OTHER -> tape

-----------------------------------------------------------------------------
\* keyboard_task: the features see the time, then at most one key that moved.
ScanNothing(d) ==
  /\ q' = matrix_scan_quantum(Later(q, d))
  /\ owed' = Owes(owed, q'.spent)
  /\ UNCHANGED <<down, tape>>

ScanKey(d, k) ==
  LET pressed == k \notin down
      r       == [NoRecord EXCEPT !.key = k, !.pressed = pressed, !.time = 1]
  IN  /\ q' = process_record(matrix_scan_quantum(Later(q, d)), r)
      /\ down' = IF pressed THEN down \cup {k} ELSE down \ {k}
      /\ owed' = Owes(Due(q', k, pressed), q'.spent)
      /\ tape' = Taped(KeycodeOf(q', k), Event(q', k, pressed))

Next == \E d \in TimeSteps : ScanNothing(d) \/ \E k \in Keys : ScanKey(d, k)

Spec == Init /\ [][Next]_vars

-----------------------------------------------------------------------------
(* Properties.                                                             *)

\* Each press of a plain key is dealt with once, and in the order of the
\* presses: a press that a feature keeps back (a combo, auto shift, key lock)
\* is not lost, typed twice, or overtaken by a later one.  The presses of a
\* macro are those that were recorded.
InOrder ==
  [][LET moved == {k \in Keys : (k \in down) # (k \in down')}
         due   == IF moved = {} THEN owed
                  ELSE LET k == CHOOSE k \in moved : TRUE IN Due(q', k, k \in down')
     IN  IsPrefix(q'.spent, due)]_vars

\* Each slot holds the events that it was recorded with, from the first
\* press to the last release, as far as there was room for them, whatever
\* was recorded into the other slot of the buffer since.
AsRecorded ==
  \A slot \in Slots \ {q.macro.id} :
    LET made == Records(q.macro, slot, q.macro.end[slot])
    IN  /\ Len(made) = Len(tape.kept[slot])
        /\ \A i \in DOMAIN made : /\ made[i].pressed = tape.kept[slot][i].pressed
                                /\ tape.kept[slot][i].code # KC_NO
                                   => \E l \in Layers : Keycode[l][made[i].key] = tape.kept[slot][i].code

\* What may hold a code in the report.
HeldByKey(c, k)  == k \in down /\ CachedAction(q.kb, k).code = c
HeldByGrave(c)   == /\ c = IF q.grave_esc_was_shifted THEN "KC_GRAVE" ELSE "KC_ESC"
                    /\ \E k \in down : KeycodeOf(q, k) = "GRAVE_ESC"
HeldByCadet(c)   == \E k \in down : /\ KeycodeOf(q, k) \in DOMAIN Cadets
                                    /\ c \in Cadets[KeycodeOf(q, k)].holdMod
HeldByCombo(c)   == \E i \in DOMAIN Combos :
                      /\ Combos[i].keycode = c /\ Complete(q, i)
                      /\ \A a \in Combos[i].keys : \E k \in down : KeycodeOf(q, k) = a
HeldByDance(c)   == \E i \in DOMAIN Dances :
                      /\ c \in {Dances[i].kc1, Dances[i].kc2} /\ q.dance.state[i].finished
                      /\ \E k \in down : KeycodeOf(q, k) = Dances[i].keycode

\* Every code and modifier in the report is held by something that is going to
\* let go of it: a key that is down, alone or with others, or the lock.
NoOrphan ==
  \A c \in q.kb.keys \cup q.kb.real_mods :
    \/ c \in q.lock.key_state
    \/ \E k \in Keys : HeldByKey(c, k)
    \/ HeldByGrave(c) \/ HeldByCadet(c) \/ HeldByCombo(c) \/ HeldByDance(c)

\* Once all keys are up, every press has been dealt with, and the host sees
\* the locked keys held and no others.
AtRest ==
  down = {} =>
    /\ owed = << >>
    /\ q.kb.report = [keys |-> q.lock.key_state \cap Codes, mods |-> q.lock.key_state \cap Mods]
=============================================================================
