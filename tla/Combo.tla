------------------------------- MODULE Combo --------------------------------
(***************************************************************************)
(* Combos (quantum/process_keycode/process_combo.c): keys that are pressed *)
(* together send one code.  Their presses are kept back until the combo   *)
(* is complete, another key comes, or COMBO_TERM is over.                 *)
(***************************************************************************)
EXTENDS Processing, FiniteSets

CONSTANTS Combos,             \* key_combos: the keys of each and its keycode
          MAX_COMBO_LENGTH,
          COMBO_TERM

ASSUME CombosAssumption ==
  /\ \A i \in DOMAIN Combos : Combos[i].keys \subseteq Codes /\ Combos[i].keycode \in Codes
  /\ MAX_COMBO_LENGTH \in Nat /\ COMBO_TERM \in Nat

\* state is the keys that are down, for each combo.
ComboInit == [timer |-> 0, is_active |-> FALSE, b_combo_enable |-> TRUE, buffer |-> << >>,
              state |-> [i \in DOMAIN Combos |-> {}]]

\* register_code16, and a report more.
EmitKey(q, c) == [Register(q, c) EXCEPT !.kb = SendKeyboardReport(@)]

dump_key_buffer(q, emit) ==
  LET empty == [q EXCEPT !.combo.buffer = << >>]
  IN  IF emit THEN FoldLeft(EmitKey, Spend(empty, q.combo.buffer), q.combo.buffer) ELSE empty

combo_disable(q) ==
  dump_key_buffer([q EXCEPT !.combo.b_combo_enable = FALSE, !.combo.is_active = FALSE,
                            !.combo.timer = 0], TRUE)
combo_enable(q) == [q EXCEPT !.combo.b_combo_enable = TRUE]
combo_toggle(q) == IF q.combo.b_combo_enable THEN combo_disable(q) ELSE combo_enable(q)

ComboKeys == {"CMB_ON", "CMB_OFF", "CMB_TOG"}
ComboSwitch(q, kc) ==
  CASE kc = "CMB_ON"  -> combo_enable(q)
    [] kc = "CMB_OFF" -> combo_disable(q)
    [] kc = "CMB_TOG" -> combo_toggle(q)

Complete(q, i) == q.combo.state[i] = Combos[i].keys

\* process_single_combo, for a key of the combo: claims says whether it returns
\* true, drop whether it completed the combo.
ComboPress(p, i, kc) ==
  LET down == [p.q EXCEPT !.combo.state[i] = @ \cup {kc}]
      done == p.q.combo.is_active /\ Complete(down, i)
  IN  [q      |-> IF done THEN Register(down, Combos[i].keycode) ELSE down,
       claims |-> p.claims \/ p.q.combo.is_active,
       drop   |-> p.drop \/ done]

ComboRelease(p, i, kc) ==
  LET done == Complete(p.q, i)
      sent == IF done THEN Unregister(p.q, Combos[i].keycode) ELSE p.q
  IN  [p EXCEPT !.q = [sent EXCEPT !.combo.state[i] = @ \ {kc}],
                !.claims = @ \/ (done /\ p.q.combo.is_active)]

process_single_combo(p, i, kc, r) ==
  IF kc \notin Combos[i].keys THEN p
  ELSE IF r.pressed THEN ComboPress(p, i, kc) ELSE ComboRelease(p, i, kc)

Buffered(q, kc) ==
  [q EXCEPT !.combo.timer = q.now,
            !.combo.buffer = IF Len(@) < MAX_COMBO_LENGTH THEN Append(@, kc) ELSE @]

\* What process_combo does once every combo has seen the key.
ComboKey(p, kc, r) ==
  CASE p.drop -> Spend(dump_key_buffer([p.q EXCEPT !.combo.timer = p.q.now], FALSE),
                       Append(p.q.combo.buffer, kc))
    [] ~p.drop /\ ~p.claims ->
         IF \A i \in DOMAIN Combos : p.q.combo.state[i] = {}
         THEN [dump_key_buffer(p.q, TRUE) EXCEPT !.combo.timer = 0, !.combo.is_active = TRUE]
         ELSE dump_key_buffer(p.q, TRUE)
    [] ~p.drop /\ p.claims /\ r.pressed /\ p.q.combo.is_active -> Buffered(p.q, kc)
    [] OTHER -> p.q

process_combo(q, kc, r) ==
  CASE r.pressed /\ kc \in ComboKeys -> Passed(ComboSwitch(q, kc))
    [] ~(r.pressed /\ kc \in ComboKeys) /\ ~q.combo.b_combo_enable -> Passed(q)
    [] OTHER ->
         LET p == FoldLeft(LAMBDA acc, i : process_single_combo(acc, i, kc, r),
                           [q |-> q, claims |-> FALSE, drop |-> FALSE],
                           [i \in DOMAIN Combos |-> i])
         IN  [q |-> ComboKey(p, kc, r), pass |-> ~p.claims]

\* A timer that was started at 0 counts as none.
matrix_scan_combo(q) ==
  IF /\ q.combo.b_combo_enable /\ q.combo.is_active /\ q.combo.timer # 0
     /\ Elapsed(q, q.combo.timer) > COMBO_TERM
  THEN dump_key_buffer([q EXCEPT !.combo.is_active = FALSE], TRUE) ELSE q
=============================================================================
