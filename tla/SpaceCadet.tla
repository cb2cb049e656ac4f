----------------------------- MODULE SpaceCadet -----------------------------
(***************************************************************************)
(* Space cadet keys (quantum/process_keycode/process_space_cadet.c), a    *)
(* modifier when held and a code when tapped, and the key GRAVE_ESC of    *)
(* quantum/quantum.c.                                                      *)
(***************************************************************************)
EXTENDS Processing

\* LSPO_KEYS and the like: the modifier held, the one of the tap, and its code.
\* KC_TRNS, no modifier, is {}.
CONSTANTS Cadets

ASSUME CadetsAssumption ==
  \A kc \in DOMAIN Cadets : /\ Cadets[kc].holdMod \in SUBSET Mods
                            /\ Cadets[kc].tapMod \in SUBSET Mods
                            /\ Cadets[kc].keycode \in Codes

SpaceCadetInit == [sc_last |-> {}, sc_timer |-> 0]

Hold(q, m) == [q EXCEPT !.kb = RegisterMods(@, m)]
Let(q, m)  == [q EXCEPT !.kb = UnregisterMods(@, m)]

CadetTap(q, c) ==
  LET ready == IF c.holdMod # c.tapMod THEN Hold(Let(q, c.holdMod), c.tapMod) ELSE q
  IN  Let(Tap(ready, c.keycode), c.tapMod)

perform_space_cadet(q, c, r) ==
  CASE r.pressed -> Hold([q EXCEPT !.cadet = [sc_last |-> c.holdMod, sc_timer |-> q.now]], c.holdMod)
    [] ~r.pressed /\ q.cadet.sc_last = c.holdMod /\ Elapsed(q, q.cadet.sc_timer) < TAPPING_TERM ->
         CadetTap(q, c)
    [] OTHER -> Let(q, c.holdMod)

process_space_cadet(q, kc, r) ==
  IF kc \in DOMAIN Cadets THEN Swallowed(perform_space_cadet(q, Cadets[kc], r))
  ELSE Passed(IF r.pressed THEN [q EXCEPT !.cadet.sc_last = {}] ELSE q)

-----------------------------------------------------------------------------
Shifting == {"KC_LSFT", "KC_RSFT", "KC_LGUI", "KC_RGUI"}

\* Seeded fault: the release goes by the modifiers of now.
GraveEscNow(q, r) == IF q.kb.real_mods \cap Shifting # {} THEN "KC_GRAVE" ELSE "KC_ESC"

\* The code of GRAVE_ESC: that of a release is the one that was pressed.
GraveEscCode(q, r) ==
  IF IF r.pressed THEN q.kb.real_mods \cap Shifting # {} ELSE q.grave_esc_was_shifted
  THEN "KC_GRAVE" ELSE "KC_ESC"

GraveEsc(q, r) ==
  LET code == GraveEscCode(q, r)
  IN  IF r.pressed
      THEN [q EXCEPT !.grave_esc_was_shifted = (code = "KC_GRAVE"),
                     !.kb = SendKeyboardReport(AddKey(@, code))]
      ELSE [q EXCEPT !.kb = SendKeyboardReport(DelKey(@, code))]
=============================================================================
