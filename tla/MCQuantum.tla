----------------------------- MODULE MCQuantum ------------------------------
(***************************************************************************)
(* A keymap with keys of every feature, and the hands that play it, for   *)
(* model checking Quantum.  A behaviour uses the keys of one hand only.   *)
(***************************************************************************)
EXTENDS Quantum

VARIABLE hand

Key(kc, a)   == [kc |-> kc, action |-> a]
Code(c)      == Key(c, KC(c))
Feature(kc)  == Key(kc, KC(KC_NO))
Upper(b, u)  == [l \in Layers |-> IF l = 0 THEN b ELSE u]
On(b)        == Upper(b, Key("KC_TRNS", KC_TRNS))

\* Positions, named for what the key is.
A == 1    B == 2    C == 3    Shift == 4    F == 5    G == 6
Lock == 7    Pair1 == 8    Role == 9    Lead == 10    Toggle == 11    Lcpo == 12    Rspc == 13
Grave == 14    Momentary == 15    Start1 == 16    Start2 == 17    Stop == 18    Play1 == 19    Play2 == 20
ShiftOff == 21    ShiftOn == 22    Longer == 23    Shorter == 24
AllKeys == 1 .. 24

Positions ==
  <<On(Code("KC_A")), On(Code("KC_B")), Upper(Code("KC_C"), Code("KC_D")), On(Code("KC_LSFT")),
    On(Code("KC_F")), On(Code("KC_G")), On(Feature("KC_LOCK")), On(Feature("TD_PAIR")),
    On(Feature("TD_ROLE")), On(Feature("KC_LEAD")), On(Feature("KC_ASTG")), On(Feature("KC_LCPO")),
    On(Feature("KC_RSPC")), On(Feature("GRAVE_ESC")), On(Key("MO_1", MO(1))),
    On(Feature("DYN_REC_START1")), On(Feature("DYN_REC_START2")), On(Feature("DYN_REC_STOP")),
    On(Feature("DYN_MACRO_PLAY1")), On(Feature("DYN_MACRO_PLAY2")),
    On(Feature("KC_ASOFF")), On(Feature("KC_ASON")), On(Feature("KC_ASUP")), On(Feature("KC_ASDN"))>>

MCKeymap  == [l \in Layers |-> [k \in Keys |-> Positions[k][l].action]]
MCKeycode == [l \in Layers |-> [k \in Keys |-> Positions[k][l].kc]]

MCDances == <<[keycode |-> "TD_PAIR", kc1 |-> "KC_F", kc2 |-> "KC_G", layer |-> 0],
              [keycode |-> "TD_ROLE", kc1 |-> "KC_LSFT", kc2 |-> KC_NO, layer |-> 1]>>
MCCombos == <<[keys |-> {"KC_A", "KC_B"}, keycode |-> "KC_E"]>>
MCCadets == [KC_LCPO |-> [holdMod |-> {"KC_LCTL"}, tapMod |-> {"KC_LSFT"}, keycode |-> "KC_9"],
             KC_RSPC |-> [holdMod |-> {"KC_RSFT"}, tapMod |-> {"KC_RSFT"}, keycode |-> "KC_0"]]
MCDictionary == (<<"KC_C">> :> "KC_E")

\* The keys of a hand, and the time that may pass between two scans.
Hand(keys, steps) == [keys |-> keys, steps |-> steps]
Hands ==
  {Hand(keys, {0, 2}) : keys \in
     {{Lock, C, Shift}, {Lock, Pair1, C}, {Lock, Grave, Shift}, {A, B}, {Pair1, Role, C},
      {Role, C, Momentary}, {Lead, F, G}, {Toggle, F, Shift},
      {ShiftOff, ShiftOn, F}, {Longer, Shorter, F}, {Lcpo, F, G}, {Lcpo, Rspc, C}, {Grave, Lcpo, Shift}}} \cup
  {Hand(keys, {0}) : keys \in
     {{Start1, Start2, Stop, Play1, Play2, C, Momentary}}}

\* A key that records or plays is tapped alone, and no recording is started
\* within another one: it would be part of the macro.
Macros == {Start1, Start2, Stop, Play1, Play2}
Legal(k) ==
  k \in Macros /\ k \notin down => /\ down \cap Macros = {}
                                   /\ k \in {Start1, Start2} => q.macro.id = 0

MCInit == Init /\ hand \in Hands
MCNext == /\ UNCHANGED hand
          /\ \E d \in hand.steps : ScanNothing(d) \/ \E k \in hand.keys : Legal(k) /\ ScanKey(d, k)
MCSpec == MCInit /\ [][MCNext]_<<vars, hand>>
=============================================================================
