----------------------------- MODULE MCKeyboard -----------------------------
(***************************************************************************)
(* A keymap and the hands that play it, for model checking Keyboard.  A   *)
(* behaviour uses the keys of one hand only, so that one run covers many  *)
(* kinds of keys without the product of all of them.                      *)
(*                                                                         *)
(* As the documentation asks, a key that switches to a layer is           *)
(* transparent on it.  Layer 2 is the one that keys toggle.               *)
(***************************************************************************)
EXTENDS Keyboard

CONSTANT Hands

VARIABLE hand

Upper(base, upper) == [l \in Layers |-> IF l = 0 THEN base ELSE upper]
On(base)           == Upper(base, KC_TRNS)

\* Positions, named for what the key is.
LayerTap  == 1
ModTap    == 2
Plain     == 3
Momentary == 4
LayerMod  == 5
TapTogl   == 6
OneLayer  == 7
OneMod    == 8
Shift     == 9
Toggle    == 10
Default   == 11
Other     == 12
AllKeys   == 1 .. 12
LiveKeys  == {LayerTap, ModTap, Plain}

Positions ==
  <<On(LT(1, "KC_A")), On(MT({"KC_LSFT"}, "KC_B")),
    Upper(KC("KC_C"), MODS({"KC_LCTL"}, "KC_D")), On(MO(1)),
    On(LM(1, {"KC_LCTL"})), On(TT(1)), On(OSL(1)), On(OSM({"KC_LCTL"})),
    Upper(KC("KC_LSFT"), KC("KC_D")), Upper(TG(2), TO(0)), On(DF(2)),
    On(KC("KC_E"))>>

MCKeymap == [l \in Layers |-> [k \in Keys |-> Positions[k][l]]]

TapHoldHands   == {{LayerTap, ModTap, Plain}, {LayerMod, ModTap, Plain},
                   {Toggle, Default, Plain}, {TapTogl, Other, Plain},
                   {OneLayer, ModTap, Plain}}
RollingHands   == {{Momentary, ModTap, Shift}, {OneMod, ModTap, Plain}, {OneMod, LayerTap, Plain},
                   {LayerTap, ModTap, Plain}}
LiveHands      == {{LayerTap, Plain}, {ModTap, Plain}, {LayerTap, ModTap}}

MCInit == Init /\ hand \in Hands
MCNext ==
  \/ \E k \in hand : KeyMoves(k) /\ UNCHANGED hand
  \/ \E d \in TimeSteps : KeyboardTask(d) /\ UNCHANGED hand
  \/ Tapping /\ UNCHANGED hand
MCSpec == MCInit /\ [][MCNext]_<<vars, hand>>
MCFairSpec ==
  /\ MCSpec
  /\ SF_vars(\E d \in TimeSteps \ {0} : KeyboardTask(d) /\ UNCHANGED hand)
  /\ WF_vars(Tapping /\ UNCHANGED hand)
=============================================================================
