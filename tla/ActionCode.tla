----------------------------- MODULE ActionCode -----------------------------
(***************************************************************************)
(* Actions, the 16-bit codes a key of the keymap stands for               *)
(* (tmk_core/common/action_code.h), and how quantum keycodes become       *)
(* actions (action_for_key of quantum/keymap_common.c).                   *)
(*                                                                         *)
(* The packed bit fields are a record.  A set of modifier bits is a set   *)
(* of modifier names, so that the keycode KC_LSFT and the bit             *)
(* MOD_BIT(KC_LSFT) are one value, and a set of layer bits is a set of    *)
(* layer numbers.  Left and right modifiers are not told apart by the     *)
(* kind: ACT_LMODS and ACT_RMODS differ only in a shift of the mods.      *)
(***************************************************************************)
EXTENDS Naturals

CONSTANTS Mods,    \* modifier keycodes, each also its bit in a mods byte
          Codes,   \* other keycodes that can be put in a report (IS_KEY)
          Layers   \* layer numbers: bits of layer_state_t, 32 at most

KC_NO == "KC_NO"

ASSUME CodesAssumption ==
  /\ Layers \subseteq 0 .. 31 /\ 0 \in Layers
  /\ Mods \cap Codes = {}
  /\ KC_NO \notin Mods \cup Codes

KeyCodes == Mods \cup Codes \cup {KC_NO}
ModOps   == {"MODS_ONESHOT", "MODS_TAP_TOGGLE"}
LayerOps == {"OP_TAP_TOGGLE", "OP_ON_OFF", "OP_OFF_ON", "OP_SET_CLEAR", "OP_ONESHOT"}
BitOps   == {"OP_BIT_AND", "OP_BIT_OR", "OP_BIT_XOR", "OP_BIT_SET"}
When     == {"ON_PRESS", "ON_RELEASE"}

\* What action.key.code, or the operation in its place, can be.  A mod-tap
\* on KC_NO (0) is MODS_ONESHOT.
CodesOf == [ACT_MODS           |-> KeyCodes,
            ACT_MODS_TAP       |-> (KeyCodes \ {KC_NO}) \cup ModOps,
            ACT_LAYER          |-> BitOps,
            ACT_LAYER_MODS     |-> {KC_NO},
            ACT_LAYER_TAP      |-> KeyCodes \cup LayerOps,
            ACTION_TRANSPARENT |-> {KC_NO}]

\* layers is layer_tap.val, layer_mods.layer or layer_bitop.bits|mask; on
\* is layer_bitop.on, where {} asks for the default layer.  A one-shot layer
\* has four bits of the int8_t oneshot_layer_data.
Action == {a \in [kind   : DOMAIN CodesOf,
                  mods   : SUBSET Mods,
                  code   : KeyCodes \cup ModOps \cup LayerOps \cup BitOps,
                  layers : SUBSET Layers,
                  on     : SUBSET When] :
             /\ a.code \in CodesOf[a.kind]
             /\ a.code = "OP_ONESHOT" => a.layers \subseteq 0 .. 15}

ActionOf(k, m, c, ls) == [kind |-> k, mods |-> m, code |-> c, layers |-> ls, on |-> {}]

-----------------------------------------------------------------------------
(* Keycodes.                                                               *)

KC_TRNS    == ActionOf("ACTION_TRANSPARENT", {}, KC_NO, {})
KC(c)      == ActionOf("ACT_MODS", {}, c, {})
MODS(m, c) == ActionOf("ACT_MODS", m, c, {})                 \* e.g. LSFT(KC_A)
MT(m, c)   == ActionOf("ACT_MODS_TAP", m, c, {})
OSM(m)     == ActionOf("ACT_MODS_TAP", m, "MODS_ONESHOT", {})
LT(l, c)   == ActionOf("ACT_LAYER_TAP", {}, c, {l})
MO(l)      == ActionOf("ACT_LAYER_TAP", {}, "OP_ON_OFF", {l})
OSL(l)     == ActionOf("ACT_LAYER_TAP", {}, "OP_ONESHOT", {l})
TT(l)      == ActionOf("ACT_LAYER_TAP", {}, "OP_TAP_TOGGLE", {l})
LM(l, m)   == ActionOf("ACT_LAYER_MODS", m, KC_NO, {l})
TG(l)      == [ActionOf("ACT_LAYER", {}, "OP_BIT_XOR", {l}) EXCEPT !.on = {"ON_RELEASE"}]
TO(l)      == [ActionOf("ACT_LAYER", {}, "OP_BIT_SET", {l}) EXCEPT !.on = {"ON_PRESS"}]
DF(l)      == ActionOf("ACT_LAYER", {}, "OP_BIT_SET", {l})

-----------------------------------------------------------------------------
IS_MOD(c) == c \in Mods

\* is_tap_action: the action behaves differently tapped and held.
IsTapAction(a) ==
  \/ a.kind = "ACT_MODS_TAP"
  \/ a.kind = "ACT_LAYER_TAP"
     /\ a.code \in KeyCodes \cup {"OP_TAP_TOGGLE", "OP_ONESHOT"}
=============================================================================
