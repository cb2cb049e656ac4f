----------------------------- MODULE ActionUtil -----------------------------
(***************************************************************************)
(* What an action works on: the report sent to the host, the modifiers    *)
(* (tmk_core/common/action_util.c, report.c), the layers and the cache of *)
(* the layer each key was pressed on (action_layer.c), as operators on    *)
(* one record, the static variables of those files.                       *)
(*                                                                         *)
(* The six key bytes of a report are a set of at most ReportKeys codes:   *)
(* the place of a code among the bytes carries no meaning to the host.    *)
(* macro_mods is left out: only macros set it.                            *)
(***************************************************************************)
EXTENDS ActionCode, FiniteSets, FiniteSetsExt

CONSTANTS Keys,        \* matrix positions
          Keymap,      \* keymap_key_to_keycode: the action of a key on a layer
          ReportKeys   \* KEYBOARD_REPORT_KEYS

ASSUME KeymapAssumption ==
  /\ Keymap \in [Layers -> [Keys -> Action]]
  /\ ReportKeys \in Nat

OneshotStates == {"ONESHOT_PRESSED", "ONESHOT_OTHER_KEY_PRESSED"}
ONESHOT_START == OneshotStates

Report == [mods : SUBSET Mods, keys : SUBSET Codes]

KeyboardState ==
  [layer_state : SUBSET Layers, default_layer_state : SUBSET Layers,
   source_layers_cache : [Keys -> Layers],
   real_mods : SUBSET Mods, weak_mods : SUBSET Mods, keys : SUBSET Codes,
   oneshot_mods : SUBSET Mods,
   oneshot_layer : SUBSET Layers, oneshot_state : SUBSET OneshotStates,
   report : Report]                  \* the report the host received last

InitialKeyboardState ==
  [layer_state |-> {}, default_layer_state |-> {},
   source_layers_cache |-> [k \in Keys |-> 0],
   real_mods |-> {}, weak_mods |-> {}, keys |-> {}, oneshot_mods |-> {},
   oneshot_layer |-> {0}, oneshot_state |-> {},
   report |-> [mods |-> {}, keys |-> {}]]

-----------------------------------------------------------------------------
(* Reports and modifiers.                                                  *)

\* Seeded fault: one-shot modifiers outlive the key they were meant for.
SendKeyboardReportKeepsOneshot(s) ==
  [s EXCEPT !.report = [mods |-> s.real_mods \cup s.weak_mods \cup s.oneshot_mods,
                        keys |-> s.keys]]

\* Seeded fault: a report without a key spends them.
SendKeyboardReportSpends(s) ==
  [s EXCEPT !.report = [mods |-> s.real_mods \cup s.weak_mods \cup s.oneshot_mods,
                        keys |-> s.keys],
            !.oneshot_mods = {}]

\* send_keyboard_report: one-shot modifiers ride on the first report that
\* has a key in it.
SendKeyboardReport(s) ==
  [s EXCEPT !.report = [mods |-> s.real_mods \cup s.weak_mods \cup s.oneshot_mods,
                        keys |-> s.keys],
            !.oneshot_mods = IF s.keys = {} THEN @ ELSE {}]

\* add_key_byte: the code is dropped when the report has no empty byte.
AddKey(s, c) == [s EXCEPT !.keys = IF Cardinality(@) < ReportKeys THEN @ \cup {c} ELSE @]
DelKey(s, c) == [s EXCEPT !.keys = @ \ {c}]

AddMods(s, m)     == [s EXCEPT !.real_mods = @ \cup m]
DelMods(s, m)     == [s EXCEPT !.real_mods = @ \ m]
AddWeakMods(s, m) == [s EXCEPT !.weak_mods = @ \cup m]
DelWeakMods(s, m) == [s EXCEPT !.weak_mods = @ \ m]

\* Seeded fault: the host is not told.
UnregisterModsSilently(s, m) == DelMods(s, m)

RegisterMods(s, m)   == IF m = {} THEN s ELSE SendKeyboardReport(AddMods(s, m))
UnregisterMods(s, m) == IF m = {} THEN s ELSE SendKeyboardReport(DelMods(s, m))

RegisterCode(s, c) ==
  IF c = KC_NO THEN s
  ELSE SendKeyboardReport(IF IS_MOD(c) THEN AddMods(s, {c}) ELSE AddKey(s, c))
UnregisterCode(s, c) ==
  IF c = KC_NO THEN s
  ELSE SendKeyboardReport(IF IS_MOD(c) THEN DelMods(s, {c}) ELSE DelKey(s, c))

ClearKeyboardButModsAndKeys(s) == SendKeyboardReport([s EXCEPT !.weak_mods = {}])
ClearKeyboard(s) ==
  ClearKeyboardButModsAndKeys([s EXCEPT !.real_mods = {}, !.keys = {}])

-----------------------------------------------------------------------------
(* Layers.                                                                 *)

LayerStateSet(s, ls) == ClearKeyboardButModsAndKeys([s EXCEPT !.layer_state = ls])
LayerOn(s, ls)       == LayerStateSet(s, s.layer_state \cup ls)
LayerOff(s, ls)      == LayerStateSet(s, s.layer_state \ ls)
LayerXor(s, ls)      == LayerStateSet(s, (s.layer_state \ ls) \cup (ls \ s.layer_state))

DefaultLayerStateSet(s, ls) ==
  ClearKeyboardButModsAndKeys([s EXCEPT !.default_layer_state = ls])

\* The topmost active layer on which the key is not transparent, else 0.
LayerSwitchGetLayer(s, k) ==
  LET opaque == {l \in (s.layer_state \cup s.default_layer_state) \cap Layers :
                   Keymap[l][k] # KC_TRNS}
  IN  IF opaque = {} THEN 0 ELSE Max(opaque)
LayerSwitchGetAction(s, k) == Keymap[LayerSwitchGetLayer(s, k)][k]

\* Seeded fault: a release looks the action up on the current layers.
CurrentAction(s, k) == LayerSwitchGetAction(s, k)

\* store_or_get_action, in two parts: what it stores, and what it returns
\* once that is stored.
StoreSourceLayer(s, pressed, k) ==
  IF pressed
  THEN [s EXCEPT !.source_layers_cache[k] = LayerSwitchGetLayer(s, k)]
  ELSE s
CachedAction(s, k) == Keymap[s.source_layers_cache[k]][k]

-----------------------------------------------------------------------------
(* One-shot layer.                                                         *)

IsOneshotLayerActive(s) == s.oneshot_state # {}

SetOneshotLayer(s, ls, st) ==
  LayerOn([s EXCEPT !.oneshot_layer = ls, !.oneshot_state = st], ls)

ResetOneshotLayer(s) == [s EXCEPT !.oneshot_layer = {0}, !.oneshot_state = {}]

\* clear_oneshot_layer_state: the layer goes off when the last bit is cleared.
ClearOneshotLayerState(s, st) ==
  LET left == [s EXCEPT !.oneshot_state = @ \ st]
  IN  IF left.oneshot_state = {} /\ s.oneshot_state # {}
      THEN ResetOneshotLayer(LayerOff(left, s.oneshot_layer))
      ELSE left
=============================================================================
