------------------------------- MODULE Action -------------------------------
(***************************************************************************)
(* process_record and process_action (tmk_core/common/action.c): what a   *)
(* key record does to the keyboard state.                                 *)
(*                                                                         *)
(* The code takes a pointer to the record and writes through it in two    *)
(* places (it cancels an interrupted tap, and it turns a press into a     *)
(* release after a one-shot layer), so ProcessRecord returns the record   *)
(* as well as the state.  Its only recursion, the release after a         *)
(* one-shot layer, processes a release, which never recurs: the two       *)
(* levels are written out.                                                *)
(*                                                                         *)
(* process_record_quantum and the user's hooks are taken to return true.  *)
(* ONESHOT_TIMEOUT, ONESHOT_TAP_TOGGLE, RETRO_TAPPING, hand swapping,     *)
(* mouse, media, macro and backlight actions are left out.                *)
(***************************************************************************)
EXTENDS ActionUtil

CONSTANTS TappingToggle,           \* TAPPING_TOGGLE
          MaxTapCount,             \* what tap_t.count counts up to (15)
          IgnoreModTapInterrupt    \* IGNORE_MOD_TAP_INTERRUPT is defined

ASSUME ActionAssumption ==
  /\ TappingToggle \in Nat
  /\ MaxTapCount \in Nat \ {0}
  /\ IgnoreModTapInterrupt \in BOOLEAN

\* keyrecord_t.  NoKey stands for row 255, column 255, which is no key.
NoKey == 0
KeyRecord == [key : Keys \cup {NoKey}, pressed : BOOLEAN, time : Nat,
              count : 0 .. MaxTapCount, interrupted : BOOLEAN]
NoRecord == [key |-> NoKey, pressed |-> FALSE, time |-> 0,
             count |-> 0, interrupted |-> FALSE]                \* (keyrecord_t){}

IS_NOEVENT(r)  == r.time = 0 \/ r.key = NoKey
IS_RELEASED(r) == ~IS_NOEVENT(r) /\ ~r.pressed

-----------------------------------------------------------------------------
(* The switch of process_action, one operator per kind of action.          *)

\* A modifier that stands alone is a real one; with a key it is weak.
ModsAction(s, r, a) ==
  LET real == a.code \in Mods \cup {KC_NO}
      Sent(t) == IF a.mods = {} THEN t ELSE SendKeyboardReport(t)
  IN  IF r.pressed
      THEN RegisterCode(Sent(IF real THEN AddMods(s, a.mods) ELSE AddWeakMods(s, a.mods)), a.code)
      ELSE LET t == UnregisterCode(s, a.code)
           IN  Sent(IF real THEN DelMods(t, a.mods) ELSE DelWeakMods(t, a.mods))

OneshotModsAction(s, r, a) ==
  CASE r.pressed /\ r.count = 1  -> [s EXCEPT !.oneshot_mods = @ \cup a.mods]
    [] r.pressed /\ r.count # 1  -> RegisterMods(s, a.mods \cup s.oneshot_mods)
    [] ~r.pressed /\ r.count = 1 -> s
    [] OTHER -> UnregisterMods([s EXCEPT !.oneshot_mods = {}], a.mods)

TapToggleModsAction(s, r, a) ==
  CASE r.pressed /\ r.count <= TappingToggle -> RegisterMods(s, a.mods)
    [] ~r.pressed /\ r.count < TappingToggle -> UnregisterMods(s, a.mods)
    [] OTHER -> s

\* Seeded fault: the rule applies although IGNORE_MOD_TAP_INTERRUPT is defined.
AlwaysCancelsTap(r, a) ==
  /\ a.kind = "ACT_MODS_TAP" /\ a.code \notin ModOps
  /\ r.pressed /\ r.count > 0 /\ r.interrupted

\* The ad hoc rule of mod-tap: a tap that another key interrupted is a hold.
CancelsTap(r, a) ==
  /\ a.kind = "ACT_MODS_TAP" /\ a.code \notin ModOps
  /\ r.pressed /\ r.count > 0 /\ r.interrupted /\ ~IgnoreModTapInterrupt

ModTapAction(s, r, a) ==
  LET tap == r.count > 0 /\ ~CancelsTap(r, a)
  IN  CASE r.pressed /\ tap   -> RegisterCode(s, a.code)
        [] r.pressed /\ ~tap  -> RegisterMods(s, a.mods)
        [] ~r.pressed /\ tap  -> UnregisterCode(s, a.code)
        [] ~r.pressed /\ ~tap -> UnregisterMods(s, a.mods)

LayerBitOp(s, cur, a) ==
  CASE a.code = "OP_BIT_AND" -> cur \cap a.layers
    [] a.code = "OP_BIT_OR"  -> cur \cup a.layers
    [] a.code = "OP_BIT_XOR" -> (cur \ a.layers) \cup (a.layers \ cur)
    [] OTHER                 -> a.layers

LayerAction(s, r, a) ==
  IF a.on = {}
  THEN IF r.pressed THEN s ELSE DefaultLayerStateSet(s, LayerBitOp(s, s.default_layer_state, a))
  ELSE IF (IF r.pressed THEN "ON_PRESS" ELSE "ON_RELEASE") \in a.on
       THEN LayerStateSet(s, LayerBitOp(s, s.layer_state, a)) ELSE s

LayerModsAction(s, r, a) ==
  IF r.pressed THEN RegisterMods(LayerOn(s, a.layers), a.mods)
               ELSE LayerOff(UnregisterMods(s, a.mods), a.layers)

OneshotLayerRelease(s, r) ==
  IF r.count > 1 THEN ClearOneshotLayerState(s, {"ONESHOT_OTHER_KEY_PRESSED"}) ELSE s
OneshotLayerAction(s, r, a) ==
  IF r.pressed THEN SetOneshotLayer(LayerOn(s, a.layers), a.layers, ONESHOT_START)
  ELSE OneshotLayerRelease(ClearOneshotLayerState(s, {"ONESHOT_PRESSED"}), r)

LayerTapAction(s, r, a) ==
  CASE a.code = "OP_TAP_TOGGLE" ->
         IF (IF r.pressed THEN r.count < TappingToggle ELSE r.count <= TappingToggle)
         THEN LayerXor(s, a.layers) ELSE s
    [] a.code = "OP_ON_OFF"    -> IF r.pressed THEN LayerOn(s, a.layers) ELSE LayerOff(s, a.layers)
    [] a.code = "OP_OFF_ON"    -> IF r.pressed THEN LayerOff(s, a.layers) ELSE LayerOn(s, a.layers)
    [] a.code = "OP_SET_CLEAR" -> LayerStateSet(s, IF r.pressed THEN a.layers ELSE {})
    [] a.code = "OP_ONESHOT"   -> OneshotLayerAction(s, r, a)
    [] OTHER ->
         CASE r.pressed /\ r.count > 0  -> RegisterCode(s, a.code)
           [] r.pressed /\ r.count = 0  -> LayerOn(s, a.layers)
           [] ~r.pressed /\ r.count > 0 -> UnregisterCode(s, a.code)
           [] ~r.pressed /\ r.count = 0 -> LayerOff(s, a.layers)

ActionEffect(s, r, a) ==
  CASE a.kind = "ACT_MODS" -> ModsAction(s, r, a)
    [] a.kind = "ACT_MODS_TAP" /\ a.code = "MODS_ONESHOT"    -> OneshotModsAction(s, r, a)
    [] a.kind = "ACT_MODS_TAP" /\ a.code = "MODS_TAP_TOGGLE" -> TapToggleModsAction(s, r, a)
    [] a.kind = "ACT_MODS_TAP" /\ a.code \notin ModOps       -> ModTapAction(s, r, a)
    [] a.kind = "ACT_LAYER"      -> LayerAction(s, r, a)
    [] a.kind = "ACT_LAYER_MODS" -> LayerModsAction(s, r, a)
    [] a.kind = "ACT_LAYER_TAP"  -> LayerTapAction(s, r, a)
    [] OTHER -> s

-----------------------------------------------------------------------------
\* The switch is done: the record as process_action leaves it, and whether
\* the key must be released before the one-shot layer it fulfilled is left.
Outcome(done, r, a, fulfilled) ==
  [kb  |-> done,
   rec |-> IF CancelsTap(r, a) THEN [r EXCEPT !.count = 0] ELSE r,
   do_release_oneshot |-> fulfilled /\ "ONESHOT_PRESSED" \notin done.oneshot_state]

\* process_action up to its tail.
ProcessAction(s, r, a) ==
  LET weakless == IF r.pressed THEN [s EXCEPT !.weak_mods = {}] ELSE s
      fulfils  == IsOneshotLayerActive(s) /\ r.pressed /\ ~IS_MOD(a.code)
      started  == IF fulfils THEN ClearOneshotLayerState(weakless, {"ONESHOT_OTHER_KEY_PRESSED"})
                  ELSE weakless
  IN  Outcome(ActionEffect(started, r, a), r, a, fulfils /\ ~IsOneshotLayerActive(started))

ProcessStored(s, r)   == ProcessAction(s, r, CachedAction(s, r.key))
StoreAndProcess(s, r) == ProcessStored(StoreSourceLayer(s, r.pressed, r.key), r)

\* The tail of process_action: the release, on the layer of the one-shot.
LeaveOneshotLayer(up) == [kb  |-> LayerOff(up.kb, up.kb.oneshot_layer), rec |-> up.rec]
Tailed(down) ==
  IF down.do_release_oneshot
  THEN LeaveOneshotLayer(StoreAndProcess(LayerOn(down.kb, down.kb.oneshot_layer),
                                         [down.rec EXCEPT !.pressed = FALSE]))
  ELSE [kb |-> down.kb, rec |-> down.rec]

\* process_record.
ProcessRecord(s, r) ==
  IF IS_NOEVENT(r) THEN [kb |-> s, rec |-> r] ELSE Tailed(StoreAndProcess(s, r))

IsTapKey(s, k) == k # NoKey /\ IsTapAction(LayerSwitchGetAction(s, k))
=============================================================================
