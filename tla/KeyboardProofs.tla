--------------------------- MODULE KeyboardProofs ---------------------------
(***************************************************************************)
(* Keyboard for any keymap and configuration.  First the types: what      *)
(* processing a record returns, one lemma for each operator of ActionUtil *)
(* and Action in their order, and then one for each action: the ring of   *)
(* waiting records never fills.                                            *)
(*                                                                         *)
(* Then the order of the records on their way (OrderInv), what is decided *)
(* before the tapping term is over, and when the buffer is empty.          *)
(*                                                                         *)
(* At last ownership: a key, a modifier or a layer that is on is the      *)
(* effect of a key whose press was processed and whose release is still    *)
(* to come (Owned), by the count the record of the release will have.     *)
(***************************************************************************)
EXTENDS Keyboard, SequenceTheorems, WellFoundedInduction, TLAPS

\* Of some layers one is the topmost.
LEMMA MaxLayer ==
  ASSUME NEW S, S \subseteq Layers, S # {}
  PROVE  Max(S) \in S
<1> DEFINE T == {31 - l : l \in S}
<1>1. S \subseteq 0 .. 31
  BY CodesAssumption
<1>2. T \subseteq Nat /\ T # {}
  <2>1. \A l \in S : 31 - l \in Nat
    BY <1>1
  <2>2. PICK l \in S : TRUE
    OBVIOUS
  <2>3. 31 - l \in T
    BY <2>2
  <2> QED
    BY <2>1, <2>3
<1>3. PICK t \in T : \A u \in T : ~(<<u, t>> \in OpToRel(<, Nat))
  BY <1>2, NatLessThanWellFounded, WFMin, Zenon
<1>4. PICK l \in S : t = 31 - l
  OBVIOUS
<1>5. \A m \in S : l >= m
  <2> SUFFICES ASSUME NEW m \in S
               PROVE  l >= m
      OBVIOUS
  <2>1. 31 - m \in T /\ 31 - m \in Nat /\ t \in Nat
    BY <1>1, <1>2
  <2>2. ~(31 - m < t)
    BY <1>3, <2>1 DEF OpToRel
  <2> QED
    BY <1>1, <1>4, <2>1, <2>2
<1> QED
  BY <1>5 DEF Max

-----------------------------------------------------------------------------
(* ActionUtil.                                                             *)

LEMMA SendType ==
  ASSUME NEW s \in KeyboardState
  PROVE  SendKeyboardReport(s) \in KeyboardState
BY DEF SendKeyboardReport, KeyboardState, Report

LEMMA ReportBytesType ==
  ASSUME NEW s \in KeyboardState, NEW c \in Codes
  PROVE  AddKey(s, c) \in KeyboardState /\ DelKey(s, c) \in KeyboardState
BY DEF AddKey, DelKey, KeyboardState

LEMMA ModsType ==
  ASSUME NEW s \in KeyboardState, NEW m \in SUBSET Mods
  PROVE  /\ AddMods(s, m) \in KeyboardState /\ DelMods(s, m) \in KeyboardState
         /\ AddWeakMods(s, m) \in KeyboardState /\ DelWeakMods(s, m) \in KeyboardState
BY DEF AddMods, DelMods, AddWeakMods, DelWeakMods, KeyboardState

LEMMA RegisterModsType ==
  ASSUME NEW s \in KeyboardState, NEW m \in SUBSET Mods
  PROVE  /\ RegisterMods(s, m) \in KeyboardState
         /\ UnregisterMods(s, m) \in KeyboardState
BY ModsType, SendType DEF RegisterMods, UnregisterMods

LEMMA RegisterCodeType ==
  ASSUME NEW s \in KeyboardState, NEW c \in Mods \cup Codes \cup {KC_NO}
  PROVE  /\ RegisterCode(s, c) \in KeyboardState
         /\ UnregisterCode(s, c) \in KeyboardState
<1>1. c \in Mods => AddMods(s, {c}) \in KeyboardState /\ DelMods(s, {c}) \in KeyboardState
  <2>1. c \in Mods => {c} \in SUBSET Mods
    OBVIOUS
  <2> QED
    BY <2>1, ModsType
<1>2. c \in Codes => AddKey(s, c) \in KeyboardState /\ DelKey(s, c) \in KeyboardState
  BY ReportBytesType
<1> QED
  BY <1>1, <1>2, SendType DEF RegisterCode, UnregisterCode, IS_MOD

LEMMA ClearType ==
  ASSUME NEW s \in KeyboardState
  PROVE  /\ ClearKeyboardButModsAndKeys(s) \in KeyboardState
         /\ ClearKeyboard(s) \in KeyboardState
<1>1. ASSUME NEW t \in KeyboardState
      PROVE  ClearKeyboardButModsAndKeys(t) \in KeyboardState
  <2>1. [t EXCEPT !.weak_mods = {}] \in KeyboardState
    BY DEF KeyboardState
  <2> QED
    BY <2>1, SendType DEF ClearKeyboardButModsAndKeys
<1>2. [s EXCEPT !.real_mods = {}, !.keys = {}] \in KeyboardState
  BY DEF KeyboardState
<1> QED
  BY <1>1, <1>2 DEF ClearKeyboard

LEMMA LayersType ==
  ASSUME NEW s \in KeyboardState, NEW ls \in SUBSET Layers
  PROVE  /\ LayerStateSet(s, ls) \in KeyboardState
         /\ LayerOn(s, ls) \in KeyboardState /\ LayerOff(s, ls) \in KeyboardState
         /\ LayerXor(s, ls) \in KeyboardState
         /\ DefaultLayerStateSet(s, ls) \in KeyboardState
<1>1. ASSUME NEW ms \in SUBSET Layers
      PROVE  LayerStateSet(s, ms) \in KeyboardState
  <2>1. [s EXCEPT !.layer_state = ms] \in KeyboardState
    BY DEF KeyboardState
  <2> QED
    BY <2>1, ClearType DEF LayerStateSet
<1>2. s.layer_state \in SUBSET Layers
  BY DEF KeyboardState
<1>3. [s EXCEPT !.default_layer_state = ls] \in KeyboardState
  BY DEF KeyboardState
<1>4. DefaultLayerStateSet(s, ls) \in KeyboardState
  BY <1>3, ClearType DEF DefaultLayerStateSet
<1> QED
  BY <1>1, <1>2, <1>4 DEF LayerOn, LayerOff, LayerXor

\* The layer a key is on is a layer: the topmost opaque one, or 0.
LEMMA LayerOfKeyType ==
  ASSUME NEW s \in KeyboardState, NEW k \in Keys
  PROVE  LayerSwitchGetLayer(s, k) \in Layers
<1> DEFINE opaque == {l \in (s.layer_state \cup s.default_layer_state) \cap Layers :
                        Keymap[l][k] # KC_TRNS}
<1>1. opaque # {} => Max(opaque) \in opaque
  <2>1. opaque \subseteq Layers
    OBVIOUS
  <2> QED
    BY <2>1, MaxLayer
<1> QED
  BY <1>1, CodesAssumption DEF LayerSwitchGetLayer

LEMMA CacheType ==
  ASSUME NEW s \in KeyboardState, NEW k \in Keys, NEW pressed \in BOOLEAN
  PROVE  /\ StoreSourceLayer(s, pressed, k) \in KeyboardState
         /\ CachedAction(s, k) \in Action
<1>1. [s EXCEPT !.source_layers_cache[k] = LayerSwitchGetLayer(s, k)] \in KeyboardState
  BY LayerOfKeyType DEF KeyboardState
<1>2. s.source_layers_cache[k] \in Layers
  BY DEF KeyboardState
<1> QED
  BY <1>1, <1>2, KeymapAssumption DEF StoreSourceLayer, CachedAction

LEMMA OneshotLayerType ==
  ASSUME NEW s \in KeyboardState, NEW ls \in SUBSET Layers,
         NEW st \in SUBSET OneshotStates
  PROVE  /\ SetOneshotLayer(s, ls, st) \in KeyboardState
         /\ ClearOneshotLayerState(s, st) \in KeyboardState
<1>1. [s EXCEPT !.oneshot_layer = ls, !.oneshot_state = st] \in KeyboardState
  BY DEF KeyboardState
<1>2. [s EXCEPT !.oneshot_state = @ \ st] \in KeyboardState
  BY DEF KeyboardState
<1>3. ASSUME NEW t \in KeyboardState
      PROVE  ResetOneshotLayer(t) \in KeyboardState
  BY CodesAssumption DEF KeyboardState, ResetOneshotLayer
<1>4. s.oneshot_layer \in SUBSET Layers
  BY DEF KeyboardState
<1> QED
  BY <1>1, <1>2, <1>3, <1>4, LayersType DEF SetOneshotLayer, ClearOneshotLayerState

-----------------------------------------------------------------------------
(* Action.                                                                 *)

LEMMA ActionType ==
  ASSUME NEW a \in Action
  PROVE  /\ a.mods \in SUBSET Mods /\ a.layers \in SUBSET Layers
         /\ a.kind \in DOMAIN CodesOf /\ a.code \in CodesOf[a.kind]
         /\ a.kind = "ACT_MODS" => a.code \in KeyCodes
         /\ a.kind = "ACT_MODS_TAP" /\ a.code \notin ModOps => a.code \in KeyCodes
         /\ a.kind = "ACT_LAYER_TAP" /\ a.code \notin LayerOps => a.code \in KeyCodes
BY DEF Action, CodesOf

LEMMA ModsActionType ==
  ASSUME NEW s \in KeyboardState, NEW r \in KeyRecord, NEW a \in Action,
         a.kind = "ACT_MODS"
  PROVE  ModsAction(s, r, a) \in KeyboardState
<1> DEFINE Sent(t) == IF a.mods = {} THEN t ELSE SendKeyboardReport(t)
<1>1. a.mods \in SUBSET Mods /\ a.code \in Mods \cup Codes \cup {KC_NO}
  BY ActionType DEF KeyCodes
<1>2. \A t \in KeyboardState : Sent(t) \in KeyboardState
  BY SendType
<1>3. \A t \in KeyboardState : /\ AddMods(t, a.mods) \in KeyboardState
                               /\ AddWeakMods(t, a.mods) \in KeyboardState
                               /\ DelMods(t, a.mods) \in KeyboardState
                               /\ DelWeakMods(t, a.mods) \in KeyboardState
  BY <1>1, ModsType
<1>4. \A t \in KeyboardState : /\ RegisterCode(t, a.code) \in KeyboardState
                               /\ UnregisterCode(t, a.code) \in KeyboardState
  BY <1>1, RegisterCodeType
<1> HIDE DEF Sent
<1>5. CASE r.pressed
  BY <1>2, <1>3, <1>4, <1>5 DEF ModsAction, Sent
<1>6. CASE ~r.pressed
  BY <1>2, <1>3, <1>4, <1>6 DEF ModsAction, Sent
<1> QED
  BY <1>5, <1>6

LEMMA ModsTapActionType ==
  ASSUME NEW s \in KeyboardState, NEW r \in KeyRecord, NEW a \in Action,
         a.kind = "ACT_MODS_TAP"
  PROVE  /\ OneshotModsAction(s, r, a) \in KeyboardState
         /\ TapToggleModsAction(s, r, a) \in KeyboardState
         /\ a.code \notin ModOps => ModTapAction(s, r, a) \in KeyboardState
<1>1. a.mods \in SUBSET Mods /\ s.oneshot_mods \in SUBSET Mods
  BY ActionType DEF KeyboardState
<1>2. [s EXCEPT !.oneshot_mods = @ \cup a.mods] \in KeyboardState
  BY <1>1 DEF KeyboardState
<1>3. [s EXCEPT !.oneshot_mods = {}] \in KeyboardState
  BY DEF KeyboardState
<1>4. OneshotModsAction(s, r, a) \in KeyboardState
  BY <1>1, <1>2, <1>3, RegisterModsType DEF OneshotModsAction
<1>5. TapToggleModsAction(s, r, a) \in KeyboardState
  BY <1>1, RegisterModsType DEF TapToggleModsAction
<1>6. a.code \notin ModOps => ModTapAction(s, r, a) \in KeyboardState
  BY <1>1, ActionType, RegisterModsType, RegisterCodeType DEF ModTapAction, KeyCodes
<1> QED
  BY <1>4, <1>5, <1>6

LEMMA LayerActionType ==
  ASSUME NEW s \in KeyboardState, NEW r \in KeyRecord, NEW a \in Action
  PROVE  /\ LayerAction(s, r, a) \in KeyboardState
         /\ LayerModsAction(s, r, a) \in KeyboardState
<1>1. a.mods \in SUBSET Mods /\ a.layers \in SUBSET Layers
  BY ActionType
<1>2. \A cur \in SUBSET Layers : LayerBitOp(s, cur, a) \in SUBSET Layers
  BY <1>1 DEF LayerBitOp
<1>3. s.layer_state \in SUBSET Layers /\ s.default_layer_state \in SUBSET Layers
  BY DEF KeyboardState
<1>4. LayerAction(s, r, a) \in KeyboardState
  BY <1>2, <1>3, LayersType DEF LayerAction
<1>5. LayerModsAction(s, r, a) \in KeyboardState
  BY <1>1, LayersType, RegisterModsType DEF LayerModsAction
<1> QED
  BY <1>4, <1>5

LEMMA LayerTapActionType ==
  ASSUME NEW s \in KeyboardState, NEW r \in KeyRecord, NEW a \in Action,
         a.kind = "ACT_LAYER_TAP"
  PROVE  LayerTapAction(s, r, a) \in KeyboardState
<1>1. a.layers \in SUBSET Layers
  BY ActionType
<1>2. a.code \notin LayerOps => a.code \in Mods \cup Codes \cup {KC_NO}
  BY ActionType DEF KeyCodes
<1>3. OneshotLayerAction(s, r, a) \in KeyboardState
  <2>1. ONESHOT_START \in SUBSET OneshotStates /\ {"ONESHOT_PRESSED"} \in SUBSET OneshotStates
        /\ {"ONESHOT_OTHER_KEY_PRESSED"} \in SUBSET OneshotStates
    BY DEF ONESHOT_START, OneshotStates
  <2> QED
    BY <1>1, <2>1, LayersType, OneshotLayerType DEF OneshotLayerAction, OneshotLayerRelease
<1>4. r.count \in Nat
  BY DEF KeyRecord
<1>5. CASE a.code \in LayerOps
  BY <1>1, <1>3, <1>5, LayersType DEF LayerTapAction, LayerOps
<1>6. CASE a.code \notin LayerOps
  BY <1>1, <1>2, <1>4, <1>6, LayersType, RegisterCodeType DEF LayerTapAction, LayerOps
<1> QED
  BY <1>5, <1>6

LEMMA ActionEffectType ==
  ASSUME NEW s \in KeyboardState, NEW r \in KeyRecord, NEW a \in Action
  PROVE  ActionEffect(s, r, a) \in KeyboardState
BY ModsActionType, ModsTapActionType, LayerActionType, LayerTapActionType
   DEF ActionEffect, ModOps

LEMMA ProcessActionType ==
  ASSUME NEW s \in KeyboardState, NEW r \in KeyRecord, NEW a \in Action
  PROVE  /\ ProcessAction(s, r, a).kb \in KeyboardState
         /\ ProcessAction(s, r, a).rec \in KeyRecord
<1> DEFINE weakless == IF r.pressed THEN [s EXCEPT !.weak_mods = {}] ELSE s
           fulfils  == IsOneshotLayerActive(s) /\ r.pressed /\ ~IS_MOD(a.code)
           started  == IF fulfils THEN ClearOneshotLayerState(weakless, {"ONESHOT_OTHER_KEY_PRESSED"})
                       ELSE weakless
<1>1. weakless \in KeyboardState
  BY DEF KeyboardState
<1>2. started \in KeyboardState
  <2>1. {"ONESHOT_OTHER_KEY_PRESSED"} \in SUBSET OneshotStates
    BY DEF OneshotStates
  <2> HIDE DEF weakless
  <2> QED
    BY <1>1, <2>1, OneshotLayerType
<1>3. ProcessAction(s, r, a).kb = ActionEffect(started, r, a)
  BY DEF ProcessAction, Outcome
<1>4. [r EXCEPT !.count = 0] \in KeyRecord
  BY ActionAssumption DEF KeyRecord
<1>5. ProcessAction(s, r, a).rec \in KeyRecord
  BY <1>4 DEF ProcessAction, Outcome
<1> HIDE DEF started
<1> QED
  BY <1>2, <1>3, <1>5, ActionEffectType

LEMMA StoreAndProcessType ==
  ASSUME NEW s \in KeyboardState, NEW r \in KeyRecord, r.key \in Keys
  PROVE  /\ StoreAndProcess(s, r).kb \in KeyboardState
         /\ StoreAndProcess(s, r).rec \in KeyRecord
         /\ StoreAndProcess(s, r).rec.key = r.key
<1> DEFINE t == StoreSourceLayer(s, r.pressed, r.key)
<1>1. r.pressed \in BOOLEAN
  BY DEF KeyRecord
<1>2. t \in KeyboardState
  BY <1>1, CacheType
<1>3. CachedAction(t, r.key) \in Action
  BY <1>1, <1>2, CacheType
<1>4. StoreAndProcess(s, r) = ProcessAction(t, r, CachedAction(t, r.key))
  BY DEF StoreAndProcess, ProcessStored
<1>5. ProcessAction(t, r, CachedAction(t, r.key)).rec.key = r.key
  BY DEF ProcessAction, Outcome, KeyRecord
<1> HIDE DEF t
<1> QED
  BY <1>2, <1>3, <1>4, <1>5, ProcessActionType

\* process_record returns a keyboard state and a record of the same type,
\* whatever the keymap, the layers and the record.
LEMMA ProcessRecordType ==
  ASSUME NEW s \in KeyboardState, NEW r \in KeyRecord
  PROVE  /\ ProcessRecord(s, r).kb \in KeyboardState
         /\ ProcessRecord(s, r).rec \in KeyRecord
<1>1. CASE IS_NOEVENT(r)
  BY <1>1 DEF ProcessRecord
<1>2. CASE ~IS_NOEVENT(r)
  <2> DEFINE first  == StoreAndProcess(s, r)
             up     == [first.rec EXCEPT !.pressed = FALSE]
             second == StoreAndProcess(LayerOn(first.kb, first.kb.oneshot_layer), up)
  <2>1. r.key \in Keys
    BY <1>2 DEF IS_NOEVENT, KeyRecord
  <2>2. first.kb \in KeyboardState /\ first.rec \in KeyRecord /\ first.rec.key = r.key
    BY <2>1, StoreAndProcessType
  <2> HIDE DEF first
  <2>3. up \in KeyRecord /\ up.key \in Keys
    BY <2>1, <2>2 DEF KeyRecord
  <2>4. LayerOn(first.kb, first.kb.oneshot_layer) \in KeyboardState
    <3>1. first.kb.oneshot_layer \in SUBSET Layers
      BY <2>2 DEF KeyboardState
    <3> QED
      BY <2>2, <3>1, LayersType
  <2> HIDE DEF up
  <2>5. second.kb \in KeyboardState /\ second.rec \in KeyRecord
    BY <2>3, <2>4, StoreAndProcessType
  <2> HIDE DEF second
  <2>6. LayerOff(second.kb, second.kb.oneshot_layer) \in KeyboardState
    <3>1. second.kb.oneshot_layer \in SUBSET Layers
      BY <2>5 DEF KeyboardState
    <3> QED
      BY <2>5, <3>1, LayersType
  <2> QED
    BY <1>2, <2>2, <2>5, <2>6 DEF ProcessRecord, Tailed, LeaveOneshotLayer, first, up, second
<1> QED
  BY <1>1, <1>2

-----------------------------------------------------------------------------
(* Tapping, the main loop and the matrix.                                  *)

\* What a call of process_tapping leaves besides kb and tapping_key.
CallTypeOK ==
  /\ waiting_buffer \in Seq(KeyRecord)
  /\ Len(waiting_buffer) < WaitingBufferSize
  /\ record \in KeyRecord
  /\ pc \in {"idle", "process", "enqueue", "drain"}

LEMMA CountType == 0 \in 0 .. MaxTapCount /\ 1 \in 0 .. MaxTapCount
BY ActionAssumption

LEMMA NoRecordType == NoRecord \in KeyRecord
BY CountType DEF NoRecord, KeyRecord

LEMMA KeypType ==
  ASSUME CallTypeOK, Called
  PROVE  /\ keyp \in KeyRecord
         /\ pc = "drain" => waiting_buffer # << >> /\ 1 \in 1 .. Len(waiting_buffer)
<1>1. CASE pc = "process"
  BY <1>1 DEF CallTypeOK, Called, keyp
<1>2. CASE pc # "process"
  <2>1. waiting_buffer # << >> /\ waiting_buffer \in Seq(KeyRecord) /\ pc = "drain"
    BY <1>2 DEF CallTypeOK, Called
  <2>2. Len(waiting_buffer) \in Nat \ {0}
    BY <2>1, EmptySeq
  <2>3. Head(waiting_buffer) = waiting_buffer[1] /\ 1 \in 1 .. Len(waiting_buffer)
    BY <2>1, <2>2
  <2>4. waiting_buffer[1] \in KeyRecord
    BY <2>1, <2>3, ElementOfSeq
  <2> QED
    BY <1>2, <2>1, <2>3, <2>4 DEF keyp
<1> QED
  BY <1>1, <1>2

LEMMA ConsumedType ==
  ASSUME CallTypeOK, Called, NEW buffer \in Seq(KeyRecord),
         Len(buffer) = Len(waiting_buffer), Consumed(buffer)
  PROVE  CallTypeOK'
<1>1. CASE pc = "process"
  BY <1>1, NoRecordType DEF CallTypeOK, Consumed
<1>2. CASE pc # "process"
  <2>1. Len(buffer) \in Nat \ {0}
    <3>1. pc = "drain"
      BY <1>2 DEF Called
    <3> QED
      BY <3>1, KeypType, EmptySeq DEF CallTypeOK
  <2>2. buffer # << >>
    BY <2>1, EmptySeq
  <2>3. Tail(buffer) \in Seq(KeyRecord) /\ Len(Tail(buffer)) = Len(buffer) - 1
    BY <2>1, <2>2
  <2>4. Len(waiting_buffer) - 1 < WaitingBufferSize
    BY <2>1, TappingAssumption DEF CallTypeOK
  <2> QED
    BY <1>2, <2>3, <2>4 DEF CallTypeOK, Consumed
<1> QED
  BY <1>1, <1>2

LEMMA ConsumedWaitingType ==
  ASSUME CallTypeOK, Called, Consumed(waiting_buffer)
  PROVE  CallTypeOK'
BY ConsumedType DEF CallTypeOK

LEMMA KeptType ==
  ASSUME CallTypeOK, Called, NEW r \in KeyRecord, Kept(r)
  PROVE  CallTypeOK'
<1>1. CASE pc = "process"
  BY <1>1 DEF CallTypeOK, Kept
<1>2. CASE pc # "process"
  <2>1. 1 \in 1 .. Len(waiting_buffer)
    BY <1>2, KeypType DEF Called
  <2>2. /\ [waiting_buffer EXCEPT ![1] = r] \in Seq(KeyRecord)
        /\ Len([waiting_buffer EXCEPT ![1] = r]) = Len(waiting_buffer)
    BY <2>1, ExceptSeq DEF CallTypeOK
  <2> QED
    BY <1>2, <2>2 DEF CallTypeOK, Kept
<1> QED
  BY <1>1, <1>2

-----------------------------------------------------------------------------
(* The branches of process_tapping.                                        *)

StateTypeOK == kb \in KeyboardState /\ tapping_key \in KeyRecord

LEMMA TypeParts == TappingTypeOK /\ Len(waiting_buffer) < WaitingBufferSize
                     <=> StateTypeOK /\ CallTypeOK
BY DEF TappingTypeOK, StateTypeOK, CallTypeOK

LEMMA ProcessAndConsumeType ==
  ASSUME StateTypeOK, CallTypeOK, Called, ProcessAndConsume
  PROVE  kb' \in KeyboardState /\ CallTypeOK'
BY KeypType, ConsumedWaitingType, ProcessRecordType DEF ProcessAndConsume, StateTypeOK

\* Marking one waiting record as a tap, as waiting_buffer_scan_tap does.
LEMMA CountedType ==
  ASSUME NEW w \in Seq(KeyRecord), NEW i
  PROVE  /\ [w EXCEPT ![i].count = 1] \in Seq(KeyRecord)
         /\ Len([w EXCEPT ![i].count = 1]) = Len(w)
<1>1. DOMAIN w = 1 .. Len(w)
  BY LenProperties
<1>2. CASE i \in 1 .. Len(w)
  <2>1. w[i] \in KeyRecord
    BY <1>2, ElementOfSeq
  <2>2. [w[i] EXCEPT !.count = 1] \in KeyRecord
    BY <2>1, CountType DEF KeyRecord
  <2> QED
    BY <1>2, <2>2, ExceptSeq
<1>3. CASE i \notin 1 .. Len(w)
  <2>1. [w EXCEPT ![i].count = 1] = w
    BY <1>1, <1>3
  <2> QED
    BY <2>1
<1> QED
  BY <1>2, <1>3

LEMMA StartTappingType ==
  ASSUME StateTypeOK, CallTypeOK, Called, NEW s \in KeyboardState, StartTapping(s)
  PROVE  StateTypeOK' /\ CallTypeOK'
<1> DEFINE ends == {i \in DOMAIN waiting_buffer :
                      /\ waiting_buffer[i].key = keyp.key
                      /\ ~waiting_buffer[i].pressed
                      /\ Within(waiting_buffer[i], keyp)}
           down    == ProcessRecord(s, [keyp EXCEPT !.count = 1])
           counted == [waiting_buffer EXCEPT ![Min(ends)].count = 1]
<1>1. keyp \in KeyRecord
  BY KeypType
<1>2. CASE keyp.count = 0 /\ ends # {}
  <2>1. [keyp EXCEPT !.count = 1] \in KeyRecord
    BY <1>1, ActionAssumption DEF KeyRecord
  <2>2. down.kb \in KeyboardState /\ down.rec \in KeyRecord
    BY <2>1, ProcessRecordType
  <2>3. waiting_buffer \in Seq(KeyRecord)
    BY DEF CallTypeOK
  <2>4. counted \in Seq(KeyRecord) /\ Len(counted) = Len(waiting_buffer)
    BY <2>3, CountedType
  <2>5. kb' = down.kb /\ tapping_key' = down.rec /\ Consumed(counted)
    BY <1>2 DEF StartTapping
  <2> HIDE DEF counted, down
  <2> QED
    BY <2>2, <2>4, <2>5, ConsumedType DEF StateTypeOK
<1>3. CASE ~(keyp.count = 0 /\ ends # {})
  <2>1. kb' = s /\ tapping_key' = keyp /\ Consumed(waiting_buffer)
    BY <1>3 DEF StartTapping
  <2> QED
    BY <1>1, <2>1, ConsumedWaitingType DEF StateTypeOK
<1> QED
  BY <1>2, <1>3

\* Every branch of process_tapping keeps the types.
LEMMA ProcessTappingType ==
  ASSUME StateTypeOK, CallTypeOK, ProcessTapping
  PROVE  StateTypeOK' /\ CallTypeOK'
<1>1. tapping_key \in KeyRecord /\ kb \in KeyboardState
  BY DEF StateTypeOK
<1>2. ProcessRecord(kb, tapping_key).kb \in KeyboardState
  BY <1>1, ProcessRecordType
<1>3. CASE FirstTap
  <2> DEFINE down == ProcessRecord(kb, [tapping_key EXCEPT !.count = 1])
             r    == [keyp EXCEPT !.count = down.rec.count,
                                  !.interrupted = down.rec.interrupted]
  <2>1. Called
    BY <1>3 DEF FirstTap, DecidingCall
  <2>2. [tapping_key EXCEPT !.count = 1] \in KeyRecord
    BY <1>1, ActionAssumption DEF KeyRecord
  <2>3. down.kb \in KeyboardState /\ down.rec \in KeyRecord
    BY <1>1, <2>2, ProcessRecordType
  <2>4. kb' = down.kb /\ tapping_key' = down.rec /\ Kept(r)
    BY <1>3 DEF FirstTap
  <2> HIDE DEF down
  <2>5. r \in KeyRecord
    BY <2>1, <2>3, KeypType DEF KeyRecord
  <2> HIDE DEF r
  <2> QED
    BY <2>1, <2>3, <2>4, <2>5, KeptType DEF StateTypeOK
<1>4. CASE TypedInterference
  <2>1. Called
    BY <1>4 DEF TypedInterference, DecidingCall
  <2> QED
    BY <1>2, <1>4, <2>1, KeypType, KeptType, NoRecordType DEF TypedInterference, StateTypeOK
<1>5. CASE ReleaseOfEarlierModifier
  <2>1. Called
    BY <1>5 DEF ReleaseOfEarlierModifier, DecidingCall
  <2> QED
    BY <1>1, <1>5, <2>1, KeypType, KeptType DEF ReleaseOfEarlierModifier, StateTypeOK
<1>6. CASE ReleaseOfEarlierKey
  <2>1. Called
    BY <1>6 DEF ReleaseOfEarlierKey, DecidingCall
  <2> QED
    BY <1>1, <1>6, <2>1, ProcessAndConsumeType DEF ReleaseOfEarlierKey, StateTypeOK
<1>7. CASE WaitForDecision
  <2>1. Called
    BY <1>7 DEF WaitForDecision, DecidingCall
  <2>2. [tapping_key EXCEPT !.interrupted = @ \/ keyp.pressed] \in KeyRecord
    BY <1>1 DEF KeyRecord
  <2> QED
    BY <1>1, <1>7, <2>1, <2>2, KeypType, KeptType DEF WaitForDecision, StateTypeOK
<1>8. CASE TimeoutHold
  BY <1>2, <1>8, KeypType, KeptType, NoRecordType DEF TimeoutHold, StateTypeOK
<1>9. CASE TapRelease
  <2> DEFINE r  == [keyp EXCEPT !.count = tapping_key.count,
                                !.interrupted = tapping_key.interrupted]
             up == ProcessRecord(kb, r)
  <2>1. Called
    BY <1>9 DEF TapRelease, DecidedCall
  <2>2. r \in KeyRecord
    BY <1>1, <2>1, KeypType DEF KeyRecord
  <2>3. up.kb \in KeyboardState /\ up.rec \in KeyRecord
    BY <1>1, <2>2, ProcessRecordType
  <2>4. /\ kb' = up.kb
        /\ tapping_key' = IF Within(keyp, tapping_key) THEN up.rec ELSE NoRecord
        /\ Consumed(waiting_buffer)
    BY <1>9 DEF TapRelease
  <2> HIDE DEF r, up
  <2> QED
    BY <2>1, <2>3, <2>4, NoRecordType, ConsumedWaitingType DEF StateTypeOK
<1>10. CASE NextTapKey
  <2> DEFINE r == [tapping_key EXCEPT !.time = keyp.time, !.pressed = FALSE]
             s == IF tapping_key.count > 1 THEN ProcessRecord(kb, r).kb ELSE kb
  <2>1. Called
    BY <1>10 DEF NextTapKey, DecidedCall
  <2>2. r \in KeyRecord
    BY <1>1, <2>1, KeypType DEF KeyRecord
  <2>3. s \in KeyboardState
    BY <1>1, <2>2, ProcessRecordType
  <2>4. StartTapping(s)
    BY <1>10 DEF NextTapKey
  <2> HIDE DEF s
  <2> QED
    BY <2>1, <2>3, <2>4, StartTappingType
<1>11. CASE OtherKeyWhileTapped
  <2>1. Called
    BY <1>11 DEF OtherKeyWhileTapped, DecidedCall
  <2> QED
    BY <1>1, <1>11, <2>1, ProcessAndConsumeType DEF OtherKeyWhileTapped, StateTypeOK
<1>12. CASE SequentialTap
  <2> DEFINE n    == tapping_key.count
             r    == [keyp EXCEPT !.count = IF n < MaxTapCount THEN n + 1 ELSE n,
                                  !.interrupted = tapping_key.interrupted]
             down == ProcessRecord(kb, r)
  <2>1. Called
    BY <1>12 DEF SequentialTap, AfterTapCall
  <2>2. r \in KeyRecord
    <3>1. (IF n < MaxTapCount THEN n + 1 ELSE n) \in 0 .. MaxTapCount
      BY <1>1, ActionAssumption DEF KeyRecord
    <3>2. keyp \in KeyRecord
      BY <2>1, KeypType
    <3> HIDE DEF n
    <3> QED
      BY <1>1, <3>1, <3>2 DEF KeyRecord
  <2>3. down.kb \in KeyboardState /\ down.rec \in KeyRecord
    BY <1>1, <2>2, ProcessRecordType
  <2>4. kb' = down.kb /\ tapping_key' = down.rec /\ Consumed(waiting_buffer)
    BY <1>12 DEF SequentialTap
  <2> HIDE DEF r, down
  <2> QED
    BY <2>1, <2>3, <2>4, ConsumedWaitingType DEF StateTypeOK
<1>13. CASE NewTap
  <2>1. Called
    BY <1>13 DEF NewTap, AfterTapCall
  <2> QED
    BY <1>1, <1>13, <2>1, KeypType, ConsumedWaitingType DEF NewTap, StateTypeOK
<1>14. CASE InterferingTap
  <2>1. Called
    BY <1>14 DEF InterferingTap, AfterTapCall
  <2> QED
    BY <1>1, <1>14, <2>1, StartTappingType DEF InterferingTap
<1>15. CASE OtherPressAfterTap
  <2>1. Called
    BY <1>15 DEF OtherPressAfterTap, AfterTapCall
  <2>2. [tapping_key EXCEPT !.interrupted = TRUE] \in KeyRecord
    BY <1>1 DEF KeyRecord
  <2> QED
    BY <1>15, <2>1, <2>2, ProcessAndConsumeType DEF OtherPressAfterTap, StateTypeOK
<1>16. CASE OtherEventAfterTap
  <2>1. Called
    BY <1>16 DEF OtherEventAfterTap, AfterTapCall
  <2> QED
    BY <1>1, <1>16, <2>1, ProcessAndConsumeType DEF OtherEventAfterTap, StateTypeOK
<1>17. CASE TimeoutAfterTap
  BY <1>1, <1>17, KeypType, KeptType, NoRecordType DEF TimeoutAfterTap, StateTypeOK
<1>18. CASE StartTap
  BY <1>1, <1>18, StartTappingType DEF StartTap
<1>19. CASE NoTap
  BY <1>1, <1>19, ProcessAndConsumeType DEF NoTap, StateTypeOK
<1> QED
  BY <1>3, <1>4, <1>5, <1>6, <1>7, <1>8, <1>9, <1>10, <1>11, <1>12, <1>13, <1>14,
     <1>15, <1>16, <1>17, <1>18, <1>19 DEF ProcessTapping

\* So do the steps around it; waiting_buffer_enq leaves a slot free.
LEMMA TappingStepType ==
  ASSUME StateTypeOK, CallTypeOK, TappingStep
  PROVE  StateTypeOK' /\ CallTypeOK'
<1>1. CASE ProcessTapping
  BY <1>1, ProcessTappingType
<1>2. CASE Enqueue
  <2>1. waiting_buffer \in Seq(KeyRecord) /\ record \in KeyRecord
    BY DEF CallTypeOK
  <2>2. /\ Append(waiting_buffer, record) \in Seq(KeyRecord)
        /\ Len(Append(waiting_buffer, record)) = Len(waiting_buffer) + 1
    BY <2>1
  <2>3. ~BufferFull => Len(waiting_buffer) + 1 < WaitingBufferSize
    BY <2>1, TappingAssumption, LenProperties DEF BufferFull
  <2> QED
    BY <1>2, <2>1, <2>2, <2>3, NoRecordType DEF Enqueue, StateTypeOK, CallTypeOK
<1>3. CASE Overflow
  <2>1. ClearKeyboard(kb) \in KeyboardState
    BY ClearType DEF StateTypeOK
  <2>2. << >> \in Seq(KeyRecord) /\ Len(<< >>) < WaitingBufferSize
    BY EmptySeq, TappingAssumption
  <2> QED
    BY <1>3, <2>1, <2>2, NoRecordType DEF Overflow, StateTypeOK, CallTypeOK
<1>4. CASE DrainEnd
  BY <1>4 DEF DrainEnd, StateTypeOK, CallTypeOK
<1> QED
  BY <1>1, <1>2, <1>3, <1>4 DEF TappingStep

-----------------------------------------------------------------------------
(* The main loop.                                                          *)

LEMMA InitType == Init => TypeOK
<1> SUFFICES ASSUME Init
             PROVE  TypeOK
    OBVIOUS
<1>1. InitialKeyboardState \in KeyboardState
  BY CodesAssumption DEF InitialKeyboardState, KeyboardState, Report
<1>2. << >> \in Seq(KeyRecord) /\ Len(<< >>) < WaitingBufferSize
  BY EmptySeq, TappingAssumption
<1>3. timer \in 0 .. TimerMax
  BY TappingAssumption DEF Init
<1> QED
  BY <1>1, <1>2, <1>3, NoRecordType DEF Init, TappingInit, TypeOK, TappingTypeOK

\* The events keyboard_task makes are records.
LEMMA EventTimeType == \A t \in Nat : EventTime(t) \in Nat
BY DEF EventTime

LEMMA EventType ==
  \A t \in 0 .. TimerMax : /\ \A k \in Keys : KeyEvent(k, t) \in KeyRecord
                           /\ Tick(t) \in KeyRecord
<1> SUFFICES ASSUME NEW t \in 0 .. TimerMax
             PROVE  /\ \A k \in Keys : KeyEvent(k, t) \in KeyRecord
                    /\ Tick(t) \in KeyRecord
    OBVIOUS
<1>1. EventTime(t) \in Nat
  BY EventTimeType
<1>2. (\A k \in Keys : (k \in matrix) \in BOOLEAN) /\ FALSE \in BOOLEAN
  OBVIOUS
<1> QED
  BY <1>1, <1>2, CountType DEF KeyEvent, Tick, NoRecord, KeyRecord

\* A changed key is a key, the first in scan order among others.
LEMMA FirstChanged ==
  ASSUME matrix \subseteq Keys, matrix_prev \subseteq Keys, Changed # {}
  PROVE  Min(Changed) \in Keys /\ Min(Changed) \in Changed
<1>1. Changed \subseteq Keys /\ Changed \subseteq Nat
  BY KeyboardAssumption DEF Changed
<1>2. PICK k \in Changed : \A u \in Changed : ~(<<u, k>> \in OpToRel(<, Nat))
  BY <1>1, NatLessThanWellFounded, WFMin, Zenon
<1>3. \A u \in Changed : k =< u
  <2> SUFFICES ASSUME NEW u \in Changed
               PROVE  k =< u
      OBVIOUS
  <2>1. k \in Nat /\ u \in Nat
    BY <1>1
  <2>2. ~(u < k)
    BY <1>2, <2>1 DEF OpToRel
  <2> QED
    BY <2>1, <2>2
<1>4. Min(Changed) \in Changed
  BY <1>3 DEF Min
<1> QED
  BY <1>1, <1>4

LEMMA NextType == TypeOK /\ [Next]_vars => TypeOK'
<1> SUFFICES ASSUME TypeOK, [Next]_vars
             PROVE  TypeOK'
    OBVIOUS
<1>1. ASSUME NEW k \in Keys, KeyMoves(k)
      PROVE  TypeOK'
  BY <1>1 DEF KeyMoves, tappingVars, TypeOK, TappingTypeOK
<1>2. ASSUME NEW d \in TimeSteps
      PROVE  Now(d) \in 0 .. TimerMax
  <2>1. d \in Nat /\ timer \in Nat /\ TimerMax \in Nat
    BY KeyboardAssumption, TappingAssumption DEF TypeOK
  <2> QED
    BY <2>1 DEF Now
<1>3. ASSUME NEW r \in KeyRecord, ActionExec(r)
      PROVE  TappingTypeOK' /\ waiting_buffer' = waiting_buffer
  BY <1>3 DEF ActionExec, TypeOK, TappingTypeOK
<1>4. ASSUME NEW d \in TimeSteps, ScanKey(d)
      PROVE  TypeOK'
  <2> DEFINE k == Min(Changed)
  <2>1. k \in Keys
    BY <1>4, FirstChanged DEF ScanKey, TypeOK
  <2>2. timer' \in 0 .. TimerMax
    BY <1>2, <1>4 DEF ScanKey
  <2>3. KeyEvent(k, timer') \in KeyRecord
    BY <2>1, <2>2, EventType
  <2>4. TappingTypeOK' /\ waiting_buffer' = waiting_buffer
    BY <1>3, <1>4, <2>3 DEF ScanKey
  <2>5. matrix_prev' \subseteq Keys
    BY <1>4, <2>1 DEF ScanKey, TypeOK
  <2> QED
    BY <1>4, <2>2, <2>4, <2>5 DEF ScanKey, TypeOK
<1>5. ASSUME NEW d \in TimeSteps, ScanNothing(d)
      PROVE  TypeOK'
  <2>1. timer' \in 0 .. TimerMax
    BY <1>2, <1>5 DEF ScanNothing
  <2>2. Tick(timer') \in KeyRecord
    BY <2>1, EventType
  <2>3. TappingTypeOK' /\ waiting_buffer' = waiting_buffer
    BY <1>3, <1>5, <2>2 DEF ScanNothing
  <2> QED
    BY <1>5, <2>1, <2>3 DEF ScanNothing, TypeOK
<1>6. CASE Tapping
  <2>1. StateTypeOK /\ CallTypeOK
    BY TypeParts DEF TypeOK
  <2>2. StateTypeOK' /\ CallTypeOK'
    BY <1>6, <2>1, TappingStepType DEF Tapping
  <2>3. TappingTypeOK' /\ (Len(waiting_buffer) < WaitingBufferSize)'
    BY <2>2 DEF TappingTypeOK, StateTypeOK, CallTypeOK
  <2> QED
    BY <1>6, <2>3 DEF Tapping, TypeOK
<1>7. CASE UNCHANGED vars
  BY <1>7 DEF vars, TypeOK, TappingTypeOK
<1> QED
  BY <1>1, <1>4, <1>5, <1>6, <1>7 DEF Next, KeyboardTask

\* Every variable keeps its type, and the ring of waiting records its free
\* slot (TypeOK): for every keymap, number of keys, buffer size and timer.
THEOREM TypeCorrectness == Spec => []TypeOK
<1>1. Init => TypeOK
  BY InitType
<1>2. TypeOK /\ [Next]_vars => TypeOK'
  BY NextType
<1> QED
  BY <1>1, <1>2, PTL DEF Spec

-----------------------------------------------------------------------------
(* The order of the records.  First what process_record leaves of its     *)
(* record: the key and the time; a press may come back as a release.      *)

LEMMA StoreAndProcessRec ==
  ASSUME NEW s, NEW r \in KeyRecord
  PROVE  /\ StoreAndProcess(s, r).rec \in KeyRecord
         /\ StoreAndProcess(s, r).rec.key = r.key
         /\ StoreAndProcess(s, r).rec.time = r.time
         /\ StoreAndProcess(s, r).rec.pressed = r.pressed
<1> DEFINE t == StoreSourceLayer(s, r.pressed, r.key)
           a == CachedAction(t, r.key)
<1>1. StoreAndProcess(s, r).rec = IF CancelsTap(r, a) THEN [r EXCEPT !.count = 0] ELSE r
  BY DEF StoreAndProcess, ProcessStored, ProcessAction, Outcome
<1> HIDE DEF t, a
<1> QED
  BY <1>1, CountType DEF KeyRecord

LEMMA ProcessRecordRec ==
  ASSUME NEW s \in KeyboardState, NEW r \in KeyRecord
  PROVE  /\ ProcessRecord(s, r).rec.key = r.key
         /\ ProcessRecord(s, r).rec.time = r.time
         /\ ProcessRecord(s, r).rec.pressed => r.pressed
<1> DEFINE first  == StoreAndProcess(s, r)
           up     == [first.rec EXCEPT !.pressed = FALSE]
           second == StoreAndProcess(LayerOn(first.kb, first.kb.oneshot_layer), up)
<1>1. /\ first.rec \in KeyRecord /\ first.rec.key = r.key /\ first.rec.time = r.time
      /\ first.rec.pressed = r.pressed
  BY StoreAndProcessRec
<1> HIDE DEF first
<1>2. up \in KeyRecord /\ up.key = r.key /\ up.time = r.time /\ ~up.pressed
  BY <1>1 DEF KeyRecord
<1> HIDE DEF up
<1>3. second.rec.key = r.key /\ second.rec.time = r.time /\ ~second.rec.pressed
  BY <1>2, StoreAndProcessRec
<1> HIDE DEF second
<1>4. ProcessRecord(s, r).rec \in {r, first.rec, second.rec}
  BY DEF ProcessRecord, Tailed, LeaveOneshotLayer, first, up, second
<1> QED
  BY <1>1, <1>3, <1>4

-----------------------------------------------------------------------------
(* A waiting buffer in which presses and releases take turns.              *)

\* w and v hold the same events, whatever they were counted as.
SameEvents(w, v) ==
  /\ Len(w) = Len(v)
  /\ \A i \in 1 .. Len(w) : v[i].key = w[i].key /\ v[i].pressed = w[i].pressed

LEMMA AlternatingSame ==
  ASSUME NEW w \in Seq(KeyRecord), NEW v \in Seq(KeyRecord), NEW down,
         SameEvents(w, v), Alternating(w, down)
  PROVE  Alternating(v, down)
<1>1. DOMAIN w = 1 .. Len(w) /\ DOMAIN v = DOMAIN w
  BY LenProperties DEF SameEvents
<1> QED
  BY <1>1 DEF SameEvents, Alternating

LEMMA AlternatingTail ==
  ASSUME NEW w \in Seq(KeyRecord), w # << >>, NEW down, Alternating(w, down)
  PROVE  Alternating(Tail(w), down)
<1> DEFINE v == Tail(w)
           n == Len(w) - 1
<1>1. n \in Nat /\ DOMAIN w = 1 .. n + 1
  BY LenProperties, EmptySeq
<1>2. DOMAIN v = 1 .. n /\ \A i \in 1 .. n : v[i] = w[i + 1]
  BY <1>1
<1> HIDE DEF v, n
<1> SUFFICES ASSUME NEW i \in 1 .. n
             PROVE  /\ v[i].key \in Keys
                    /\ \/ v[i].pressed = (v[i].key \in down)
                       \/ \E j \in 1 .. n : j > i /\ v[j].key = v[i].key /\ v[j].pressed # v[i].pressed
  BY <1>2 DEF Alternating, v
<1>3. i + 1 \in DOMAIN w
  BY <1>1
<1>4. CASE v[i].pressed = (v[i].key \in down)
  BY <1>2, <1>3, <1>4 DEF Alternating
<1>5. CASE v[i].pressed # (v[i].key \in down)
  <2>1. PICK j \in DOMAIN w : j > i + 1 /\ w[j].key = w[i + 1].key /\ w[j].pressed # w[i + 1].pressed
    BY <1>2, <1>3, <1>5 DEF Alternating
  <2>2. j - 1 \in 1 .. n /\ j - 1 > i /\ (j - 1) + 1 = j
    BY <1>1, <2>1
  <2>3. v[j - 1].key = v[i].key /\ v[j - 1].pressed # v[i].pressed
    BY <1>2, <2>1, <2>2
  <2> QED
    BY <1>2, <1>3, <2>2, <2>3 DEF Alternating
<1> QED
  BY <1>4, <1>5

\* The next event of a key in the buffer, opposite to its state before.
LEMMA AlternatingAppend ==
  ASSUME NEW w \in Seq(KeyRecord), NEW r \in KeyRecord, r.key \in Keys,
         NEW down, NEW now, Alternating(w, down),
         (r.key \in down) = ~r.pressed, (r.key \in now) = r.pressed,
         \A k \in Keys \ {r.key} : (k \in now) = (k \in down)
  PROVE  Alternating(Append(w, r), now)
<1> DEFINE n == Len(w)
           v == Append(w, r)
<1>1. n \in Nat /\ DOMAIN w = 1 .. n
  BY LenProperties
<1>2. /\ DOMAIN v = 1 .. n + 1
      /\ \A i \in 1 .. n : v[i] = w[i]
      /\ v[n + 1] = r
  BY <1>1, AppendProperties
<1>3. \A i \in 1 .. n : w[i].pressed \in BOOLEAN
  <2>1. \A i \in 1 .. n : w[i] \in KeyRecord
    BY ElementOfSeq
  <2> QED
    BY <2>1 DEF KeyRecord
<1>4. r.pressed \in BOOLEAN
  BY DEF KeyRecord
<1> HIDE DEF n, v
<1> SUFFICES ASSUME NEW i \in 1 .. n + 1
             PROVE  /\ v[i].key \in Keys
                    /\ \/ v[i].pressed = (v[i].key \in now)
                       \/ \E j \in 1 .. n + 1 : j > i /\ v[j].key = v[i].key /\ v[j].pressed # v[i].pressed
  BY <1>2 DEF Alternating, v
<1>5. CASE i = n + 1
  BY <1>2, <1>5
<1>6. CASE i \in 1 .. n
  <2>1. v[i].key \in Keys
    BY <1>1, <1>2, <1>6 DEF Alternating
  <2>2. CASE v[i].pressed = (v[i].key \in down)
    <3>1. CASE v[i].key = r.key
      <4>1. n + 1 \in 1 .. n + 1 /\ n + 1 > i /\ v[n + 1].key = v[i].key /\ v[n + 1].pressed # v[i].pressed
        BY <1>1, <1>2, <1>4, <1>6, <2>2, <3>1
      <4> QED
        BY <2>1, <4>1
    <3>2. CASE v[i].key # r.key
      BY <2>1, <2>2, <3>2
    <3> QED
      BY <3>1, <3>2
  <2>3. CASE v[i].pressed # (v[i].key \in down)
    <3>1. PICK j \in 1 .. n : j > i /\ w[j].key = w[i].key /\ w[j].pressed # w[i].pressed
      BY <1>1, <1>2, <1>6, <2>3 DEF Alternating
    <3>2. j \in 1 .. n + 1 /\ v[j].key = v[i].key /\ v[j].pressed # v[i].pressed
      BY <1>1, <1>2, <1>6, <3>1
    <3> QED
      BY <2>1, <3>1, <3>2
  <2> QED
    BY <2>2, <2>3
<1>7. i = n + 1 \/ i \in 1 .. n
  BY <1>1
<1> QED
  BY <1>5, <1>6, <1>7

\* Only the state of the keys that are in the buffer matters.
LEMMA AlternatingAgree ==
  ASSUME NEW w, NEW down, NEW now, Alternating(w, down),
         \A i \in DOMAIN w : (w[i].key \in now) = (w[i].key \in down)
  PROVE  Alternating(w, now)
BY DEF Alternating

-----------------------------------------------------------------------------
(* The two results of process_tapping, and the order of the records.       *)

\* Where the tap key's release is does not matter here.
QueueInv == RecordAsScanned /\ Alternates /\ NotAhead

LEMMA SameEventsAsIs == ASSUME NEW w \in Seq(KeyRecord) PROVE SameEvents(w, w)
BY DEF SameEvents

\* A record is consumed that overtakes nothing.
LEMMA ConsumedOrder ==
  ASSUME CallTypeOK, Called, QueueInv, matrix_prev' = matrix_prev,
         NEW buffer \in Seq(KeyRecord), SameEvents(waiting_buffer, buffer), Consumed(buffer),
         pc = "process" /\ ~IS_NOEVENT(record)
           => \A i \in DOMAIN waiting_buffer : waiting_buffer[i].key # record.key
  PROVE  QueueInv'
<1>1. Alternating(buffer, DownBefore)
  BY AlternatingSame DEF CallTypeOK, QueueInv, Alternates
<1>2. DOMAIN buffer = DOMAIN waiting_buffer /\ DOMAIN buffer = 1 .. Len(waiting_buffer)
  BY LenProperties DEF CallTypeOK, SameEvents
<1>3. CASE pc = "process"
  <2>1. pc' = "drain" /\ waiting_buffer' = buffer
    BY <1>3 DEF Consumed
  <2>2. ~Handled' /\ DownBefore' = matrix_prev
    BY <2>1 DEF Handled, DownBefore
  <2>3. \A i \in DOMAIN buffer : Handled => buffer[i].key # record.key
    BY <1>2, <1>3 DEF SameEvents, Handled
  <2>4. \A i \in DOMAIN buffer : (buffer[i].key \in matrix_prev) = (buffer[i].key \in DownBefore)
    BY <2>3, CallTypeOK DEF DownBefore, CallTypeOK, KeyRecord
  <2>5. Alternating(buffer, matrix_prev)
    BY <1>1, <2>4, AlternatingAgree
  <2> QED
    BY <2>1, <2>2, <2>5 DEF QueueInv, RecordAsScanned, Alternates, NotAhead
<1>4. CASE pc = "drain"
  <2>1. pc' = "drain" /\ waiting_buffer' = Tail(buffer)
    BY <1>4 DEF Consumed
  <2>2. ~Handled /\ ~Handled' /\ DownBefore' = matrix_prev /\ DownBefore = matrix_prev
    BY <1>4, <2>1 DEF Handled, DownBefore
  <2>3. buffer # << >>
    BY <1>2, <1>4, KeypType, EmptySeq
  <2>4. Alternating(Tail(buffer), matrix_prev)
    BY <1>1, <2>2, <2>3, AlternatingTail
  <2> QED
    BY <2>1, <2>2, <2>4 DEF QueueInv, RecordAsScanned, Alternates, NotAhead
<1> QED
  BY <1>3, <1>4 DEF Called

\* A record is kept, counted or not.
LEMMA KeptOrder ==
  ASSUME CallTypeOK, Called, QueueInv, matrix_prev' = matrix_prev,
         NEW r \in KeyRecord, Kept(r),
         r.key = keyp.key, r.time = keyp.time, r.pressed = keyp.pressed
  PROVE  QueueInv'
<1>1. CASE pc = "process"
  <2>1. pc' = "enqueue" /\ waiting_buffer' = waiting_buffer /\ record' = r /\ keyp = record
    BY <1>1 DEF Kept, keyp
  <2>2. Handled' = Handled /\ DownBefore' = DownBefore
    BY <1>1, <2>1 DEF Handled, DownBefore, IS_NOEVENT
  <2> QED
    BY <2>1, <2>2 DEF QueueInv, RecordAsScanned, Alternates, NotAhead
<1>2. CASE pc = "drain"
  <2> DEFINE v == [waiting_buffer EXCEPT ![1] = r]
  <2>1. pc' = "idle" /\ waiting_buffer' = v /\ keyp = waiting_buffer[1]
    BY <1>2 DEF Kept, keyp, CallTypeOK
  <2>2. ~Handled /\ ~Handled' /\ DownBefore' = DownBefore
    BY <1>2, <2>1 DEF Handled, DownBefore
  <2>3. v \in Seq(KeyRecord) /\ SameEvents(waiting_buffer, v)
    <3>1. 1 \in 1 .. Len(waiting_buffer) /\ waiting_buffer \in Seq(KeyRecord)
      BY <1>2, KeypType DEF CallTypeOK
    <3>2. /\ v \in Seq(KeyRecord) /\ Len(v) = Len(waiting_buffer)
          /\ \A i \in 1 .. Len(waiting_buffer) : v[i] = IF i = 1 THEN r ELSE waiting_buffer[i]
      BY <3>1, ExceptSeq
    <3> HIDE DEF v
    <3> QED
      BY <2>1, <3>2 DEF SameEvents
  <2> HIDE DEF v
  <2>4. Alternating(v, DownBefore)
    BY <2>3, AlternatingSame DEF CallTypeOK, QueueInv, Alternates
  <2> QED
    BY <2>1, <2>2, <2>4 DEF QueueInv, RecordAsScanned, Alternates, NotAhead
<1> QED
  BY <1>1, <1>2 DEF Called

\* A release that is still to come is so after another record is consumed,
LEMMA ConsumedComes ==
  ASSUME CallTypeOK, Called, matrix_prev' = matrix_prev,
         NEW buffer \in Seq(KeyRecord), SameEvents(waiting_buffer, buffer), Consumed(buffer),
         NEW k, ReleaseComes(k), ~(keyp.key = k /\ ~keyp.pressed)
  PROVE  ReleaseComes(k)'
<1>1. DOMAIN buffer = 1 .. Len(buffer) /\ DOMAIN waiting_buffer = 1 .. Len(buffer)
  BY LenProperties DEF CallTypeOK, SameEvents
<1>2. CASE k \in matrix_prev
  BY <1>2 DEF ReleaseComes, Down
<1>3. ASSUME NEW i \in DOMAIN waiting_buffer, waiting_buffer[i].key = k, ~waiting_buffer[i].pressed
      PROVE  Down(k)'
  <2>1. buffer[i].key = k /\ ~buffer[i].pressed
    BY <1>1, <1>3 DEF SameEvents
  <2>2. CASE pc = "process"
    BY <1>1, <1>3, <2>1, <2>2 DEF Consumed, Down
  <2>3. CASE pc = "drain"
    <3>1. waiting_buffer' = Tail(buffer) /\ keyp = waiting_buffer[1]
      BY <2>3 DEF Consumed, keyp, CallTypeOK
    <3>2. i - 1 \in 1 .. Len(buffer) - 1 /\ Len(buffer) \in Nat \ {0}
      BY <1>1, <1>3, <3>1
    <3>3. DOMAIN Tail(buffer) = 1 .. Len(buffer) - 1 /\ Tail(buffer)[i - 1] = buffer[i]
      BY <1>1, <3>2
    <3> QED
      BY <2>1, <3>1, <3>2, <3>3 DEF Down
  <2> QED
    BY <2>2, <2>3 DEF Called
<1>4. ASSUME Handled, record.key = k, ~record.pressed
      PROVE  FALSE
  BY <1>4 DEF Handled, Called, keyp
<1> QED
  BY <1>2, <1>3, <1>4 DEF ReleaseComes, Down

\* and after any record is kept.
LEMMA KeptComes ==
  ASSUME CallTypeOK, Called, matrix_prev' = matrix_prev,
         NEW r \in KeyRecord, Kept(r),
         r.key = keyp.key, r.time = keyp.time, r.pressed = keyp.pressed,
         NEW k, ReleaseComes(k)
  PROVE  ReleaseComes(k)'
<1>1. CASE pc = "process"
  <2>1. pc' = "enqueue" /\ waiting_buffer' = waiting_buffer /\ record' = r /\ keyp = record
    BY <1>1 DEF Kept, keyp
  <2> QED
    BY <1>1, <2>1 DEF ReleaseComes, Down, Handled, IS_NOEVENT
<1>2. CASE pc = "drain"
  <2>1. waiting_buffer' = [waiting_buffer EXCEPT ![1] = r] /\ keyp = waiting_buffer[1]
    BY <1>2 DEF Kept, keyp, CallTypeOK
  <2>2. /\ DOMAIN waiting_buffer' = DOMAIN waiting_buffer
        /\ \A i \in DOMAIN waiting_buffer : waiting_buffer'[i] = IF i = 1 THEN r ELSE waiting_buffer[i]
    BY <2>1
  <2> QED
    BY <1>2, <2>1, <2>2 DEF ReleaseComes, Down, Handled
<1> QED
  BY <1>1, <1>2 DEF Called

\* After a press that is consumed, the key is down.
LEMMA PressComes ==
  ASSUME CallTypeOK, Called, QueueInv, matrix_prev' = matrix_prev,
         NEW buffer \in Seq(KeyRecord), SameEvents(waiting_buffer, buffer), Consumed(buffer),
         keyp.pressed, ~IS_NOEVENT(keyp), NEW k, k = keyp.key
  PROVE  ReleaseComes(k)'
<1>1. DOMAIN buffer = 1 .. Len(buffer) /\ DOMAIN waiting_buffer = 1 .. Len(buffer)
  BY LenProperties DEF CallTypeOK, SameEvents
<1>2. CASE pc = "process"
  BY <1>2 DEF keyp, QueueInv, RecordAsScanned, Handled, ReleaseComes, Down
<1>3. CASE pc = "drain"
  <2>1. /\ waiting_buffer' = Tail(buffer) /\ keyp = waiting_buffer[1]
        /\ 1 \in DOMAIN waiting_buffer /\ Len(buffer) \in Nat \ {0}
    BY <1>1, <1>3, KeypType DEF Consumed, keyp, CallTypeOK
  <2>2. DownBefore = matrix_prev
    BY <1>3 DEF DownBefore, Handled
  <2>3. CASE k \in matrix_prev
    BY <2>3 DEF ReleaseComes, Down
  <2>4. CASE k \notin matrix_prev
    <3>1. PICK j \in DOMAIN waiting_buffer :
            j > 1 /\ waiting_buffer[j].key = k /\ waiting_buffer[j].pressed # keyp.pressed
      BY <2>1, <2>2, <2>4 DEF QueueInv, Alternates, Alternating
    <3>2. waiting_buffer[j].pressed \in BOOLEAN
      <4>1. waiting_buffer[j] \in KeyRecord
        BY <1>1, ElementOfSeq DEF CallTypeOK, SameEvents
      <4> QED
        BY <4>1 DEF KeyRecord
    <3>3. buffer[j].key = k /\ ~buffer[j].pressed
      BY <1>1, <3>1, <3>2 DEF SameEvents
    <3>4. j - 1 \in 1 .. Len(buffer) - 1
      BY <1>1, <2>1, <3>1
    <3>5. DOMAIN Tail(buffer) = 1 .. Len(buffer) - 1 /\ Tail(buffer)[j - 1] = buffer[j]
      BY <1>1, <2>1, <3>1, <3>4
    <3> QED
      BY <2>1, <3>3, <3>4, <3>5 DEF ReleaseComes, Down
  <2> QED
    BY <2>3, <2>4
<1> QED
  BY <1>2, <1>3 DEF Called

\* The tap key that process_record hands back, if it is still pressed, was
\* pressed before.
LEMMA SameTapKey ==
  ASSUME CallTypeOK, Called, matrix_prev' = matrix_prev, ReleaseToCome,
         tapping_key'.key = tapping_key.key, tapping_key'.time = tapping_key.time,
         tapping_key'.pressed => tapping_key.pressed,
         \A k : ReleaseComes(k) /\ k = tapping_key.key => ReleaseComes(k)'
  PROVE  ReleaseToCome'
<1> PICK k : k = tapping_key.key
  OBVIOUS
<1> SUFFICES ASSUME IS_TAPPING_PRESSED'
             PROVE  ReleaseComes(k)'
  BY DEF ReleaseToCome
<1>1. IS_TAPPING_PRESSED
  BY DEF IS_TAPPING_PRESSED, IS_TAPPING, IS_NOEVENT
<1> QED
  BY <1>1 DEF ReleaseToCome

LEMMA NoTapKey ==
  ASSUME tapping_key' = NoRecord
  PROVE  ReleaseToCome'
BY DEF ReleaseToCome, IS_TAPPING_PRESSED, IS_TAPPING, IS_NOEVENT, NoRecord

\* A press that is consumed and becomes the tap key.
LEMMA PressedTapKey ==
  ASSUME CallTypeOK, Called, QueueInv, matrix_prev' = matrix_prev,
         NEW buffer \in Seq(KeyRecord), SameEvents(waiting_buffer, buffer), Consumed(buffer),
         keyp.pressed, tapping_key'.key = keyp.key, tapping_key'.time = keyp.time
  PROVE  ReleaseToCome'
<1> PICK k : k = keyp.key
  OBVIOUS
<1> SUFFICES ASSUME IS_TAPPING_PRESSED'
             PROVE  ReleaseComes(k)'
  BY DEF ReleaseToCome
<1>1. ~IS_NOEVENT(keyp)
  BY DEF IS_TAPPING_PRESSED, IS_TAPPING, IS_NOEVENT
<1> QED
  BY <1>1, PressComes

LEMMA StartTappingOrder ==
  ASSUME StateTypeOK, CallTypeOK, Called, QueueInv, matrix_prev' = matrix_prev,
         StartsTap, ~Undecided, NEW s \in KeyboardState, StartTapping(s)
  PROVE  QueueInv' /\ ReleaseToCome'
<1> DEFINE ends == {i \in DOMAIN waiting_buffer :
                      /\ waiting_buffer[i].key = keyp.key
                      /\ ~waiting_buffer[i].pressed
                      /\ Within(waiting_buffer[i], keyp)}
           r       == [keyp EXCEPT !.count = 1]
           down    == ProcessRecord(s, r)
           m       == Min(ends)
           counted == [waiting_buffer EXCEPT ![m].count = 1]
<1>1. waiting_buffer \in Seq(KeyRecord) /\ keyp \in KeyRecord /\ keyp.pressed
  BY KeypType DEF CallTypeOK, StartsTap
<1>2. pc = "process" /\ ~IS_NOEVENT(record)
        => \A i \in DOMAIN waiting_buffer : waiting_buffer[i].key # record.key
  BY DEF QueueInv, NotAhead, Handled
<1>3. CASE keyp.count = 0 /\ ends # {}
  <2>1. counted \in Seq(KeyRecord) /\ Len(counted) = Len(waiting_buffer)
    <3> HIDE DEF m
    <3> QED
      BY <1>1, CountedType
  <2>2. SameEvents(waiting_buffer, counted)
    <3> HIDE DEF m
    <3>1. \A i \in 1 .. Len(waiting_buffer) : waiting_buffer[i] \in KeyRecord
      BY <1>1, ElementOfSeq
    <3>2. \A i \in 1 .. Len(waiting_buffer) :
            counted[i] = IF i = m THEN [waiting_buffer[i] EXCEPT !.count = 1] ELSE waiting_buffer[i]
      BY <1>1
    <3> HIDE DEF counted
    <3> QED
      BY <2>1, <3>1, <3>2 DEF SameEvents, KeyRecord
  <2>3. kb' = down.kb /\ tapping_key' = down.rec /\ Consumed(counted)
    BY <1>3 DEF StartTapping
  <2>4. r \in KeyRecord /\ r.key = keyp.key /\ r.time = keyp.time
    BY <1>1, ActionAssumption DEF KeyRecord
  <2> HIDE DEF counted, r
  <2>5. tapping_key'.key = keyp.key /\ tapping_key'.time = keyp.time
    BY <2>3, <2>4, ProcessRecordRec
  <2> QED
    BY <1>1, <1>2, <2>1, <2>2, <2>3, <2>5, ConsumedOrder, PressedTapKey
<1>4. CASE ~(keyp.count = 0 /\ ends # {})
  <2>1. kb' = s /\ tapping_key' = keyp /\ Consumed(waiting_buffer)
    BY <1>4 DEF StartTapping
  <2> QED
    BY <1>1, <1>2, <2>1, SameEventsAsIs, ConsumedOrder, PressedTapKey
<1> QED
  BY <1>3, <1>4

\* No branch consumes the new record while one of its key waits.
LEMMA OvertakesNothing ==
  ASSUME StateTypeOK, CallTypeOK, QueueInv, ProcessTapping,
         pc = "process", pc' = "drain", ~IS_NOEVENT(record)
  PROVE  \A i \in DOMAIN waiting_buffer : waiting_buffer[i].key # record.key
<1>1. CASE ~Undecided
  BY <1>1 DEF QueueInv, NotAhead, Handled
<1>2. CASE Undecided /\ ReleaseOfEarlierKey
  <2>1. ~record.pressed /\ ~waiting_buffer_typed(record)
    BY <1>2 DEF ReleaseOfEarlierKey, EarlierKey, IS_RELEASED, keyp
  <2>2. record.key \in DownBefore /\ record.pressed = FALSE
    BY <2>1 DEF DownBefore, Handled, CallTypeOK, KeyRecord
  <2>3. \A i \in DOMAIN waiting_buffer : waiting_buffer[i].pressed \in BOOLEAN
    <3>1. \A i \in 1 .. Len(waiting_buffer) : waiting_buffer[i] \in KeyRecord
      BY ElementOfSeq DEF CallTypeOK
    <3> QED
      BY <3>1, LenProperties DEF CallTypeOK, KeyRecord
  <2>4. \A i \in DOMAIN waiting_buffer :
          waiting_buffer[i].key = record.key => waiting_buffer[i].pressed = FALSE
    BY <2>1, <2>2, <2>3 DEF waiting_buffer_typed
  <2>5. ASSUME NEW i \in DOMAIN waiting_buffer, waiting_buffer[i].key = record.key
        PROVE  FALSE
    <3>1. waiting_buffer[i].key \in DownBefore /\ waiting_buffer[i].pressed = FALSE
      BY <2>2, <2>4, <2>5
    <3>2. ~(waiting_buffer[i].pressed = (waiting_buffer[i].key \in DownBefore))
      BY <3>1
    <3>3. PICK j \in DOMAIN waiting_buffer : /\ waiting_buffer[j].key = waiting_buffer[i].key
                                             /\ waiting_buffer[j].pressed # waiting_buffer[i].pressed
      BY <2>5, <3>2, Zenon DEF QueueInv, Alternates, Alternating
    <3> QED
      BY <2>4, <2>5, <3>1, <3>3
  <2> QED
    BY <2>5
<1>3. CASE Undecided /\ ~ReleaseOfEarlierKey
  <2>1. tapping_key.count = 0 /\ IS_TAPPING /\ tapping_key.pressed
    BY <1>3 DEF Undecided, IS_TAPPING_PRESSED
  <2>2. FirstTap \/ TypedInterference \/ ReleaseOfEarlierModifier \/ WaitForDecision \/ TimeoutHold
    BY <1>3, <2>1 DEF ProcessTapping, TapRelease, NextTapKey, OtherKeyWhileTapped, DecidedCall,
      SequentialTap, NewTap, InterferingTap, OtherPressAfterTap, OtherEventAfterTap,
      AfterTapCall, TimeoutAfterTap, StartTap, NoTap, IS_TAPPING_RELEASED
  <2>3. ASSUME NEW r, Kept(r)
        PROVE  FALSE
    BY <2>3 DEF Kept
  <2>4. ~FirstTap
    BY <2>3, Zenon DEF FirstTap
  <2>5. ~TypedInterference
    BY <2>3, Zenon DEF TypedInterference
  <2>6. ~ReleaseOfEarlierModifier
    BY <2>3, Zenon DEF ReleaseOfEarlierModifier
  <2>7. ~WaitForDecision
    BY <2>3, Zenon DEF WaitForDecision
  <2>8. ~TimeoutHold
    BY <2>3, Zenon DEF TimeoutHold
  <2> QED
    BY <2>2, <2>4, <2>5, <2>6, <2>7, <2>8
<1> QED
  BY <1>1, <1>2, <1>3

\* Every branch of process_tapping keeps the records in order.
LEMMA ProcessTappingOrder ==
  ASSUME StateTypeOK, CallTypeOK, QueueInv, ReleaseToCome, ProcessTapping,
         matrix_prev' = matrix_prev
  PROVE  QueueInv' /\ ReleaseToCome'
<1>1. /\ tapping_key \in KeyRecord /\ kb \in KeyboardState
      /\ waiting_buffer \in Seq(KeyRecord) /\ SameEvents(waiting_buffer, waiting_buffer)
  BY SameEventsAsIs DEF StateTypeOK, CallTypeOK
<1>2. ASSUME Called, Consumed(waiting_buffer)
      PROVE  /\ QueueInv'
             /\ \A k : ReleaseComes(k) /\ ~(keyp.key = k /\ ~keyp.pressed) => ReleaseComes(k)'
  <2>1. pc = "process" => pc' = "drain"
    BY <1>2 DEF Consumed
  <2>2. QueueInv'
    BY <1>1, <1>2, <2>1, OvertakesNothing, ConsumedOrder
  <2> QED
    BY <1>1, <1>2, <2>2, ConsumedComes
<1>3. ASSUME Called, NEW r \in KeyRecord, Kept(r),
             r.key = keyp.key, r.time = keyp.time, r.pressed = keyp.pressed
      PROVE  /\ QueueInv'
             /\ \A k : ReleaseComes(k) => ReleaseComes(k)'
  BY <1>3, KeptOrder, KeptComes
<1>4. CASE FirstTap
  <2> DEFINE t    == [tapping_key EXCEPT !.count = 1]
             down == ProcessRecord(kb, t)
             r    == [keyp EXCEPT !.count = down.rec.count,
                                  !.interrupted = down.rec.interrupted]
  <2>1. Called
    BY <1>4 DEF FirstTap, DecidingCall
  <2>2. /\ t \in KeyRecord
        /\ t.key = tapping_key.key /\ t.time = tapping_key.time /\ t.pressed = tapping_key.pressed
    BY <1>1, CountType DEF KeyRecord
  <2> HIDE DEF t
  <2>3. /\ down.rec \in KeyRecord /\ down.rec.key = tapping_key.key
        /\ down.rec.time = tapping_key.time
        /\ down.rec.pressed => tapping_key.pressed
    BY <1>1, <2>2, ProcessRecordType, ProcessRecordRec
  <2>4. tapping_key' = down.rec /\ Kept(r)
    BY <1>4 DEF FirstTap, t
  <2> HIDE DEF down
  <2>5. r \in KeyRecord /\ r.key = keyp.key /\ r.time = keyp.time /\ r.pressed = keyp.pressed
    BY <2>1, <2>3, KeypType DEF KeyRecord
  <2> HIDE DEF r
  <2>6. /\ tapping_key'.key = tapping_key.key /\ tapping_key'.time = tapping_key.time
        /\ tapping_key'.pressed => tapping_key.pressed
    BY <2>3, <2>4
  <2> QED
    BY <1>3, <2>1, <2>4, <2>5, <2>6, SameTapKey
<1>5. CASE TypedInterference
  <2>1. Called
    BY <1>5 DEF TypedInterference, DecidingCall
  <2> QED
    BY <1>3, <1>5, <2>1, KeypType, NoTapKey DEF TypedInterference
<1>6. CASE ReleaseOfEarlierModifier
  <2>1. Called
    BY <1>6 DEF ReleaseOfEarlierModifier, DecidingCall
  <2> QED
    BY <1>3, <1>6, <2>1, KeypType, SameTapKey DEF ReleaseOfEarlierModifier
<1>7. CASE ReleaseOfEarlierKey
  <2>1. Called /\ ~EndsTap /\ Consumed(waiting_buffer) /\ tapping_key' = tapping_key
    BY <1>7 DEF ReleaseOfEarlierKey, DecidingCall, ProcessAndConsume
  <2> QED
    BY <1>2, <2>1, SameTapKey DEF EndsTap
<1>8. CASE WaitForDecision
  <2>1. Called
    BY <1>8 DEF WaitForDecision, DecidingCall
  <2>2. /\ tapping_key'.key = tapping_key.key /\ tapping_key'.time = tapping_key.time
        /\ tapping_key'.pressed = tapping_key.pressed
    BY <1>1, <1>8 DEF WaitForDecision, KeyRecord
  <2>3. Kept(keyp)
    BY <1>8 DEF WaitForDecision
  <2> QED
    BY <1>3, <2>1, <2>2, <2>3, KeypType, SameTapKey
<1>9. CASE TimeoutHold
  BY <1>3, <1>9, KeypType, NoTapKey DEF TimeoutHold
<1>10. CASE TapRelease
  <2> DEFINE r  == [keyp EXCEPT !.count = tapping_key.count,
                                !.interrupted = tapping_key.interrupted]
             up == ProcessRecord(kb, r)
  <2>1. Called /\ ~keyp.pressed
    BY <1>10 DEF TapRelease, DecidedCall, EndsTap
  <2>2. r \in KeyRecord /\ ~r.pressed
    BY <1>1, <2>1, KeypType DEF KeyRecord
  <2>3. /\ tapping_key' = IF Within(keyp, tapping_key) THEN up.rec ELSE NoRecord
        /\ Consumed(waiting_buffer)
    BY <1>10 DEF TapRelease
  <2> HIDE DEF r
  <2>4. ~tapping_key'.pressed
    BY <1>1, <2>2, <2>3, ProcessRecordRec DEF NoRecord
  <2> QED
    BY <1>2, <2>1, <2>3, <2>4 DEF ReleaseToCome, IS_TAPPING_PRESSED
<1>11. CASE NextTapKey
  <2> DEFINE r == [tapping_key EXCEPT !.time = keyp.time, !.pressed = FALSE]
             s == IF tapping_key.count > 1 THEN ProcessRecord(kb, r).kb ELSE kb
  <2>1. Called /\ StartsTap /\ ~Undecided
    BY <1>1, <1>11 DEF NextTapKey, DecidedCall, Undecided
  <2>2. r \in KeyRecord
    BY <1>1, <2>1, KeypType DEF KeyRecord
  <2>3. s \in KeyboardState
    BY <1>1, <2>2, ProcessRecordType
  <2>4. StartTapping(s)
    BY <1>11 DEF NextTapKey
  <2> HIDE DEF s
  <2> QED
    BY <2>1, <2>3, <2>4, StartTappingOrder
<1>12. CASE OtherKeyWhileTapped
  <2>1. Called /\ ~EndsTap /\ Consumed(waiting_buffer) /\ tapping_key' = tapping_key
    BY <1>12 DEF OtherKeyWhileTapped, DecidedCall, ProcessAndConsume
  <2> QED
    BY <1>2, <2>1, SameTapKey DEF EndsTap
<1>13. CASE SequentialTap
  <2> DEFINE n == tapping_key.count
             r == [keyp EXCEPT !.count = IF n < MaxTapCount THEN n + 1 ELSE n,
                               !.interrupted = tapping_key.interrupted]
  <2>1. Called /\ keyp.pressed
    BY <1>13 DEF SequentialTap, AfterTapCall
  <2>2. r \in KeyRecord /\ r.key = keyp.key /\ r.time = keyp.time
    <3>1. (IF n < MaxTapCount THEN n + 1 ELSE n) \in 0 .. MaxTapCount
      BY <1>1, ActionAssumption DEF KeyRecord
    <3>2. keyp \in KeyRecord
      BY <2>1, KeypType
    <3> HIDE DEF n
    <3> QED
      BY <1>1, <3>1, <3>2 DEF KeyRecord
  <2>3. tapping_key' = ProcessRecord(kb, r).rec /\ Consumed(waiting_buffer)
    BY <1>13 DEF SequentialTap
  <2> HIDE DEF r
  <2>4. tapping_key'.key = keyp.key /\ tapping_key'.time = keyp.time
    BY <1>1, <2>2, <2>3, ProcessRecordRec
  <2> QED
    BY <1>1, <1>2, <2>1, <2>3, <2>4, PressedTapKey
<1>14. CASE NewTap
  <2>1. /\ Called /\ keyp.pressed /\ Consumed(waiting_buffer)
        /\ tapping_key'.key = keyp.key /\ tapping_key'.time = keyp.time
    BY <1>14 DEF NewTap, AfterTapCall
  <2> QED
    BY <1>1, <1>2, <2>1, PressedTapKey
<1>15. CASE InterferingTap
  <2>1. Called /\ ~Undecided
    BY <1>15 DEF InterferingTap, AfterTapCall, IS_TAPPING_RELEASED, Undecided, IS_TAPPING_PRESSED
  <2> QED
    BY <1>1, <1>15, <2>1, StartTappingOrder DEF InterferingTap
<1>16. CASE OtherPressAfterTap
  <2>1. Called /\ Consumed(waiting_buffer) /\ ~tapping_key.pressed
    BY <1>16 DEF OtherPressAfterTap, AfterTapCall, ProcessAndConsume, IS_TAPPING_RELEASED
  <2>2. tapping_key'.pressed = tapping_key.pressed
    BY <1>1, <1>16 DEF OtherPressAfterTap, KeyRecord
  <2> QED
    BY <1>2, <2>1, <2>2 DEF ReleaseToCome, IS_TAPPING_PRESSED
<1>17. CASE OtherEventAfterTap
  <2>1. Called /\ Consumed(waiting_buffer) /\ ~tapping_key.pressed /\ tapping_key' = tapping_key
    BY <1>17 DEF OtherEventAfterTap, AfterTapCall, ProcessAndConsume, IS_TAPPING_RELEASED
  <2> QED
    BY <1>2, <2>1 DEF ReleaseToCome, IS_TAPPING_PRESSED
<1>18. CASE TimeoutAfterTap
  BY <1>3, <1>18, KeypType, NoTapKey DEF TimeoutAfterTap
<1>19. CASE StartTap
  <2>1. Called /\ ~Undecided
    BY <1>19 DEF StartTap, Undecided, IS_TAPPING_PRESSED
  <2> QED
    BY <1>1, <1>19, <2>1, StartTappingOrder DEF StartTap
<1>20. CASE NoTap
  <2>1. Called /\ Consumed(waiting_buffer) /\ ~IS_TAPPING /\ tapping_key' = tapping_key
    BY <1>20 DEF NoTap, ProcessAndConsume
  <2> QED
    BY <1>2, <2>1 DEF ReleaseToCome, IS_TAPPING_PRESSED, IS_TAPPING
<1> QED
  BY <1>4, <1>5, <1>6, <1>7, <1>8, <1>9, <1>10, <1>11, <1>12, <1>13, <1>14, <1>15,
     <1>16, <1>17, <1>18, <1>19, <1>20 DEF ProcessTapping

\* So do the steps around it.
LEMMA TappingStepOrder ==
  ASSUME StateTypeOK, CallTypeOK, QueueInv, ReleaseToCome, TappingStep,
         matrix_prev' = matrix_prev
  PROVE  QueueInv' /\ ReleaseToCome'
<1>1. waiting_buffer \in Seq(KeyRecord) /\ record \in KeyRecord
  BY DEF CallTypeOK
<1>2. CASE ProcessTapping
  BY <1>2, ProcessTappingOrder
<1>3. CASE Enqueue /\ IS_NOEVENT(record)
  <2>1. /\ waiting_buffer' = waiting_buffer /\ pc' = "drain" /\ tapping_key' = tapping_key
        /\ ~Handled /\ ~Handled' /\ DownBefore = matrix_prev /\ DownBefore' = matrix_prev
    BY <1>3 DEF Enqueue, Handled, DownBefore
  <2> QED
    BY <2>1 DEF QueueInv, RecordAsScanned, Alternates, NotAhead, ReleaseToCome,
       IS_TAPPING_PRESSED, IS_TAPPING, ReleaseComes, Down
<1>4. CASE Enqueue /\ ~IS_NOEVENT(record)
  <2>1. /\ waiting_buffer' = Append(waiting_buffer, record) /\ pc' = "drain"
        /\ tapping_key' = tapping_key
        /\ Handled /\ ~Handled' /\ DownBefore' = matrix_prev
    BY <1>4 DEF Enqueue, Handled, DownBefore
  <2>2. /\ record.key \in Keys /\ record.pressed = (record.key \in matrix_prev)
        /\ record.pressed \in BOOLEAN
    BY <1>1, <2>1 DEF QueueInv, RecordAsScanned, KeyRecord
  <2>3. /\ (record.key \in DownBefore) = ~record.pressed
        /\ \A k \in Keys \ {record.key} : (k \in matrix_prev) = (k \in DownBefore)
    BY <2>1, <2>2 DEF DownBefore
  <2>4. Alternating(Append(waiting_buffer, record), matrix_prev)
    BY <1>1, <2>2, <2>3, AlternatingAppend DEF QueueInv, Alternates
  <2>5. QueueInv'
    BY <2>1, <2>4 DEF QueueInv, RecordAsScanned, Alternates, NotAhead
  <2>6. ReleaseToCome'
    <3>1. /\ DOMAIN Append(waiting_buffer, record) = 1 .. Len(waiting_buffer) + 1
          /\ DOMAIN waiting_buffer = 1 .. Len(waiting_buffer)
          /\ \A i \in 1 .. Len(waiting_buffer) : Append(waiting_buffer, record)[i] = waiting_buffer[i]
          /\ Append(waiting_buffer, record)[Len(waiting_buffer) + 1] = record
          /\ Len(waiting_buffer) + 1 \in 1 .. Len(waiting_buffer) + 1
          /\ 1 .. Len(waiting_buffer) \subseteq 1 .. Len(waiting_buffer) + 1
      BY <1>1, AppendProperties, LenProperties
    <3>2. ASSUME NEW k, ReleaseComes(k)
          PROVE  Down(k)'
      BY <2>1, <3>1, <3>2 DEF ReleaseComes, Down
    <3> QED
      BY <2>1, <3>2 DEF ReleaseToCome, ReleaseComes, IS_TAPPING_PRESSED, IS_TAPPING
  <2> QED
    BY <2>5, <2>6
<1>5. CASE Overflow
  <2>1. waiting_buffer' = << >> /\ pc' = "drain" /\ tapping_key' = NoRecord /\ ~Handled'
    BY <1>5 DEF Overflow, Handled
  <2>2. QueueInv'
    BY <2>1 DEF QueueInv, RecordAsScanned, Alternates, Alternating, NotAhead
  <2> QED
    BY <2>1, <2>2, NoTapKey
<1>6. CASE DrainEnd
  <2>1. /\ waiting_buffer' = waiting_buffer /\ tapping_key' = tapping_key
        /\ ~Handled /\ ~Handled' /\ DownBefore = matrix_prev /\ DownBefore' = matrix_prev
    BY <1>6 DEF DrainEnd, Handled, DownBefore
  <2> QED
    BY <2>1 DEF QueueInv, RecordAsScanned, Alternates, NotAhead, ReleaseToCome,
       IS_TAPPING_PRESSED, IS_TAPPING, ReleaseComes, Down
<1> QED
  BY <1>2, <1>3, <1>4, <1>5, <1>6 DEF TappingStep, Enqueue

-----------------------------------------------------------------------------
(* The main loop: what a scan hands on is the next event of its key.       *)

LEMMA OrderParts == OrderInv <=> QueueInv /\ ReleaseToCome
BY DEF OrderInv, QueueInv

LEMMA InitOrder == Init => OrderInv
<1> SUFFICES ASSUME Init
             PROVE  OrderInv
    OBVIOUS
<1>1. /\ ~Handled /\ DOMAIN waiting_buffer = {} /\ ~IS_TAPPING_PRESSED
  BY DEF Init, TappingInit, Handled, IS_TAPPING_PRESSED, NoRecord
<1> QED
  BY <1>1 DEF OrderInv, RecordAsScanned, Alternates, Alternating, ReleaseToCome, NotAhead

\* The new record is of a key that changed, and says how the scan found it.
LEMMA ScannedKey ==
  ASSUME TypeOK, NEW d \in TimeSteps, ScanKey(d)
  PROVE  /\ ~Handled /\ Handled' /\ RecordAsScanned'
         /\ DownBefore = matrix_prev /\ DownBefore' = matrix_prev
         /\ record'.key \in Changed /\ matrix_prev' \ {record'.key} = matrix_prev \ {record'.key}
<1> DEFINE t == EventTime(timer')
<1> PICK k : k = Min(Changed)
  OBVIOUS
<1>1. k \in Keys /\ k \in Changed
  BY FirstChanged DEF ScanKey, TypeOK
<1>2. k # NoKey /\ k \in Nat
  BY <1>1, KeyboardAssumption
<1>3. t # 0
  <2>1. timer' \in Nat
    <3>1. d \in Nat /\ timer \in Nat /\ TimerMax \in Nat
      BY KeyboardAssumption, TappingAssumption DEF TypeOK
    <3> QED
      BY <3>1 DEF ScanKey, Now
  <2>2. \A n \in Nat : EventTime(n) # 0
    BY DEF EventTime
  <2> QED
    BY <2>1, <2>2
<1> HIDE DEF t
<1>4. /\ pc = "idle" /\ pc' = "process"
      /\ record' = [NoRecord EXCEPT !.key = k, !.pressed = k \in matrix, !.time = t]
      /\ matrix_prev' = IF k \in matrix THEN matrix_prev \cup {k} ELSE matrix_prev \ {k}
  BY DEF ScanKey, ActionExec, KeyEvent, t
<1>5. record'.key = k /\ record'.time = t /\ record'.pressed = (k \in matrix)
  BY <1>4 DEF NoRecord
<1>6. ~Handled /\ Handled'
  BY <1>2, <1>3, <1>4, <1>5 DEF Handled, IS_NOEVENT
<1>7. RecordAsScanned'
  BY <1>1, <1>4, <1>5 DEF RecordAsScanned
<1>8. (k \in matrix) = (k \notin matrix_prev)
  BY <1>1 DEF Changed
<1>9. DownBefore' = matrix_prev
  <2>1. CASE k \in matrix
    BY <1>4, <1>5, <1>6, <1>8, <2>1 DEF DownBefore
  <2>2. CASE k \notin matrix
    BY <1>4, <1>5, <1>6, <1>8, <2>2 DEF DownBefore
  <2> QED
    BY <2>1, <2>2
<1> QED
  BY <1>1, <1>4, <1>5, <1>6, <1>7, <1>9 DEF DownBefore

LEMMA ScanKeyOrder ==
  ASSUME TypeOK, OrderInv, StrandedRests, NEW d \in TimeSteps, ScanKey(d)
  PROVE  OrderInv'
<1> PICK k : k = record'.key
  OBVIOUS
<1>1. /\ ~Handled /\ Handled' /\ RecordAsScanned' /\ k \in Changed
      /\ DownBefore = matrix_prev /\ DownBefore' = matrix_prev
      /\ matrix_prev' \ {k} = matrix_prev \ {k}
  BY ScannedKey
<1>2. /\ pc = "idle" /\ pc' = "process"
      /\ waiting_buffer' = waiting_buffer /\ tapping_key' = tapping_key
  BY DEF ScanKey, ActionExec
<1>3. Alternates'
  BY <1>1, <1>2 DEF OrderInv, Alternates
<1>4. ReleaseToCome'
  <2>1. ASSUME NEW j, ReleaseComes(j)
        PROVE  ReleaseComes(j)'
    <3>1. CASE j = k
      BY <1>1, <1>2, <2>1, <3>1 DEF ReleaseComes, Down, RecordAsScanned
    <3>2. CASE j # k
      BY <1>1, <1>2, <2>1, <3>2 DEF ReleaseComes, Down
    <3> QED
      BY <3>1, <3>2
  <2> PICK j : j = tapping_key.key
    OBVIOUS
  <2>2. IS_TAPPING_PRESSED' = IS_TAPPING_PRESSED /\ tapping_key'.key = j
    BY <1>2 DEF IS_TAPPING_PRESSED, IS_TAPPING
  <2> QED
    BY <2>1, <2>2 DEF OrderInv, ReleaseToCome
<1>5. NotAhead'
  <2>1. Undecided' = Undecided
    BY <1>2 DEF Undecided, IS_TAPPING_PRESSED, IS_TAPPING
  <2>2. ~Undecided => \A i \in DOMAIN waiting_buffer : waiting_buffer[i].key # k
    BY <1>1, <1>2 DEF StrandedRests
  <2> QED
    BY <1>2, <2>1, <2>2 DEF NotAhead
<1> QED
  BY <1>1, <1>3, <1>4, <1>5 DEF OrderInv

LEMMA NextOrder == TypeOK /\ OrderInv /\ StrandedRests /\ [Next]_vars => OrderInv'
<1> SUFFICES ASSUME TypeOK, OrderInv, StrandedRests, [Next]_vars
             PROVE  OrderInv'
    OBVIOUS

\* Nothing that the order of the records is about changes.
<1>1. ASSUME UNCHANGED <<waiting_buffer, tapping_key, matrix_prev>>,
             ~Handled, ~Handled'
      PROVE  OrderInv'
  BY <1>1 DEF OrderInv, RecordAsScanned, Alternates, DownBefore, ReleaseToCome, ReleaseComes,
     Down, IS_TAPPING_PRESSED, IS_TAPPING, NotAhead
<1>2. ASSUME NEW k \in Keys, KeyMoves(k)
      PROVE  OrderInv'
  BY <1>1, <1>2 DEF KeyMoves, tappingVars, Handled
<1>3. ASSUME NEW d \in TimeSteps, ScanKey(d)
      PROVE  OrderInv'
  BY <1>3, ScanKeyOrder
<1>4. ASSUME NEW d \in TimeSteps, ScanNothing(d)
      PROVE  OrderInv'
  <2>1. UNCHANGED <<waiting_buffer, tapping_key, matrix_prev>> /\ ~Handled
    BY <1>4 DEF ScanNothing, ActionExec, Handled
  <2>2. record'.key = NoKey
    BY <1>4 DEF ScanNothing, ActionExec, Tick, NoRecord
  <2> QED
    BY <1>1, <2>1, <2>2 DEF Handled, IS_NOEVENT
<1>5. CASE Tapping
  <2>1. StateTypeOK /\ CallTypeOK
    BY TypeParts DEF TypeOK
  <2> QED
    BY <1>5, <2>1, OrderParts, TappingStepOrder DEF Tapping, QueueInv, OrderInv
<1>6. CASE UNCHANGED vars
  BY <1>6 DEF vars, OrderInv, RecordAsScanned, Alternates, DownBefore, ReleaseToCome,
     ReleaseComes, Down, IS_TAPPING_PRESSED, IS_TAPPING, NotAhead, Handled, Undecided
<1> QED
  BY <1>2, <1>3, <1>4, <1>5, <1>6 DEF Next, KeyboardTask

\* As long as keys with stranded records rest, the records on their way are
\* in order (OrderInv): for every keymap and configuration, every number of
\* keys moving together, every timer and pace of the scans.
THEOREM OrderInvariance == Spec /\ []StrandedRests => []OrderInv
<1>1. Init => TypeOK /\ OrderInv
  BY InitType, InitOrder
<1>2. (TypeOK /\ OrderInv) /\ StrandedRests /\ [Next]_vars => (TypeOK /\ OrderInv)'
  BY NextType, NextOrder
<1> QED
  BY <1>1, <1>2, PTL DEF Spec

\* The tap key that is watched is down (TappingKeyDown), or its release
\* waits: the watch of process_tapping ends.
THEOREM WatchedKeyIsDown == Spec /\ []StrandedRests => []TappingKeyDown
<1>1. OrderInv => TappingKeyDown
  BY DEF OrderInv, ReleaseToCome, ReleaseComes, Handled, TappingKeyDown
<1> QED
  BY <1>1, OrderInvariance, PTL

-----------------------------------------------------------------------------
(* What an action leaves alone: the one-shot layer's state, unless it is  *)
(* the action of a one-shot layer, and the real modifiers, which only a   *)
(* press adds to.                                                          *)

Alike(s, t) == t.oneshot_state = s.oneshot_state /\ t.real_mods \subseteq s.real_mods

LEMMA SendAlike ==
  ASSUME NEW s \in KeyboardState
  PROVE  Alike(s, SendKeyboardReport(s))
BY DEF Alike, SendKeyboardReport, KeyboardState

LEMMA AlikeTrans ==
  ASSUME NEW s, NEW t, NEW u, Alike(s, t), Alike(t, u)
  PROVE  Alike(s, u)
BY DEF Alike

LEMMA CodesAlike ==
  ASSUME NEW s \in KeyboardState, NEW c \in KeyCodes
  PROVE  /\ RegisterCode(s, c).oneshot_state = s.oneshot_state
         /\ c \notin Mods => Alike(s, RegisterCode(s, c))
         /\ Alike(s, UnregisterCode(s, c))
<1>1. ASSUME c \in Codes
      PROVE  /\ AddKey(s, c) \in KeyboardState /\ Alike(s, AddKey(s, c))
             /\ DelKey(s, c) \in KeyboardState /\ Alike(s, DelKey(s, c))
  BY <1>1, ReportBytesType DEF AddKey, DelKey, Alike, KeyboardState
<1>2. ASSUME c \in Mods
      PROVE  /\ AddMods(s, {c}) \in KeyboardState
             /\ AddMods(s, {c}).oneshot_state = s.oneshot_state
             /\ DelMods(s, {c}) \in KeyboardState /\ Alike(s, DelMods(s, {c}))
  <2>1. {c} \in SUBSET Mods
    BY <1>2
  <2> QED
    BY <2>1, ModsType DEF AddMods, DelMods, Alike, KeyboardState
<1>3. \A t \in KeyboardState : Alike(t, SendKeyboardReport(t))
  BY SendAlike
<1> QED
  BY <1>1, <1>2, <1>3, CodesAssumption DEF RegisterCode, UnregisterCode, Alike, KeyCodes, IS_MOD

LEMMA ModsAlike ==
  ASSUME NEW s \in KeyboardState, NEW m \in SUBSET Mods
  PROVE  /\ AddMods(s, m).oneshot_state = s.oneshot_state
         /\ Alike(s, DelMods(s, m)) /\ Alike(s, AddWeakMods(s, m)) /\ Alike(s, DelWeakMods(s, m))
         /\ RegisterMods(s, m).oneshot_state = s.oneshot_state
         /\ Alike(s, UnregisterMods(s, m))
<1>1. /\ AddMods(s, m) \in KeyboardState /\ DelMods(s, m) \in KeyboardState
  BY ModsType
<1>2. /\ AddMods(s, m).oneshot_state = s.oneshot_state
      /\ Alike(s, DelMods(s, m)) /\ Alike(s, AddWeakMods(s, m)) /\ Alike(s, DelWeakMods(s, m))
  BY DEF AddMods, DelMods, AddWeakMods, DelWeakMods, Alike, KeyboardState
<1> QED
  BY <1>1, <1>2, SendAlike DEF RegisterMods, UnregisterMods, Alike

LEMMA LayersAlike ==
  ASSUME NEW s \in KeyboardState, NEW ls \in SUBSET Layers
  PROVE  /\ Alike(s, LayerStateSet(s, ls)) /\ Alike(s, LayerOn(s, ls)) /\ Alike(s, LayerOff(s, ls))
         /\ Alike(s, LayerXor(s, ls)) /\ Alike(s, DefaultLayerStateSet(s, ls))
<1>1. ASSUME NEW t \in KeyboardState
      PROVE  Alike(t, ClearKeyboardButModsAndKeys(t))
  <2>1. [t EXCEPT !.weak_mods = {}] \in KeyboardState /\ Alike(t, [t EXCEPT !.weak_mods = {}])
    BY DEF KeyboardState, Alike
  <2> QED
    BY <2>1, SendAlike, AlikeTrans DEF ClearKeyboardButModsAndKeys
<1>2. ASSUME NEW ms \in SUBSET Layers
      PROVE  Alike(s, LayerStateSet(s, ms)) /\ Alike(s, DefaultLayerStateSet(s, ms))
  <2> DEFINE t == [s EXCEPT !.layer_state = ms]
             u == [s EXCEPT !.default_layer_state = ms]
  <2>1. t \in KeyboardState /\ u \in KeyboardState /\ Alike(s, t) /\ Alike(s, u)
    BY DEF KeyboardState, Alike
  <2>2. /\ LayerStateSet(s, ms) = ClearKeyboardButModsAndKeys(t)
        /\ DefaultLayerStateSet(s, ms) = ClearKeyboardButModsAndKeys(u)
    BY DEF LayerStateSet, DefaultLayerStateSet
  <2> HIDE DEF t, u
  <2> QED
    BY <1>1, <2>1, <2>2, AlikeTrans
<1>3. s.layer_state \in SUBSET Layers
  BY DEF KeyboardState
<1> QED
  BY <1>2, <1>3 DEF LayerOn, LayerOff, LayerXor

LEMMA OneshotLayerAlike ==
  ASSUME NEW s \in KeyboardState, NEW ls \in SUBSET Layers, NEW st \in SUBSET OneshotStates
  PROVE  /\ SetOneshotLayer(s, ls, st).real_mods \subseteq s.real_mods
         /\ ClearOneshotLayerState(s, st).real_mods \subseteq s.real_mods
<1> DEFINE t    == [s EXCEPT !.oneshot_layer = ls, !.oneshot_state = st]
           left == [s EXCEPT !.oneshot_state = @ \ st]
<1>1. t \in KeyboardState /\ t.real_mods = s.real_mods
  BY DEF KeyboardState
<1>2. left \in KeyboardState /\ left.real_mods = s.real_mods /\ s.oneshot_layer \in SUBSET Layers
  BY DEF KeyboardState
<1>3. ASSUME NEW u \in KeyboardState
      PROVE  ResetOneshotLayer(u).real_mods = u.real_mods
  BY DEF ResetOneshotLayer, KeyboardState
<1>4. SetOneshotLayer(s, ls, st) = LayerOn(t, ls)
  BY DEF SetOneshotLayer
<1>5. ClearOneshotLayerState(s, st) \in {left, ResetOneshotLayer(LayerOff(left, s.oneshot_layer))}
  BY DEF ClearOneshotLayerState
<1> HIDE DEF t, left
<1>6. /\ LayerOff(left, s.oneshot_layer) \in KeyboardState
      /\ Alike(left, LayerOff(left, s.oneshot_layer)) /\ Alike(t, LayerOn(t, ls))
  BY <1>1, <1>2, LayersType, LayersAlike
<1> QED
  BY <1>1, <1>2, <1>3, <1>4, <1>5, <1>6 DEF Alike

\* A release, or the press of a tap that stands for no modifier.
Quiet(r, a) == ~r.pressed \/ (r.count = 1 /\ IgnoreModTapInterrupt /\ AddsNoMod(a))

StartsOneshotLayer(a) == a.kind = "ACT_LAYER_TAP" /\ a.code = "OP_ONESHOT"

\* What processing action a of record r makes of state s.
Leaves(s, r, a, t) ==
  /\ ~StartsOneshotLayer(a) => t.oneshot_state = s.oneshot_state
  /\ Quiet(r, a) => t.real_mods \subseteq s.real_mods

LEMMA ModsActionLeaves ==
  ASSUME NEW s \in KeyboardState, NEW r \in KeyRecord, NEW a \in Action, a.kind = "ACT_MODS"
  PROVE  Leaves(s, r, a, ModsAction(s, r, a))
<1> DEFINE real    == a.code \in Mods \cup {KC_NO}
           Sent(t) == IF a.mods = {} THEN t ELSE SendKeyboardReport(t)
           down    == IF real THEN AddMods(s, a.mods) ELSE AddWeakMods(s, a.mods)
           t0      == UnregisterCode(s, a.code)
           up      == IF real THEN DelMods(t0, a.mods) ELSE DelWeakMods(t0, a.mods)
<1>1. a.mods \in SUBSET Mods /\ a.code \in KeyCodes
  BY ActionType
<1>2. \A t \in KeyboardState : Sent(t) \in KeyboardState /\ Alike(t, Sent(t))
  BY SendType, SendAlike DEF Alike
<1>3. CASE r.pressed
  <2>1. down \in KeyboardState /\ down.oneshot_state = s.oneshot_state
    BY <1>1, ModsType, ModsAlike DEF Alike
  <2>2. Quiet(r, a) => a.code \notin Mods /\ down.real_mods \subseteq s.real_mods
    <3>1. AddMods(s, {}).real_mods = s.real_mods
      BY DEF AddMods, KeyboardState
    <3> QED
      BY <1>1, <1>3, <3>1, ModsAlike DEF Quiet, AddsNoMod, Alike
  <2>3. ModsAction(s, r, a) = RegisterCode(Sent(down), a.code)
    BY <1>3 DEF ModsAction
  <2> HIDE DEF Sent, down
  <2>4. Sent(down) \in KeyboardState /\ Alike(down, Sent(down))
    BY <1>2, <2>1
  <2>5. /\ ModsAction(s, r, a).oneshot_state = Sent(down).oneshot_state
        /\ a.code \notin Mods => Alike(Sent(down), ModsAction(s, r, a))
    BY <1>1, <2>3, <2>4, CodesAlike
  <2> QED
    BY <2>1, <2>2, <2>4, <2>5 DEF Leaves, Alike
<1>4. CASE ~r.pressed
  <2>1. t0 \in KeyboardState /\ Alike(s, t0)
    BY <1>1, RegisterCodeType, CodesAlike DEF KeyCodes
  <2> HIDE DEF t0
  <2>2. up \in KeyboardState /\ Alike(t0, up)
    BY <1>1, <2>1, ModsType, ModsAlike
  <2>3. ModsAction(s, r, a) = Sent(up)
    BY <1>4 DEF ModsAction, t0
  <2> HIDE DEF Sent, up
  <2> QED
    BY <1>2, <2>1, <2>2, <2>3 DEF Leaves, Alike
<1> QED
  BY <1>3, <1>4

LEMMA ModsTapActionLeaves ==
  ASSUME NEW s \in KeyboardState, NEW r \in KeyRecord, NEW a \in Action,
         a.kind = "ACT_MODS_TAP"
  PROVE  /\ a.code = "MODS_ONESHOT" => Leaves(s, r, a, OneshotModsAction(s, r, a))
         /\ a.code = "MODS_TAP_TOGGLE" => Leaves(s, r, a, TapToggleModsAction(s, r, a))
         /\ a.code \notin ModOps => Leaves(s, r, a, ModTapAction(s, r, a))
<1>1. a.mods \in SUBSET Mods /\ s.oneshot_mods \in SUBSET Mods
  BY ActionType DEF KeyboardState
<1>2. /\ [s EXCEPT !.oneshot_mods = @ \cup a.mods].oneshot_state = s.oneshot_state
      /\ [s EXCEPT !.oneshot_mods = @ \cup a.mods].real_mods = s.real_mods
      /\ [s EXCEPT !.oneshot_mods = {}] \in KeyboardState
      /\ [s EXCEPT !.oneshot_mods = {}].oneshot_state = s.oneshot_state
      /\ [s EXCEPT !.oneshot_mods = {}].real_mods = s.real_mods
  BY DEF KeyboardState
<1>3. \A t \in KeyboardState, m \in SUBSET Mods :
        /\ RegisterMods(t, m).oneshot_state = t.oneshot_state
        /\ UnregisterMods(t, m).oneshot_state = t.oneshot_state
        /\ UnregisterMods(t, m).real_mods \subseteq t.real_mods
  BY ModsAlike DEF Alike
<1>4. Leaves(s, r, a, OneshotModsAction(s, r, a))
  <2>1. a.mods \cup s.oneshot_mods \in SUBSET Mods
    BY <1>1
  <2>2. CASE r.pressed /\ r.count = 1
    BY <1>2, <2>2 DEF OneshotModsAction, Leaves
  <2>3. CASE r.pressed /\ r.count # 1
    BY <1>3, <2>1, <2>3 DEF OneshotModsAction, Leaves, Quiet
  <2>4. CASE ~r.pressed
    BY <1>1, <1>2, <1>3, <2>4 DEF OneshotModsAction, Leaves
  <2> QED
    BY <2>2, <2>3, <2>4
<1>5. a.code = "MODS_TAP_TOGGLE" => Leaves(s, r, a, TapToggleModsAction(s, r, a))
  BY <1>1, <1>3 DEF TapToggleModsAction, Leaves, Quiet, AddsNoMod
<1>6. ASSUME a.code \notin ModOps
      PROVE  Leaves(s, r, a, ModTapAction(s, r, a))
  <2>1. a.code \in KeyCodes
    BY <1>6, ActionType
  <2>2. /\ RegisterCode(s, a.code).oneshot_state = s.oneshot_state
        /\ a.code \notin Mods => RegisterCode(s, a.code).real_mods \subseteq s.real_mods
        /\ UnregisterCode(s, a.code).oneshot_state = s.oneshot_state
        /\ UnregisterCode(s, a.code).real_mods \subseteq s.real_mods
    BY <2>1, CodesAlike DEF Alike
  <2>3. r.count = 1 /\ IgnoreModTapInterrupt => r.count > 0 /\ ~CancelsTap(r, a)
    BY DEF CancelsTap
  <2> QED
    BY <1>1, <1>3, <2>2, <2>3 DEF ModTapAction, Leaves, Quiet, AddsNoMod
<1> QED
  BY <1>4, <1>5, <1>6

LEMMA LayerActionLeaves ==
  ASSUME NEW s \in KeyboardState, NEW r \in KeyRecord, NEW a \in Action
  PROVE  /\ Leaves(s, r, a, LayerAction(s, r, a))
         /\ a.kind = "ACT_LAYER_MODS" => Leaves(s, r, a, LayerModsAction(s, r, a))
<1>1. a.mods \in SUBSET Mods /\ a.layers \in SUBSET Layers
  BY ActionType
<1>2. \A cur \in SUBSET Layers : LayerBitOp(s, cur, a) \in SUBSET Layers
  BY <1>1 DEF LayerBitOp
<1>3. s.layer_state \in SUBSET Layers /\ s.default_layer_state \in SUBSET Layers
  BY DEF KeyboardState
<1>4. Alike(s, LayerAction(s, r, a))
  <2>1. Alike(s, s)
    BY DEF Alike
  <2> QED
    BY <1>2, <1>3, <2>1, LayersAlike DEF LayerAction
<1>5. ASSUME a.kind = "ACT_LAYER_MODS"
      PROVE  Leaves(s, r, a, LayerModsAction(s, r, a))
  <2>1. CASE r.pressed
    <3>1. LayerOn(s, a.layers) \in KeyboardState /\ Alike(s, LayerOn(s, a.layers))
      BY <1>1, LayersType, LayersAlike
    <3>2. Quiet(r, a) => a.mods = {}
      BY <1>5, <2>1, ActionType DEF CodesOf, Quiet, AddsNoMod
    <3>3. /\ RegisterMods(LayerOn(s, a.layers), a.mods).oneshot_state = s.oneshot_state
          /\ a.mods = {} => RegisterMods(LayerOn(s, a.layers), a.mods).real_mods \subseteq s.real_mods
      <4>1. RegisterMods(LayerOn(s, a.layers), {}) = LayerOn(s, a.layers)
        BY DEF RegisterMods
      <4> QED
        BY <1>1, <3>1, <4>1, ModsAlike DEF Alike
    <3> QED
      BY <2>1, <3>2, <3>3 DEF LayerModsAction, Leaves
  <2>2. CASE ~r.pressed
    <3> DEFINE u == UnregisterMods(s, a.mods)
    <3>1. u \in KeyboardState /\ Alike(s, u)
      BY <1>1, RegisterModsType, ModsAlike
    <3>2. LayerModsAction(s, r, a) = LayerOff(u, a.layers)
      BY <2>2 DEF LayerModsAction
    <3> HIDE DEF u
    <3> QED
      BY <1>1, <3>1, <3>2, LayersAlike DEF Leaves, Alike
  <2> QED
    BY <2>1, <2>2
<1> QED
  BY <1>4, <1>5 DEF Leaves, Alike
LEMMA LayerTapActionLeaves ==
  ASSUME NEW s \in KeyboardState, NEW r \in KeyRecord, NEW a \in Action,
         a.kind = "ACT_LAYER_TAP"
  PROVE  Leaves(s, r, a, LayerTapAction(s, r, a))
<1>1. a.layers \in SUBSET Layers /\ r.count \in Nat
  BY ActionType DEF KeyRecord
<1>2. /\ Alike(s, s) /\ Alike(s, LayerOn(s, a.layers)) /\ Alike(s, LayerOff(s, a.layers))
      /\ Alike(s, LayerXor(s, a.layers))
      /\ Alike(s, LayerStateSet(s, a.layers)) /\ Alike(s, LayerStateSet(s, {}))
  BY <1>1, LayersAlike DEF Alike
<1>3. CASE a.code = "OP_ONESHOT"
  <2>1. ONESHOT_START \in SUBSET OneshotStates /\ {"ONESHOT_PRESSED"} \in SUBSET OneshotStates
        /\ {"ONESHOT_OTHER_KEY_PRESSED"} \in SUBSET OneshotStates
    BY DEF ONESHOT_START, OneshotStates
  <2>2. LayerOn(s, a.layers) \in KeyboardState
    BY <1>1, LayersType
  <2>3. SetOneshotLayer(LayerOn(s, a.layers), a.layers, ONESHOT_START).real_mods \subseteq s.real_mods
    BY <1>1, <1>2, <2>1, <2>2, OneshotLayerAlike DEF Alike
  <2> DEFINE u == ClearOneshotLayerState(s, {"ONESHOT_PRESSED"})
  <2>4. u \in KeyboardState /\ u.real_mods \subseteq s.real_mods
    BY <1>1, <2>1, OneshotLayerType, OneshotLayerAlike
  <2> HIDE DEF u
  <2>5. ClearOneshotLayerState(u, {"ONESHOT_OTHER_KEY_PRESSED"}).real_mods \subseteq u.real_mods
    BY <1>1, <2>1, <2>4, OneshotLayerAlike
  <2>6. OneshotLayerAction(s, r, a).real_mods \subseteq s.real_mods
    BY <2>3, <2>4, <2>5 DEF OneshotLayerAction, OneshotLayerRelease, u
  <2> QED
    BY <1>3, <2>6 DEF LayerTapAction, Leaves, StartsOneshotLayer
<1>4. CASE a.code \in LayerOps \ {"OP_ONESHOT"}
  BY <1>2, <1>4 DEF LayerTapAction, LayerOps, Leaves, Alike
<1>5. CASE a.code \notin LayerOps
  <2>1. a.code \in KeyCodes
    BY <1>5, ActionType
  <2>2. /\ RegisterCode(s, a.code).oneshot_state = s.oneshot_state
        /\ a.code \notin Mods => RegisterCode(s, a.code).real_mods \subseteq s.real_mods
        /\ Alike(s, UnregisterCode(s, a.code))
    BY <2>1, CodesAlike DEF Alike
  <2>3. CASE r.pressed /\ r.count > 0
    <3>1. LayerTapAction(s, r, a) = RegisterCode(s, a.code)
      BY <1>5, <2>3 DEF LayerTapAction, LayerOps
    <3> QED
      BY <2>2, <2>3, <3>1 DEF Leaves, Quiet, AddsNoMod
  <2>4. CASE r.pressed /\ r.count = 0
    BY <1>2, <1>5, <2>4 DEF LayerTapAction, LayerOps, Leaves, Alike
  <2>5. CASE ~r.pressed
    BY <1>1, <1>2, <1>5, <2>2, <2>5 DEF LayerTapAction, LayerOps, Leaves, Alike
  <2> QED
    BY <1>1, <2>3, <2>4, <2>5
<1> QED
  BY <1>3, <1>4, <1>5

LEMMA ActionEffectLeaves ==
  ASSUME NEW s \in KeyboardState, NEW r \in KeyRecord, NEW a \in Action
  PROVE  Leaves(s, r, a, ActionEffect(s, r, a))
<1>1. Leaves(s, r, a, s)
  BY DEF Leaves
<1> QED
  BY <1>1, ModsActionLeaves, ModsTapActionLeaves, LayerActionLeaves, LayerTapActionLeaves
     DEF ActionEffect, ModOps

LEMMA ProcessActionLeaves ==
  ASSUME NEW s \in KeyboardState, NEW r \in KeyRecord, NEW a \in Action
  PROVE  /\ Quiet(r, a) => ProcessAction(s, r, a).kb.real_mods \subseteq s.real_mods
         /\ ~StartsOneshotLayer(a) /\ s.oneshot_state = {}
              => /\ ProcessAction(s, r, a).kb.oneshot_state = {}
                 /\ ~ProcessAction(s, r, a).do_release_oneshot
<1> DEFINE weakless == IF r.pressed THEN [s EXCEPT !.weak_mods = {}] ELSE s
           fulfils  == IsOneshotLayerActive(s) /\ r.pressed /\ ~IS_MOD(a.code)
           started  == IF fulfils THEN ClearOneshotLayerState(weakless, {"ONESHOT_OTHER_KEY_PRESSED"})
                       ELSE weakless
           done     == ActionEffect(started, r, a)
<1>1. weakless \in KeyboardState /\ Alike(s, weakless)
  BY DEF KeyboardState, Alike
<1> HIDE DEF weakless
<1>2. started \in KeyboardState /\ started.real_mods \subseteq s.real_mods
  <2>1. {"ONESHOT_OTHER_KEY_PRESSED"} \in SUBSET OneshotStates /\ {} \in SUBSET Layers
    BY DEF OneshotStates
  <2> QED
    BY <1>1, <2>1, OneshotLayerType, OneshotLayerAlike DEF Alike
<1>3. s.oneshot_state = {} => ~fulfils /\ started.oneshot_state = {}
  BY <1>1 DEF IsOneshotLayerActive, Alike
<1>4. ProcessAction(s, r, a) = Outcome(done, r, a, fulfils /\ ~IsOneshotLayerActive(started))
  BY DEF ProcessAction, weakless
<1> HIDE DEF fulfils, started
<1>5. Leaves(started, r, a, done)
  BY <1>2, ActionEffectLeaves
<1> HIDE DEF done
<1>6. \A b \in BOOLEAN : /\ Outcome(done, r, a, b).kb = done
                         /\ Outcome(done, r, a, b).do_release_oneshot => b
  BY DEF Outcome
<1>7. /\ ProcessAction(s, r, a).kb = done
      /\ ProcessAction(s, r, a).do_release_oneshot => fulfils
  <2> DEFINE b == fulfils /\ ~IsOneshotLayerActive(started)
  <2>1. b \in BOOLEAN /\ (b => fulfils)
    OBVIOUS
  <2> HIDE DEF b
  <2> QED
    BY <1>4, <1>6, <2>1 DEF b
<1> QED
  BY <1>2, <1>3, <1>5, <1>7 DEF Leaves

\* As Quiet, whatever layer the key was pressed on.
QuietRecord(r) ==
  ~r.pressed \/ (r.count = 1 /\ IgnoreModTapInterrupt /\ \A l \in Layers : AddsNoMod(Keymap[l][r.key]))

LEMMA StoreAndProcessLeaves ==
  ASSUME NEW s \in KeyboardState, NEW r \in KeyRecord, r.key \in Keys
  PROVE  /\ QuietRecord(r) => StoreAndProcess(s, r).kb.real_mods \subseteq s.real_mods
         /\ NoOneshotLayer /\ s.oneshot_state = {}
              => /\ StoreAndProcess(s, r).kb.oneshot_state = {}
                 /\ ~StoreAndProcess(s, r).do_release_oneshot
<1> DEFINE t == StoreSourceLayer(s, r.pressed, r.key)
           a == CachedAction(t, r.key)
<1>1. t \in KeyboardState /\ a \in Action
  <2>1. r.pressed \in BOOLEAN
    BY DEF KeyRecord
  <2>2. t \in KeyboardState
    BY <2>1, CacheType
  <2> HIDE DEF t
  <2> QED
    BY <2>1, <2>2, CacheType
<1>2. t.real_mods = s.real_mods /\ t.oneshot_state = s.oneshot_state
  BY DEF StoreSourceLayer, KeyboardState
<1> HIDE DEF t
<1>3. PICK l \in Layers : a = Keymap[l][r.key]
  BY <1>1 DEF CachedAction, KeyboardState
<1>4. StoreAndProcess(s, r) = ProcessAction(t, r, a)
  BY DEF StoreAndProcess, ProcessStored, t
<1> HIDE DEF a
<1>5. QuietRecord(r) => Quiet(r, a)
  BY <1>3 DEF QuietRecord, Quiet
<1>6. NoOneshotLayer => ~StartsOneshotLayer(a)
  BY <1>3 DEF NoOneshotLayer, StartsOneshotLayer
<1> QED
  BY <1>1, <1>2, <1>4, <1>5, <1>6, ProcessActionLeaves

\* Only a press adds real modifiers, and not when it is the tap of a key
\* that adds none.
LEMMA ProcessRecordMods ==
  ASSUME NEW s \in KeyboardState, NEW r \in KeyRecord, QuietRecord(r)
  PROVE  ProcessRecord(s, r).kb.real_mods \subseteq s.real_mods
<1>1. CASE IS_NOEVENT(r)
  BY <1>1 DEF ProcessRecord
<1>2. CASE ~IS_NOEVENT(r)
  <2> DEFINE first  == StoreAndProcess(s, r)
             on     == LayerOn(first.kb, first.kb.oneshot_layer)
             up     == [first.rec EXCEPT !.pressed = FALSE]
             second == StoreAndProcess(on, up)
             off    == LayerOff(second.kb, second.kb.oneshot_layer)
  <2>1. r.key \in Keys
    BY <1>2 DEF IS_NOEVENT, KeyRecord
  <2>2. /\ first.kb \in KeyboardState /\ first.rec \in KeyRecord /\ first.rec.key = r.key
        /\ first.kb.real_mods \subseteq s.real_mods
    BY <2>1, StoreAndProcessType, StoreAndProcessLeaves
  <2> HIDE DEF first
  <2>3. on \in KeyboardState /\ on.real_mods \subseteq first.kb.real_mods
    <3>1. first.kb.oneshot_layer \in SUBSET Layers
      BY <2>2 DEF KeyboardState
    <3> QED
      BY <2>2, <3>1, LayersType, LayersAlike DEF Alike
  <2> HIDE DEF on
  <2>4. up \in KeyRecord /\ up.key \in Keys /\ QuietRecord(up)
    BY <2>1, <2>2 DEF KeyRecord, QuietRecord
  <2> HIDE DEF up
  <2>5. second.kb \in KeyboardState /\ second.kb.real_mods \subseteq on.real_mods
    BY <2>3, <2>4, StoreAndProcessType, StoreAndProcessLeaves
  <2> HIDE DEF second
  <2>6. off.real_mods \subseteq second.kb.real_mods
    <3>1. second.kb.oneshot_layer \in SUBSET Layers
      BY <2>5 DEF KeyboardState
    <3> QED
      BY <2>5, <3>1, LayersAlike DEF Alike
  <2> HIDE DEF off
  <2>7. ProcessRecord(s, r).kb \in {first.kb, off}
    BY <1>2 DEF ProcessRecord, Tailed, LeaveOneshotLayer, first, on, up, second, off
  <2> QED
    BY <2>2, <2>3, <2>5, <2>6, <2>7
<1> QED
  BY <1>1, <1>2

\* Without one-shot layers a press is never turned into a release.
LEMMA ProcessRecordOneshot ==
  ASSUME NoOneshotLayer, NEW s \in KeyboardState, NEW r \in KeyRecord, s.oneshot_state = {}
  PROVE  /\ ProcessRecord(s, r).kb.oneshot_state = {}
         /\ ProcessRecord(s, r).rec.pressed = r.pressed
<1>1. CASE IS_NOEVENT(r)
  BY <1>1 DEF ProcessRecord
<1>2. CASE ~IS_NOEVENT(r)
  <2>1. r.key \in Keys
    BY <1>2 DEF IS_NOEVENT, KeyRecord
  <2>2. /\ StoreAndProcess(s, r).kb.oneshot_state = {}
        /\ ~StoreAndProcess(s, r).do_release_oneshot
        /\ StoreAndProcess(s, r).rec.pressed = r.pressed
    BY <2>1, StoreAndProcessLeaves, StoreAndProcessRec
  <2> QED
    BY <1>2, <2>2 DEF ProcessRecord, Tailed
<1> QED
  BY <1>1, <1>2

-----------------------------------------------------------------------------
(* What a call of process_tapping does to the keyboard, and where the tap  *)
(* key comes from.                                                         *)

\* It processes nothing, one record, or two.
LEMMA ProcessedRecords ==
  ASSUME StateTypeOK, CallTypeOK, ProcessTapping
  PROVE  \/ kb' = kb
         \/ \E r \in KeyRecord : kb' = ProcessRecord(kb, r).kb
         \/ \E q, r \in KeyRecord : kb' = ProcessRecord(ProcessRecord(kb, q).kb, r).kb
<1>1. tapping_key \in KeyRecord /\ kb \in KeyboardState
  BY DEF StateTypeOK
<1>2. ASSUME Called, ProcessAndConsume
      PROVE  \E r \in KeyRecord : kb' = ProcessRecord(kb, r).kb
  BY <1>2, KeypType DEF ProcessAndConsume
<1>3. ASSUME Called, NEW s, StartTapping(s)
      PROVE  kb' = s \/ \E r \in KeyRecord : kb' = ProcessRecord(s, r).kb
  <2> DEFINE r == [keyp EXCEPT !.count = 1]
  <2>1. r \in KeyRecord
    BY <1>3, KeypType, CountType DEF KeyRecord
  <2>2. kb' = s \/ kb' = ProcessRecord(s, r).kb
    BY <1>3 DEF StartTapping
  <2> QED
    BY <2>1, <2>2
<1>4. CASE FirstTap
  <2> DEFINE r == [tapping_key EXCEPT !.count = 1]
  <2>1. r \in KeyRecord
    BY <1>1, CountType DEF KeyRecord
  <2>2. kb' = ProcessRecord(kb, r).kb
    BY <1>4 DEF FirstTap
  <2> QED
    BY <2>1, <2>2
<1>5. CASE TypedInterference \/ TimeoutHold
  BY <1>1, <1>5 DEF TypedInterference, TimeoutHold
<1>6. CASE ReleaseOfEarlierModifier \/ WaitForDecision \/ NewTap \/ TimeoutAfterTap
  BY <1>6 DEF ReleaseOfEarlierModifier, WaitForDecision, NewTap, TimeoutAfterTap
<1>7. CASE ReleaseOfEarlierKey \/ OtherKeyWhileTapped \/ OtherPressAfterTap \/ OtherEventAfterTap \/ NoTap
  BY <1>2, <1>7 DEF ReleaseOfEarlierKey, OtherKeyWhileTapped, OtherPressAfterTap,
     OtherEventAfterTap, NoTap, DecidingCall, DecidedCall, AfterTapCall
<1>8. CASE TapRelease
  <2> DEFINE r == [keyp EXCEPT !.count = tapping_key.count,
                               !.interrupted = tapping_key.interrupted]
  <2>1. r \in KeyRecord
    BY <1>1, <1>8, KeypType DEF KeyRecord, TapRelease, DecidedCall
  <2>2. kb' = ProcessRecord(kb, r).kb
    BY <1>8 DEF TapRelease
  <2> QED
    BY <2>1, <2>2
<1>9. CASE NextTapKey
  <2> DEFINE q == [tapping_key EXCEPT !.time = keyp.time, !.pressed = FALSE]
             s == IF tapping_key.count > 1 THEN ProcessRecord(kb, q).kb ELSE kb
  <2>1. Called /\ StartTapping(s)
    BY <1>9 DEF NextTapKey, DecidedCall
  <2>2. q \in KeyRecord
    BY <1>1, <2>1, KeypType DEF KeyRecord
  <2>3. s = kb \/ s = ProcessRecord(kb, q).kb
    OBVIOUS
  <2> HIDE DEF s, q
  <2>4. kb' = s \/ \E r \in KeyRecord : kb' = ProcessRecord(s, r).kb
    BY <1>3, <2>1
  <2> QED
    BY <2>2, <2>3, <2>4
<1>10. CASE SequentialTap
  <2> DEFINE n == IF tapping_key.count < MaxTapCount THEN tapping_key.count + 1 ELSE tapping_key.count
             r == [keyp EXCEPT !.count = n, !.interrupted = tapping_key.interrupted]
  <2>1. Called /\ kb' = ProcessRecord(kb, r).kb
    BY <1>10 DEF SequentialTap, AfterTapCall
  <2>2. n \in 0 .. MaxTapCount
    BY <1>1, ActionAssumption DEF KeyRecord
  <2>3. r \in KeyRecord
    <3> HIDE DEF n
    <3> QED
      BY <1>1, <2>1, <2>2, KeypType DEF KeyRecord
  <2> QED
    BY <2>1, <2>3
<1>11. CASE InterferingTap \/ StartTap
  BY <1>3, <1>11 DEF InterferingTap, StartTap, AfterTapCall
<1> QED
  BY <1>4, <1>5, <1>6, <1>7, <1>8, <1>9, <1>10, <1>11 DEF ProcessTapping

\* The tap key stays the same key, is cleared, or is one that can be tapped.
LEMMA TapKeyOrigin ==
  ASSUME StateTypeOK, CallTypeOK, ProcessTapping
  PROVE  \/ tapping_key' = NoRecord
         \/ tapping_key' = tapping_key
         \/ IS_TAPPING /\ tapping_key'.key = tapping_key.key
         \/ Called /\ StartsTap /\ tapping_key'.key = keyp.key
<1>1. tapping_key \in KeyRecord /\ kb \in KeyboardState
  BY DEF StateTypeOK
<1>2. ASSUME Called, NEW s \in KeyboardState, StartTapping(s)
      PROVE  tapping_key'.key = keyp.key
  <2> DEFINE r == [keyp EXCEPT !.count = 1]
  <2>1. r \in KeyRecord /\ r.key = keyp.key
    BY <1>2, KeypType, CountType DEF KeyRecord
  <2>2. tapping_key' = keyp \/ tapping_key' = ProcessRecord(s, r).rec
    BY <1>2 DEF StartTapping
  <2> HIDE DEF r
  <2> QED
    BY <1>2, <2>1, <2>2, ProcessRecordRec
<1>3. CASE FirstTap
  <2> DEFINE r == [tapping_key EXCEPT !.count = 1]
  <2>1. r \in KeyRecord /\ r.key = tapping_key.key
    BY <1>1, CountType DEF KeyRecord
  <2>2. tapping_key' = ProcessRecord(kb, r).rec /\ IS_TAPPING
    BY <1>3 DEF FirstTap, DecidingCall, Undecided, IS_TAPPING_PRESSED
  <2> HIDE DEF r
  <2> QED
    BY <1>1, <2>1, <2>2, ProcessRecordRec
<1>4. CASE TypedInterference \/ TimeoutHold \/ TimeoutAfterTap
  BY <1>4 DEF TypedInterference, TimeoutHold, TimeoutAfterTap
<1>5. CASE ReleaseOfEarlierModifier \/ ReleaseOfEarlierKey \/ OtherKeyWhileTapped
           \/ OtherEventAfterTap \/ NoTap
  BY <1>5 DEF ReleaseOfEarlierModifier, ReleaseOfEarlierKey, OtherKeyWhileTapped,
     OtherEventAfterTap, NoTap
<1>6. CASE WaitForDecision
  BY <1>1, <1>6 DEF WaitForDecision, DecidingCall, Undecided, IS_TAPPING_PRESSED, KeyRecord
<1>7. CASE OtherPressAfterTap
  BY <1>1, <1>7 DEF OtherPressAfterTap, AfterTapCall, IS_TAPPING_RELEASED, KeyRecord
<1>8. CASE TapRelease
  <2> DEFINE r == [keyp EXCEPT !.count = tapping_key.count,
                               !.interrupted = tapping_key.interrupted]
  <2>1. r \in KeyRecord /\ r.key = tapping_key.key /\ IS_TAPPING
    BY <1>1, <1>8, KeypType DEF KeyRecord, TapRelease, DecidedCall, EndsTap, IS_TAPPING_PRESSED
  <2>2. tapping_key' = NoRecord \/ tapping_key' = ProcessRecord(kb, r).rec
    BY <1>8 DEF TapRelease
  <2> HIDE DEF r
  <2> QED
    BY <1>1, <2>1, <2>2, ProcessRecordRec
<1>9. CASE NextTapKey
  <2> DEFINE q == [tapping_key EXCEPT !.time = keyp.time, !.pressed = FALSE]
             s == IF tapping_key.count > 1 THEN ProcessRecord(kb, q).kb ELSE kb
  <2>1. Called /\ StartsTap /\ StartTapping(s)
    BY <1>9 DEF NextTapKey, DecidedCall
  <2>2. q \in KeyRecord
    BY <1>1, <2>1, KeypType DEF KeyRecord
  <2>3. s \in KeyboardState
    BY <1>1, <2>2, ProcessRecordType
  <2> HIDE DEF s
  <2> QED
    BY <1>2, <2>1, <2>3
<1>10. CASE SequentialTap
  <2> DEFINE n == IF tapping_key.count < MaxTapCount THEN tapping_key.count + 1 ELSE tapping_key.count
             r == [keyp EXCEPT !.count = n, !.interrupted = tapping_key.interrupted]
  <2>1. Called /\ IS_TAPPING /\ keyp.key = tapping_key.key /\ tapping_key' = ProcessRecord(kb, r).rec
    BY <1>10 DEF SequentialTap, AfterTapCall, IS_TAPPING_RELEASED, SameKey
  <2>2. n \in 0 .. MaxTapCount
    BY <1>1, ActionAssumption DEF KeyRecord
  <2>3. r \in KeyRecord /\ r.key = keyp.key
    <3> HIDE DEF n
    <3> QED
      BY <1>1, <2>1, <2>2, KeypType DEF KeyRecord
  <2> HIDE DEF r
  <2> QED
    BY <1>1, <2>1, <2>3, ProcessRecordRec
<1>11. CASE NewTap
  BY <1>11 DEF NewTap, AfterTapCall, IS_TAPPING_RELEASED, SameKey
<1>12. CASE InterferingTap \/ StartTap
  BY <1>1, <1>2, <1>12 DEF InterferingTap, StartTap, AfterTapCall
<1> QED
  BY <1>3, <1>4, <1>5, <1>6, <1>7, <1>8, <1>9, <1>10, <1>11, <1>12 DEF ProcessTapping

\* The steps that may touch the keyboard's state and the tap key.
LEMMA OtherSteps ==
  ASSUME [Next]_vars, ~ProcessTapping
  PROVE  \/ UNCHANGED <<kb, tapping_key>>
         \/ Overflow
BY DEF Next, KeyMoves, tappingVars, KeyboardTask, ScanKey, ScanNothing, ActionExec, Tapping,
   TappingStep, Enqueue, DrainEnd, vars

-----------------------------------------------------------------------------
(* Holding needs the tapping term.                                         *)

LEMMA NextTappingKeyTaps == TypeOK /\ TappingKeyTaps /\ [Next]_vars => TappingKeyTaps'
<1> SUFFICES ASSUME TypeOK, TappingKeyTaps, [Next]_vars
             PROVE  TappingKeyTaps'
    OBVIOUS
<1>1. StateTypeOK /\ CallTypeOK
  BY TypeParts DEF TypeOK
<1>2. CASE tapping_key' = NoRecord
  BY <1>2 DEF TappingKeyTaps, IS_TAPPING, IS_NOEVENT, NoRecord
<1>3. CASE tapping_key' = tapping_key
  BY <1>3 DEF TappingKeyTaps, IS_TAPPING
<1>4. CASE IS_TAPPING /\ tapping_key'.key = tapping_key.key
  BY <1>4 DEF TappingKeyTaps
<1>5. CASE Called /\ StartsTap /\ tapping_key'.key = keyp.key
  <2>1. keyp \in KeyRecord /\ keyp.key # NoKey /\ IsTapAction(LayerSwitchGetAction(kb, keyp.key))
    BY <1>1, <1>5, KeypType DEF StartsTap, IsTapKey
  <2>2. keyp.key \in Keys
    BY <2>1 DEF KeyRecord
  <2>3. LayerSwitchGetLayer(kb, keyp.key) \in Layers
    BY <1>1, <2>2, LayerOfKeyType DEF StateTypeOK
  <2>4. keyp.key \in TapKeys
    BY <2>1, <2>2, <2>3 DEF TapKeys, LayerSwitchGetAction
  <2> QED
    BY <1>5, <2>4 DEF TappingKeyTaps
<1>6. CASE ~ProcessTapping
  BY <1>2, <1>3, <1>6, OtherSteps DEF Overflow
<1> QED
  BY <1>1, <1>2, <1>3, <1>4, <1>5, <1>6, TapKeyOrigin

LEMMA HoldStep ==
  ASSUME IgnoreModTapInterrupt, ~PermissiveHold, TapsAddNoMods,
         TypeOK, TappingKeyTaps, [Next]_vars, Called, Undecided, Within(keyp, tapping_key)
  PROVE  kb'.real_mods \subseteq kb.real_mods
<1>1. /\ StateTypeOK /\ CallTypeOK
      /\ tapping_key \in KeyRecord /\ kb \in KeyboardState
  BY TypeParts DEF TypeOK, StateTypeOK
<1>2. IS_TAPPING /\ tapping_key.pressed /\ tapping_key.count = 0
  BY DEF Undecided, IS_TAPPING_PRESSED
<1>3. CASE FirstTap
  <2> DEFINE r == [tapping_key EXCEPT !.count = 1]
  <2>1. r \in KeyRecord /\ r.key = tapping_key.key /\ r.count = 1
    BY <1>1, CountType DEF KeyRecord
  <2>2. kb' = ProcessRecord(kb, r).kb
    BY <1>3 DEF FirstTap
  <2> HIDE DEF r
  <2>3. \A l \in Layers : AddsNoMod(Keymap[l][r.key])
    BY <1>2, <2>1 DEF TappingKeyTaps, TapsAddNoMods
  <2> QED
    BY <1>1, <2>1, <2>2, <2>3, ProcessRecordMods DEF QuietRecord
<1>4. CASE ReleaseOfEarlierKey
  <2>1. ~keyp.pressed /\ kb' = ProcessRecord(kb, keyp).kb
    BY <1>4 DEF ReleaseOfEarlierKey, ProcessAndConsume, EarlierKey, IS_RELEASED
  <2> QED
    BY <1>1, <2>1, KeypType, ProcessRecordMods DEF QuietRecord
<1>5. CASE ReleaseOfEarlierModifier \/ WaitForDecision
  BY <1>5 DEF ReleaseOfEarlierModifier, WaitForDecision
<1>6. CASE ~ProcessTapping
  BY <1>6, OtherSteps DEF Overflow, Called
<1>7. ProcessTapping => FirstTap \/ ReleaseOfEarlierKey \/ ReleaseOfEarlierModifier \/ WaitForDecision
  BY <1>1, <1>2 DEF ProcessTapping, TypedInterference, Interferes, TimeoutHold,
     TapRelease, NextTapKey, OtherKeyWhileTapped, DecidedCall,
     SequentialTap, NewTap, InterferingTap, OtherPressAfterTap, OtherEventAfterTap,
     AfterTapCall, TimeoutAfterTap, StartTap, NoTap, IS_TAPPING_RELEASED
<1> QED
  BY <1>3, <1>4, <1>5, <1>6, <1>7

\* With IGNORE_MOD_TAP_INTERRUPT, without PERMISSIVE_HOLD, and unless a tap
\* itself stands for a modifier: while tap or hold is undecided no modifier
\* goes down before the tapping term is over (HoldNeedsTerm).
THEOREM HoldWaitsForTerm ==
  ASSUME IgnoreModTapInterrupt, ~PermissiveHold, TapsAddNoMods
  PROVE  Spec => HoldNeedsTerm
<1>1. Init => TappingKeyTaps
  BY DEF Init, TappingInit, TappingKeyTaps, IS_TAPPING, IS_NOEVENT, NoRecord
<1>2. TypeOK /\ TappingKeyTaps /\ [Next]_vars => TappingKeyTaps'
  BY NextTappingKeyTaps
<1>3. TypeOK /\ TappingKeyTaps /\ [Next]_vars
        => [Called /\ Undecided /\ ~(kb'.real_mods \subseteq kb.real_mods)
             => ~Within(keyp, tapping_key)]_vars
  BY HoldStep
<1> QED
  BY <1>1, <1>2, <1>3, TypeCorrectness, PTL DEF Spec, HoldNeedsTerm

-----------------------------------------------------------------------------
(* Once the tap key is up no record waits.                                 *)

LEMMA NextOneshotState ==
  ASSUME NoOneshotLayer, TypeOK, kb.oneshot_state = {}, [Next]_vars
  PROVE  kb'.oneshot_state = {}
<1>1. /\ StateTypeOK /\ CallTypeOK /\ kb \in KeyboardState
  BY TypeParts DEF TypeOK, StateTypeOK
<1>2. ASSUME NEW s \in KeyboardState, s.oneshot_state = {}, NEW r \in KeyRecord
      PROVE  /\ ProcessRecord(s, r).kb \in KeyboardState
             /\ ProcessRecord(s, r).kb.oneshot_state = {}
  BY <1>2, ProcessRecordType, ProcessRecordOneshot
<1>3. CASE ProcessTapping
  BY <1>1, <1>2, <1>3, ProcessedRecords
<1>4. CASE ~ProcessTapping
  <2>1. ClearKeyboard(kb).oneshot_state = kb.oneshot_state
    <3> DEFINE t == [kb EXCEPT !.real_mods = {}, !.keys = {}]
               u == [t EXCEPT !.weak_mods = {}]
    <3>1. t \in KeyboardState /\ t.oneshot_state = kb.oneshot_state
      BY <1>1 DEF KeyboardState
    <3> HIDE DEF t
    <3>2. u \in KeyboardState /\ u.oneshot_state = t.oneshot_state
      BY <3>1 DEF KeyboardState
    <3>3. ClearKeyboard(kb) = SendKeyboardReport(u)
      BY DEF ClearKeyboard, ClearKeyboardButModsAndKeys, t
    <3> HIDE DEF u
    <3> QED
      BY <3>1, <3>2, <3>3, SendAlike DEF Alike
  <2> QED
    BY <1>4, <2>1, OtherSteps DEF Overflow
<1> QED
  BY <1>3, <1>4

LEMMA NextBufferEmpty ==
  ASSUME NoOneshotLayer, TypeOK, kb.oneshot_state = {}, BufferEmptyAfterTap, [Next]_vars
  PROVE  BufferEmptyAfterTap'
<1>1. /\ StateTypeOK /\ CallTypeOK
      /\ tapping_key \in KeyRecord /\ kb \in KeyboardState
  BY TypeParts DEF TypeOK, StateTypeOK
<1> SUFFICES ASSUME pc' = "idle", IS_TAPPING_RELEASED'
             PROVE  waiting_buffer' = << >>
  BY DEF BufferEmptyAfterTap
<1>2. CASE pc = "idle"
  <2>1. UNCHANGED <<pc, tapping_key, waiting_buffer>>
    BY <1>2 DEF Next, KeyMoves, tappingVars, KeyboardTask, ScanKey, ScanNothing, ActionExec,
       Tapping, TappingStep, ProcessTapping, FirstTap, TypedInterference,
       ReleaseOfEarlierModifier, ReleaseOfEarlierKey, WaitForDecision, TimeoutHold, TapRelease,
       NextTapKey, OtherKeyWhileTapped, SequentialTap, NewTap, InterferingTap,
       OtherPressAfterTap, OtherEventAfterTap, TimeoutAfterTap, StartTap, NoTap,
       DecidingCall, DecidedCall, AfterTapCall, Called, Enqueue, Overflow, DrainEnd, vars
  <2> QED
    BY <1>2, <2>1 DEF BufferEmptyAfterTap, IS_TAPPING_RELEASED, IS_TAPPING
<1>3. CASE pc # "idle" /\ ~ProcessTapping
  BY <1>3 DEF Next, KeyMoves, KeyboardTask, ScanKey, ScanNothing, ActionExec, Tapping,
     TappingStep, Enqueue, Overflow, DrainEnd, vars
<1>4. CASE pc # "idle" /\ ProcessTapping
  <2>1. ASSUME NEW buffer, Consumed(buffer)
        PROVE  FALSE
    BY <1>4, <2>1 DEF Consumed
  <2>2. CASE FirstTap
    <3> DEFINE r == [tapping_key EXCEPT !.count = 1]
    <3>1. r \in KeyRecord /\ r.pressed = tapping_key.pressed /\ tapping_key.pressed
      BY <1>1, <2>2, CountType DEF KeyRecord, FirstTap, DecidingCall, Undecided, IS_TAPPING_PRESSED
    <3>2. tapping_key' = ProcessRecord(kb, r).rec
      BY <2>2 DEF FirstTap
    <3> HIDE DEF r
    <3> QED
      BY <1>1, <3>1, <3>2, ProcessRecordOneshot DEF IS_TAPPING_RELEASED
  <2>3. CASE TypedInterference \/ TimeoutHold \/ TimeoutAfterTap
    BY <2>3 DEF TypedInterference, TimeoutHold, TimeoutAfterTap, NoRecord,
       IS_TAPPING_RELEASED, IS_TAPPING, IS_NOEVENT
  <2>4. CASE ReleaseOfEarlierModifier \/ WaitForDecision
    BY <1>1, <2>4 DEF ReleaseOfEarlierModifier, WaitForDecision, DecidingCall, Undecided,
       IS_TAPPING_PRESSED, IS_TAPPING_RELEASED, KeyRecord
  <2> QED
    BY <1>4, <2>1, <2>2, <2>3, <2>4 DEF ProcessTapping, ReleaseOfEarlierKey, TapRelease,
       NextTapKey, OtherKeyWhileTapped, SequentialTap, NewTap, InterferingTap,
       OtherPressAfterTap, OtherEventAfterTap, StartTap, NoTap, ProcessAndConsume, StartTapping
<1> QED
  BY <1>2, <1>3, <1>4

\* "should none in buffer" (action_tapping.c:260): without one-shot layers,
\* which turn the press of a tap into a release, no record waits between
\* two calls once the tap key is up (BufferEmptyAfterTap).
THEOREM NoneInBuffer ==
  ASSUME NoOneshotLayer
  PROVE  Spec => []BufferEmptyAfterTap
<1> DEFINE Inv == TypeOK /\ kb.oneshot_state = {} /\ BufferEmptyAfterTap
<1>1. Init => Inv
  BY InitType DEF Init, TappingInit, InitialKeyboardState, BufferEmptyAfterTap
<1>2. Inv /\ [Next]_vars => Inv'
  BY NextType, NextOneshotState, NextBufferEmpty
<1> QED
  BY <1>1, <1>2, PTL DEF Spec

-----------------------------------------------------------------------------
(* What the keys hold down: keys and modifiers in the report, and layers. *)

\* A record is processed as a tap, or as a hold.
TapOrHold(r) == IF r.count > 0 THEN "tap" ELSE "hold"

\* What a key with action a holds down: a key, modifiers (weak ones with a
\* key), layers.
SendsCode(a, how) ==
  \/ a.kind = "ACT_MODS"
  \/ how = "tap" /\ a.kind = "ACT_MODS_TAP"
  \/ how = "tap" /\ a.kind = "ACT_LAYER_TAP" /\ a.code \notin LayerOps
KeyOf(a, how)    == IF SendsCode(a, how) THEN {a.code} \cap Codes ELSE {}
RealMods(a, how) ==
  CASE a.kind = "ACT_MODS"       -> IF a.code \in Codes THEN {} ELSE a.mods \cup ({a.code} \cap Mods)
    [] a.kind = "ACT_LAYER_MODS" -> a.mods
    [] a.kind = "ACT_MODS_TAP"   -> IF how = "tap" THEN {a.code} \cap Mods ELSE a.mods
    [] a.kind = "ACT_LAYER_TAP"  -> IF SendsCode(a, how) THEN {a.code} \cap Mods ELSE {}
    [] OTHER                     -> {}
WeakMods(a)       == IF a.kind = "ACT_MODS" /\ a.code \in Codes THEN a.mods ELSE {}
LayersOf(a, how)  ==
  IF \/ a.kind = "ACT_LAYER_MODS"
     \/ a.kind = "ACT_LAYER_TAP" /\ ~SendsCode(a, how)
  THEN a.layers ELSE {}

\* The keyboard state s holds nothing that no key of held holds down, each
\* as how says, but for the layers in stays.
Owned(s, held, how, stays) ==
  /\ \A c \in s.keys : \E k \in held : c \in KeyOf(CachedAction(s, k), how[k])
  /\ \A m \in s.real_mods : \E k \in held : m \in RealMods(CachedAction(s, k), how[k])
  /\ \A m \in s.weak_mods \cup (s.report.mods \ s.real_mods) :
       \E k \in held : m \in WeakMods(CachedAction(s, k))
  /\ \A l \in s.layer_state \ stays : \E k \in held : l \in LayersOf(CachedAction(s, k), how[k])

\* The host knows the keys, and no one-shot is under way.
Plainly(s) == s.report.keys = s.keys /\ s.oneshot_mods = {} /\ s.oneshot_state = {}

\* An action whose release undoes its press, but for layers that stay.
PlainAction(a) ==
  /\ a.kind = "ACT_LAYER_TAP" => a.code # "OP_ONESHOT"
  /\ a.kind = "ACT_MODS_TAP" => a.code \notin ModOps
  /\ a.kind = "ACT_LAYER" => a.layers \subseteq Lasting
StaysOn(a) == a.kind = "ACT_LAYER_TAP" /\ a.code \in {"OP_OFF_ON", "OP_TAP_TOGGLE"}

\* What a press of action a, and its release, make of s.
Presses(s, a, how, u) ==
  /\ u.keys \subseteq s.keys \cup KeyOf(a, how)
  /\ s.real_mods \subseteq u.real_mods /\ u.real_mods \subseteq s.real_mods \cup RealMods(a, how)
  /\ u.weak_mods \subseteq s.weak_mods \cup WeakMods(a)
  /\ u.report.mods \subseteq u.real_mods \cup u.weak_mods \cup s.report.mods
  /\ ~StaysOn(a) => u.layer_state \subseteq s.layer_state \cup Lasting \cup LayersOf(a, how)
  /\ u.source_layers_cache = s.source_layers_cache

Releases(s, a, how, u) ==
  /\ u.keys \subseteq s.keys \ KeyOf(a, how)
  /\ u.real_mods \subseteq s.real_mods \ RealMods(a, how)
  /\ u.weak_mods \subseteq s.weak_mods \ WeakMods(a)
  /\ \/ u.report.mods \subseteq u.real_mods \cup u.weak_mods
     \/ u.report.mods = s.report.mods /\ u.real_mods = s.real_mods /\ WeakMods(a) = {}
  /\ ~StaysOn(a) => u.layer_state \subseteq (s.layer_state \ LayersOf(a, how)) \cup Lasting
  /\ u.source_layers_cache = s.source_layers_cache

\* Fields of the states that reports, modifiers and codes make.
Rest(s, u) ==
  /\ u.layer_state = s.layer_state /\ u.source_layers_cache = s.source_layers_cache
  /\ u.oneshot_mods = s.oneshot_mods /\ u.oneshot_state = s.oneshot_state

LEMMA SentFields ==
  ASSUME NEW s \in KeyboardState, s.oneshot_mods = {}
  PROVE  /\ SendKeyboardReport(s) \in KeyboardState
         /\ SendKeyboardReport(s).report.keys = s.keys
         /\ SendKeyboardReport(s).report.mods = s.real_mods \cup s.weak_mods
         /\ SendKeyboardReport(s).keys = s.keys
         /\ SendKeyboardReport(s).real_mods = s.real_mods
         /\ SendKeyboardReport(s).weak_mods = s.weak_mods
         /\ Rest(s, SendKeyboardReport(s))
<1>1. SendKeyboardReport(s) \in KeyboardState
  BY SendType
<1> QED
  BY <1>1 DEF SendKeyboardReport, KeyboardState, Rest

\* The layer operations, on any layers.
LEMMA LayerFields ==
  ASSUME NEW s \in KeyboardState, s.oneshot_mods = {}, NEW ls \in SUBSET Layers
  PROVE  /\ LayerStateSet(s, ls).layer_state = ls
         /\ DefaultLayerStateSet(s, ls).layer_state = s.layer_state
         /\ \A u \in {LayerStateSet(s, ls), DefaultLayerStateSet(s, ls)} :
              /\ u \in KeyboardState
              /\ u.keys = s.keys /\ u.real_mods = s.real_mods /\ u.weak_mods = {}
              /\ u.report.keys = u.keys /\ u.report.mods = u.real_mods
              /\ u.source_layers_cache = s.source_layers_cache
              /\ u.oneshot_mods = {} /\ u.oneshot_state = s.oneshot_state
<1> DEFINE t == [s EXCEPT !.layer_state = ls]
           v == [s EXCEPT !.default_layer_state = ls]
           tw == [t EXCEPT !.weak_mods = {}]
           vw == [v EXCEPT !.weak_mods = {}]
<1>1. /\ t \in KeyboardState /\ t.layer_state = ls /\ t.keys = s.keys
      /\ t.real_mods = s.real_mods /\ t.source_layers_cache = s.source_layers_cache
      /\ t.oneshot_mods = {} /\ t.oneshot_state = s.oneshot_state
  BY DEF KeyboardState
<1>2. /\ v \in KeyboardState /\ v.layer_state = s.layer_state /\ v.keys = s.keys
      /\ v.real_mods = s.real_mods /\ v.source_layers_cache = s.source_layers_cache
      /\ v.oneshot_mods = {} /\ v.oneshot_state = s.oneshot_state
  BY DEF KeyboardState
<1>3. /\ LayerStateSet(s, ls) = SendKeyboardReport(tw)
      /\ DefaultLayerStateSet(s, ls) = SendKeyboardReport(vw)
  BY DEF LayerStateSet, DefaultLayerStateSet, ClearKeyboardButModsAndKeys
<1> HIDE DEF t, v
<1>4. /\ tw \in KeyboardState /\ tw.weak_mods = {} /\ tw.keys = t.keys
      /\ tw.real_mods = t.real_mods /\ Rest(t, tw)
  BY <1>1 DEF KeyboardState, Rest
<1>5. /\ vw \in KeyboardState /\ vw.weak_mods = {} /\ vw.keys = v.keys
      /\ vw.real_mods = v.real_mods /\ Rest(v, vw)
  BY <1>2 DEF KeyboardState, Rest
<1> HIDE DEF tw, vw
<1> DEFINE Same(w, u) ==
             /\ u \in KeyboardState
             /\ u.keys = w.keys /\ u.real_mods = w.real_mods /\ u.weak_mods = {}
             /\ u.report.keys = u.keys /\ u.report.mods = u.real_mods
             /\ u.layer_state = w.layer_state /\ u.source_layers_cache = w.source_layers_cache
             /\ u.oneshot_mods = {} /\ u.oneshot_state = w.oneshot_state
<1>6. ASSUME NEW w \in KeyboardState, w.weak_mods = {}, w.oneshot_mods = {}
      PROVE  Same(w, SendKeyboardReport(w))
  BY <1>6, SentFields DEF Rest
<1>7. Same(tw, LayerStateSet(s, ls)) /\ Same(vw, DefaultLayerStateSet(s, ls))
  BY <1>1, <1>2, <1>3, <1>4, <1>5, <1>6 DEF Rest
<1> QED
  BY <1>1, <1>2, <1>4, <1>5, <1>7 DEF Rest

LEMMA CodeFields ==
  ASSUME NEW s \in KeyboardState, s.oneshot_mods = {}, s.report.keys = s.keys, NEW c \in KeyCodes
  PROVE  /\ RegisterCode(s, c) \in KeyboardState /\ UnregisterCode(s, c) \in KeyboardState
         /\ Rest(s, RegisterCode(s, c)) /\ Rest(s, UnregisterCode(s, c))
         /\ RegisterCode(s, c).report.keys = RegisterCode(s, c).keys
         /\ UnregisterCode(s, c).report.keys = UnregisterCode(s, c).keys
         /\ RegisterCode(s, c).keys \subseteq s.keys \cup ({c} \cap Codes)
         /\ UnregisterCode(s, c).keys = s.keys \ ({c} \cap Codes)
         /\ RegisterCode(s, c).real_mods = s.real_mods \cup ({c} \cap Mods)
         /\ UnregisterCode(s, c).real_mods = s.real_mods \ ({c} \cap Mods)
         /\ \A u \in {RegisterCode(s, c), UnregisterCode(s, c)} :
              /\ u.weak_mods = s.weak_mods
              /\ c # KC_NO => u.report.mods = u.real_mods \cup u.weak_mods
              /\ c = KC_NO => u = s
<1>1. CASE c = KC_NO
  <2>1. RegisterCode(s, c) = s /\ UnregisterCode(s, c) = s /\ {c} \cap Codes = {} /\ {c} \cap Mods = {}
    BY <1>1, CodesAssumption DEF RegisterCode, UnregisterCode
  <2> QED
    BY <1>1, <2>1 DEF Rest, KeyboardState
<1>2. CASE c \in Codes
  <2>1. c \notin Mods /\ c # KC_NO /\ {c} \cap Codes = {c} /\ {c} \cap Mods = {}
    BY <1>2, CodesAssumption
  <2>2. /\ RegisterCode(s, c) = SendKeyboardReport(AddKey(s, c))
        /\ UnregisterCode(s, c) = SendKeyboardReport(DelKey(s, c))
    BY <2>1 DEF RegisterCode, UnregisterCode, IS_MOD
  <2>3. /\ AddKey(s, c) \in KeyboardState /\ Rest(s, AddKey(s, c))
        /\ AddKey(s, c).keys \subseteq s.keys \cup {c}
        /\ AddKey(s, c).real_mods = s.real_mods /\ AddKey(s, c).weak_mods = s.weak_mods
    BY <1>2, ReportBytesType DEF AddKey, KeyboardState, Rest
  <2>4. /\ DelKey(s, c) \in KeyboardState /\ Rest(s, DelKey(s, c))
        /\ DelKey(s, c).keys = s.keys \ {c}
        /\ DelKey(s, c).real_mods = s.real_mods /\ DelKey(s, c).weak_mods = s.weak_mods
    BY <1>2, ReportBytesType DEF DelKey, KeyboardState, Rest
  <2> QED
    BY <2>1, <2>2, <2>3, <2>4, SentFields DEF Rest
<1>3. CASE c \in Mods
  <2>1. c \notin Codes /\ c # KC_NO /\ {c} \cap Mods = {c} /\ {c} \cap Codes = {} /\ {c} \in SUBSET Mods
    BY <1>3, CodesAssumption
  <2>2. /\ RegisterCode(s, c) = SendKeyboardReport(AddMods(s, {c}))
        /\ UnregisterCode(s, c) = SendKeyboardReport(DelMods(s, {c}))
    BY <1>3, <2>1 DEF RegisterCode, UnregisterCode, IS_MOD
  <2>3. /\ AddMods(s, {c}) \in KeyboardState /\ Rest(s, AddMods(s, {c}))
        /\ AddMods(s, {c}).keys = s.keys /\ AddMods(s, {c}).weak_mods = s.weak_mods
        /\ AddMods(s, {c}).real_mods = s.real_mods \cup {c}
    BY <2>1, ModsType DEF AddMods, KeyboardState, Rest
  <2>4. /\ DelMods(s, {c}) \in KeyboardState /\ Rest(s, DelMods(s, {c}))
        /\ DelMods(s, {c}).keys = s.keys /\ DelMods(s, {c}).weak_mods = s.weak_mods
        /\ DelMods(s, {c}).real_mods = s.real_mods \ {c}
    BY <2>1, ModsType DEF DelMods, KeyboardState, Rest
  <2> DEFINE Sent(w, u) ==
               /\ u \in KeyboardState /\ Rest(w, u)
               /\ u.keys = w.keys /\ u.report.keys = u.keys
               /\ u.real_mods = w.real_mods /\ u.weak_mods = w.weak_mods
               /\ u.report.mods = u.real_mods \cup u.weak_mods
  <2>5. ASSUME NEW w \in KeyboardState, w.oneshot_mods = {}
        PROVE  Sent(w, SendKeyboardReport(w))
    BY <2>5, SentFields
  <2> HIDE DEF Sent
  <2>6. AddMods(s, {c}).oneshot_mods = {} /\ DelMods(s, {c}).oneshot_mods = {}
    BY <2>3, <2>4 DEF Rest
  <2>7. Sent(AddMods(s, {c}), SendKeyboardReport(AddMods(s, {c})))
    BY <2>3, <2>5, <2>6
  <2>8. Sent(DelMods(s, {c}), SendKeyboardReport(DelMods(s, {c})))
    BY <2>4, <2>5, <2>6
  <2>9. Sent(AddMods(s, {c}), RegisterCode(s, c)) /\ Sent(DelMods(s, {c}), UnregisterCode(s, c))
    BY <2>2, <2>7, <2>8
  <2> USE DEF Sent
  <2> QED
    BY <2>1, <2>3, <2>4, <2>9 DEF Rest
<1> QED
  BY <1>1, <1>2, <1>3 DEF KeyCodes

LEMMA ModsFields ==
  ASSUME NEW s \in KeyboardState, NEW m \in SUBSET Mods
  PROVE  /\ \A u \in {AddMods(s, m), DelMods(s, m), AddWeakMods(s, m), DelWeakMods(s, m)} :
              u \in KeyboardState /\ Rest(s, u) /\ u.keys = s.keys /\ u.report = s.report
         /\ AddMods(s, m).real_mods = s.real_mods \cup m /\ AddMods(s, m).weak_mods = s.weak_mods
         /\ DelMods(s, m).real_mods = s.real_mods \ m /\ DelMods(s, m).weak_mods = s.weak_mods
         /\ AddWeakMods(s, m).real_mods = s.real_mods /\ AddWeakMods(s, m).weak_mods = s.weak_mods \cup m
         /\ DelWeakMods(s, m).real_mods = s.real_mods /\ DelWeakMods(s, m).weak_mods = s.weak_mods \ m
<1>1. /\ AddMods(s, m) \in KeyboardState /\ DelMods(s, m) \in KeyboardState
      /\ AddWeakMods(s, m) \in KeyboardState /\ DelWeakMods(s, m) \in KeyboardState
  BY ModsType
<1> QED
  BY <1>1 DEF AddMods, DelMods, AddWeakMods, DelWeakMods, KeyboardState, Rest

LEMMA RegisterFields ==
  ASSUME NEW s \in KeyboardState, s.oneshot_mods = {}, s.report.keys = s.keys,
         NEW m \in SUBSET Mods
  PROVE  /\ RegisterMods(s, m).real_mods = s.real_mods \cup m
         /\ UnregisterMods(s, m).real_mods = s.real_mods \ m
         /\ \A u \in {RegisterMods(s, m), UnregisterMods(s, m)} :
              /\ u \in KeyboardState /\ Rest(s, u) /\ u.keys = s.keys /\ u.report.keys = u.keys
              /\ u.weak_mods = s.weak_mods
              /\ \/ u.report.mods = u.real_mods \cup u.weak_mods
                 \/ u = s
<1>1. ASSUME NEW t \in KeyboardState, Rest(s, t), t.keys = s.keys, t.weak_mods = s.weak_mods
      PROVE  LET u == SendKeyboardReport(t)
             IN  /\ u \in KeyboardState /\ Rest(s, u) /\ u.keys = s.keys /\ u.report.keys = u.keys
                 /\ u.real_mods = t.real_mods /\ u.weak_mods = s.weak_mods
                 /\ u.report.mods = u.real_mods \cup u.weak_mods
  <2>1. t.oneshot_mods = {}
    BY <1>1 DEF Rest
  <2> QED
    BY <1>1, <2>1, SentFields DEF Rest
<1>2. CASE m = {}
  BY <1>2 DEF RegisterMods, UnregisterMods, Rest
<1>3. CASE m # {}
  <2>1. /\ RegisterMods(s, m) = SendKeyboardReport(AddMods(s, m))
        /\ UnregisterMods(s, m) = SendKeyboardReport(DelMods(s, m))
    BY <1>3 DEF RegisterMods, UnregisterMods
  <2> QED
    BY <1>1, <2>1, ModsFields
<1> QED
  BY <1>2, <1>3

LEMMA ModsActionPlain ==
  ASSUME NEW s \in KeyboardState, Plainly(s), NEW r \in KeyRecord, NEW a \in Action,
         NEW how, a.kind = "ACT_MODS"
  PROVE  LET u == ModsAction(s, r, a)
         IN  /\ Plainly(u)
             /\ r.pressed => Presses(s, a, how, u)
             /\ ~r.pressed => Releases(s, a, how, u)
<1> DEFINE real    == a.code \in Mods \cup {KC_NO}
           Sent(t) == IF a.mods = {} THEN t ELSE SendKeyboardReport(t)
           u       == ModsAction(s, r, a)
<1>1. /\ a.mods \in SUBSET Mods /\ a.code \in KeyCodes /\ s.oneshot_mods = {}
      /\ s.report.keys = s.keys
  BY ActionType DEF Plainly
<1>2. /\ real <=> a.code \notin Codes
      /\ KeyOf(a, how) = {a.code} \cap Codes /\ LayersOf(a, how) = {}
      /\ RealMods(a, how) = IF real THEN a.mods \cup ({a.code} \cap Mods) ELSE {}
      /\ WeakMods(a) = IF real THEN {} ELSE a.mods
  BY <1>1, CodesAssumption DEF KeyOf, SendsCode, RealMods, WeakMods, LayersOf, KeyCodes
<1>3. ASSUME NEW t \in KeyboardState, t.oneshot_mods = {}, t.report.keys = t.keys
      PROVE  /\ Sent(t) \in KeyboardState /\ Rest(t, Sent(t))
             /\ Sent(t).keys = t.keys /\ Sent(t).report.keys = t.keys
             /\ Sent(t).real_mods = t.real_mods /\ Sent(t).weak_mods = t.weak_mods
             /\ a.mods # {} => Sent(t).report.mods = t.real_mods \cup t.weak_mods
             /\ a.mods = {} => Sent(t).report.mods = t.report.mods
  BY <1>3, SentFields DEF Rest
<1>4. CASE r.pressed
  <2> DEFINE down == IF real THEN AddMods(s, a.mods) ELSE AddWeakMods(s, a.mods)
             sent == Sent(down)
  <2>1. u = RegisterCode(sent, a.code)
    BY <1>4 DEF ModsAction
  <2>2. /\ down \in KeyboardState /\ Rest(s, down) /\ down.keys = s.keys /\ down.report = s.report
        /\ down.real_mods = s.real_mods \cup (IF real THEN a.mods ELSE {})
        /\ down.weak_mods = s.weak_mods \cup (IF real THEN {} ELSE a.mods)
    BY <1>1, ModsFields
  <2> HIDE DEF down, Sent
  <2>3. /\ sent \in KeyboardState /\ Rest(s, sent) /\ sent.keys = s.keys /\ sent.report.keys = s.keys
        /\ sent.real_mods = down.real_mods /\ sent.weak_mods = down.weak_mods
        /\ a.mods # {} => sent.report.mods = down.real_mods \cup down.weak_mods
        /\ a.mods = {} => sent.report.mods = s.report.mods
    BY <1>1, <1>3, <2>2 DEF Rest
  <2> HIDE DEF sent, u
  <2>4. /\ Rest(sent, u) /\ u.report.keys = u.keys
        /\ u.keys \subseteq sent.keys \cup ({a.code} \cap Codes)
        /\ u.real_mods = sent.real_mods \cup ({a.code} \cap Mods)
        /\ u.weak_mods = sent.weak_mods
        /\ a.code # KC_NO => u.report.mods = u.real_mods \cup u.weak_mods
        /\ a.code = KC_NO => u = sent
    BY <1>1, <2>1, <2>3, CodeFields DEF Rest
  <2>5. Plainly(u)
    BY <2>3, <2>4 DEF Plainly, Rest
  <2>6. /\ real => {a.code} \cap Codes = {}
        /\ ~real => {a.code} \cap Mods = {}
    BY <1>2, CodesAssumption
  <2> HIDE DEF real
  <2>7. /\ u.real_mods = s.real_mods \cup RealMods(a, how)
        /\ u.weak_mods = s.weak_mods \cup WeakMods(a)
    BY <1>2, <2>2, <2>3, <2>4, <2>6
  <2>8. u.report.mods \subseteq u.real_mods \cup u.weak_mods \cup s.report.mods
    BY <2>2, <2>3, <2>4
  <2>9. Presses(s, a, how, u)
    BY <1>2, <2>3, <2>4, <2>7, <2>8 DEF Presses, Rest
  <2> QED
    BY <1>4, <2>5, <2>9 DEF u
<1>5. CASE ~r.pressed
  <2> DEFINE t0   == UnregisterCode(s, a.code)
             up   == IF real THEN DelMods(t0, a.mods) ELSE DelWeakMods(t0, a.mods)
  <2>1. u = Sent(up)
    BY <1>5 DEF ModsAction
  <2>2. /\ t0 \in KeyboardState /\ Rest(s, t0) /\ t0.report.keys = t0.keys
        /\ t0.keys = s.keys \ ({a.code} \cap Codes)
        /\ t0.real_mods = s.real_mods \ ({a.code} \cap Mods)
        /\ t0.weak_mods = s.weak_mods
        /\ a.code # KC_NO => t0.report.mods = t0.real_mods \cup t0.weak_mods
        /\ a.code = KC_NO => t0 = s
    BY <1>1, CodeFields
  <2> HIDE DEF t0
  <2>3. /\ up \in KeyboardState /\ Rest(t0, up) /\ up.keys = t0.keys /\ up.report = t0.report
        /\ up.real_mods = t0.real_mods \ (IF real THEN a.mods ELSE {})
        /\ up.weak_mods = t0.weak_mods \ (IF real THEN {} ELSE a.mods)
    BY <1>1, <2>2, ModsFields
  <2> HIDE DEF up, u
  <2>31. up.oneshot_mods = {} /\ up.report.keys = up.keys
    BY <1>1, <2>2, <2>3 DEF Rest
  <2>32. /\ u \in KeyboardState /\ Rest(up, u) /\ u.keys = up.keys /\ u.report.keys = up.keys
         /\ u.real_mods = up.real_mods /\ u.weak_mods = up.weak_mods
         /\ a.mods # {} => u.report.mods = up.real_mods \cup up.weak_mods
         /\ a.mods = {} => u.report.mods = up.report.mods
    <3> HIDE DEF Sent
    <3> QED
      BY <1>3, <2>1, <2>3, <2>31
  <2>4. /\ u \in KeyboardState /\ Rest(s, u) /\ u.keys = t0.keys /\ u.report.keys = u.keys
        /\ u.real_mods = up.real_mods /\ u.weak_mods = up.weak_mods
        /\ a.mods # {} => u.report.mods = up.real_mods \cup up.weak_mods
        /\ a.mods = {} => u.report.mods = t0.report.mods
    BY <2>2, <2>3, <2>32 DEF Rest
  <2>5. Plainly(u)
    BY <2>4 DEF Plainly, Rest
  <2>6. /\ real => {a.code} \cap Codes = {}
        /\ ~real => {a.code} \cap Mods = {} /\ a.code # KC_NO
        /\ a.code = KC_NO => {a.code} \cap Mods = {}
    BY <1>2, CodesAssumption
  <2> HIDE DEF real
  <2>7. /\ u.real_mods = s.real_mods \ RealMods(a, how)
        /\ u.weak_mods = s.weak_mods \ WeakMods(a)
    BY <1>2, <2>2, <2>3, <2>4, <2>6
  <2>8. \/ u.report.mods \subseteq u.real_mods \cup u.weak_mods
        \/ u.report.mods = s.report.mods /\ u.real_mods = s.real_mods /\ WeakMods(a) = {}
    <3>1. CASE a.mods # {}
      BY <2>4, <3>1
    <3>2. CASE a.mods = {} /\ a.code # KC_NO
      BY <2>2, <2>3, <2>4, <3>2
    <3>3. CASE a.mods = {} /\ a.code = KC_NO
      BY <1>2, <2>2, <2>3, <2>4, <2>6, <3>3
    <3> QED
      BY <3>1, <3>2, <3>3
  <2>9. Releases(s, a, how, u)
    BY <1>2, <2>2, <2>4, <2>7, <2>8 DEF Releases, Rest
  <2> QED
    BY <1>5, <2>5, <2>9 DEF u
<1> QED
  BY <1>4, <1>5

\* Neither a press nor a release has an effect but on codes and modifiers.
LEMMA OnlyMods ==
  ASSUME NEW s \in KeyboardState, Plainly(s), NEW u \in KeyboardState, Rest(s, u),
         NEW a, NEW how, WeakMods(a) = {}, u.report.keys = u.keys, u.weak_mods = s.weak_mods,
         u.report.mods \subseteq u.real_mods \cup u.weak_mods \/ u = s
  PROVE  /\ Plainly(u)
         /\ u.keys \subseteq s.keys \cup KeyOf(a, how) /\ s.real_mods \subseteq u.real_mods
              /\ u.real_mods \subseteq s.real_mods \cup RealMods(a, how)
              => Presses(s, a, how, u)
         /\ u.keys \subseteq s.keys \ KeyOf(a, how)
              /\ u.real_mods \subseteq s.real_mods \ RealMods(a, how)
              /\ LayersOf(a, how) = {}
              => Releases(s, a, how, u)
<1>1. Plainly(u)
  BY DEF Plainly, Rest
<1> QED
  BY <1>1 DEF Presses, Releases, Rest

LEMMA ModTapActionPlain ==
  ASSUME NEW s \in KeyboardState, Plainly(s), NEW r \in KeyRecord, NEW a \in Action,
         a.kind = "ACT_MODS_TAP", a.code \notin ModOps, ~CancelsTap(r, a)
  PROVE  LET u == ModTapAction(s, r, a)
         IN  /\ Plainly(u)
             /\ r.pressed => Presses(s, a, TapOrHold(r), u)
             /\ ~r.pressed => Releases(s, a, TapOrHold(r), u)
<1> DEFINE u == ModTapAction(s, r, a)
           how == TapOrHold(r)
<1>1. /\ a.mods \in SUBSET Mods /\ a.code \in KeyCodes /\ a.code # KC_NO
      /\ s.oneshot_mods = {} /\ s.report.keys = s.keys
  BY ActionType DEF Plainly, CodesOf
<1>2. WeakMods(a) = {} /\ LayersOf(a, how) = {}
  BY DEF WeakMods, LayersOf
<1>3. CASE r.count > 0
  <2>1. KeyOf(a, how) = {a.code} \cap Codes /\ RealMods(a, how) = {a.code} \cap Mods
    BY <1>3 DEF KeyOf, RealMods, SendsCode, TapOrHold
  <2>2. u = IF r.pressed THEN RegisterCode(s, a.code) ELSE UnregisterCode(s, a.code)
    BY <1>3 DEF ModTapAction
  <2> HIDE DEF u, how
  <2>3. /\ u \in KeyboardState /\ Rest(s, u) /\ u.report.keys = u.keys /\ u.weak_mods = s.weak_mods
        /\ u.report.mods = u.real_mods \cup u.weak_mods
        /\ r.pressed => /\ u.keys \subseteq s.keys \cup ({a.code} \cap Codes)
                        /\ u.real_mods = s.real_mods \cup ({a.code} \cap Mods)
        /\ ~r.pressed => /\ u.keys = s.keys \ ({a.code} \cap Codes)
                         /\ u.real_mods = s.real_mods \ ({a.code} \cap Mods)
    BY <1>1, <2>2, CodeFields
  <2>4. Plainly(u) /\ (r.pressed => Presses(s, a, how, u)) /\ (~r.pressed => Releases(s, a, how, u))
    BY <1>2, <2>1, <2>3, OnlyMods
  <2> QED
    BY <2>4 DEF u, how
<1>4. CASE ~(r.count > 0)
  <2>1. KeyOf(a, how) = {} /\ RealMods(a, how) = a.mods
    BY <1>4 DEF KeyOf, RealMods, SendsCode, TapOrHold
  <2>2. u = IF r.pressed THEN RegisterMods(s, a.mods) ELSE UnregisterMods(s, a.mods)
    BY <1>4 DEF ModTapAction
  <2> HIDE DEF u, how
  <2>3. /\ u \in KeyboardState /\ Rest(s, u) /\ u.report.keys = u.keys /\ u.weak_mods = s.weak_mods
        /\ u.report.mods = u.real_mods \cup u.weak_mods \/ u = s
        /\ u.keys = s.keys
        /\ r.pressed => u.real_mods = s.real_mods \cup a.mods
        /\ ~r.pressed => u.real_mods = s.real_mods \ a.mods
    BY <1>1, <2>2, RegisterFields
  <2>4. Plainly(u) /\ (r.pressed => Presses(s, a, how, u)) /\ (~r.pressed => Releases(s, a, how, u))
    BY <1>2, <2>1, <2>3, OnlyMods
  <2> QED
    BY <2>4 DEF u, how
<1> QED
  BY <1>3, <1>4

\* A state that is left as it is.
LEMMA NothingPlain ==
  ASSUME NEW s \in KeyboardState, NEW a, NEW how,
         KeyOf(a, how) = {}, RealMods(a, how) = {}, WeakMods(a) = {}
  PROVE  /\ Presses(s, a, how, s)
         /\ s.layer_state \cap LayersOf(a, how) \subseteq Lasting => Releases(s, a, how, s)
BY DEF Presses, Releases

LEMMA LayerActionPlain ==
  ASSUME NEW s \in KeyboardState, Plainly(s), NEW r \in KeyRecord, NEW a \in Action,
         NEW how, PlainAction(a), a.kind = "ACT_LAYER"
  PROVE  LET u == LayerAction(s, r, a)
         IN  Plainly(u) /\ Presses(s, a, how, u) /\ Releases(s, a, how, u)
<1> DEFINE u == LayerAction(s, r, a)
<1>1. /\ KeyOf(a, how) = {} /\ RealMods(a, how) = {} /\ WeakMods(a) = {} /\ LayersOf(a, how) = {}
      /\ a.layers \in SUBSET Layers /\ a.layers \subseteq Lasting
      /\ s.layer_state \in SUBSET Layers /\ s.default_layer_state \in SUBSET Layers
      /\ s.oneshot_mods = {} /\ s.oneshot_state = {}
  BY ActionType DEF KeyOf, SendsCode, RealMods, WeakMods, LayersOf, PlainAction, KeyboardState, Plainly
<1>2. \A cur \in SUBSET Layers : /\ LayerBitOp(s, cur, a) \in SUBSET Layers
                                 /\ LayerBitOp(s, cur, a) \subseteq cur \cup a.layers
  BY <1>1 DEF LayerBitOp
<1>3. CASE u = s
  BY <1>1, <1>3, NothingPlain
<1>4. ASSUME NEW ls \in SUBSET Layers, ls \subseteq s.layer_state \cup a.layers,
             u = LayerStateSet(s, ls) \/ u = DefaultLayerStateSet(s, ls)
      PROVE  Plainly(u) /\ Presses(s, a, how, u) /\ Releases(s, a, how, u)
  <2>1. /\ u.keys = s.keys /\ u.real_mods = s.real_mods /\ u.weak_mods = {}
        /\ u.report.keys = u.keys /\ u.report.mods = u.real_mods
        /\ u.source_layers_cache = s.source_layers_cache
        /\ u.oneshot_mods = {} /\ u.oneshot_state = s.oneshot_state
        /\ u.layer_state \in {ls, s.layer_state}
    BY <1>1, <1>4, LayerFields
  <2> HIDE DEF u
  <2> QED
    BY <1>1, <1>4, <2>1 DEF Plainly, Presses, Releases
<1>5. ASSUME NEW ls \in SUBSET Layers, u = DefaultLayerStateSet(s, ls)
      PROVE  Plainly(u) /\ Presses(s, a, how, u) /\ Releases(s, a, how, u)
  <2>1. /\ u.keys = s.keys /\ u.real_mods = s.real_mods /\ u.weak_mods = {}
        /\ u.report.keys = u.keys /\ u.report.mods = u.real_mods
        /\ u.source_layers_cache = s.source_layers_cache
        /\ u.oneshot_mods = {} /\ u.oneshot_state = s.oneshot_state
        /\ u.layer_state = s.layer_state
    BY <1>1, <1>5, LayerFields
  <2> HIDE DEF u
  <2> QED
    BY <1>1, <2>1 DEF Plainly, Presses, Releases
<1>6. \/ u = s
      \/ u = DefaultLayerStateSet(s, LayerBitOp(s, s.default_layer_state, a))
      \/ u = LayerStateSet(s, LayerBitOp(s, s.layer_state, a))
  BY DEF LayerAction
<1> HIDE DEF u
<1> QED
  BY <1>1, <1>2, <1>3, <1>4, <1>5, <1>6 DEF u

LEMMA LayerModsActionPlain ==
  ASSUME NEW s \in KeyboardState, Plainly(s), NEW r \in KeyRecord, NEW a \in Action,
         NEW how, a.kind = "ACT_LAYER_MODS"
  PROVE  LET u == LayerModsAction(s, r, a)
         IN  /\ Plainly(u)
             /\ r.pressed => Presses(s, a, how, u)
             /\ ~r.pressed => Releases(s, a, how, u)
<1> DEFINE u == LayerModsAction(s, r, a)
<1>1. /\ KeyOf(a, how) = {} /\ RealMods(a, how) = a.mods /\ WeakMods(a) = {} /\ LayersOf(a, how) = a.layers
      /\ a.layers \in SUBSET Layers /\ a.mods \in SUBSET Mods
      /\ s.layer_state \in SUBSET Layers
      /\ s.oneshot_mods = {} /\ s.oneshot_state = {} /\ s.report.keys = s.keys
  BY ActionType DEF KeyOf, SendsCode, RealMods, WeakMods, LayersOf, KeyboardState, Plainly
<1>2. CASE r.pressed
  <2> DEFINE t == LayerOn(s, a.layers)
             d == AddMods(t, a.mods)
  <2>1. /\ t \in KeyboardState /\ t.layer_state = s.layer_state \cup a.layers
        /\ t.keys = s.keys /\ t.real_mods = s.real_mods /\ t.weak_mods = {}
        /\ t.report.keys = t.keys /\ t.report.mods = t.real_mods
        /\ t.source_layers_cache = s.source_layers_cache
        /\ t.oneshot_mods = {} /\ t.oneshot_state = {}
    BY <1>1, LayerFields DEF LayerOn
  <2>2. u = IF a.mods = {} THEN t ELSE SendKeyboardReport(d)
    BY <1>2 DEF LayerModsAction, RegisterMods
  <2> HIDE DEF t, u
  <2>3. /\ d \in KeyboardState /\ Rest(t, d) /\ d.keys = t.keys
        /\ d.real_mods = t.real_mods \cup a.mods /\ d.weak_mods = t.weak_mods
    BY <1>1, <2>1, ModsFields
  <2> HIDE DEF d
  <2>4. /\ Rest(t, u) /\ u.keys = t.keys /\ u.report.keys = u.keys
        /\ u.real_mods = t.real_mods \cup a.mods /\ u.weak_mods = {}
        /\ u.report.mods \subseteq u.real_mods
    BY <2>1, <2>2, <2>3, SentFields DEF Rest
  <2> QED
    BY <1>1, <1>2, <2>1, <2>4 DEF u, Plainly, Presses, Rest
<1>3. CASE ~r.pressed
  <2> DEFINE d == DelMods(s, a.mods)
             t == UnregisterMods(s, a.mods)
  <2>1. /\ d \in KeyboardState /\ Rest(s, d) /\ d.keys = s.keys
        /\ d.real_mods = s.real_mods \ a.mods /\ d.weak_mods = s.weak_mods
    BY <1>1, ModsFields
  <2>2. t = IF a.mods = {} THEN s ELSE SendKeyboardReport(d)
    BY DEF UnregisterMods
  <2>3. u = LayerOff(t, a.layers)
    BY <1>3 DEF LayerModsAction
  <2> HIDE DEF d, t, u
  <2>4. /\ t \in KeyboardState /\ Rest(s, t) /\ t.keys = s.keys
        /\ t.real_mods = s.real_mods \ a.mods
    BY <1>1, <2>1, <2>2, SentFields DEF Rest
  <2>5. t.oneshot_mods = {} /\ t.layer_state \ a.layers \in SUBSET Layers
    BY <1>1, <2>4 DEF Rest
  <2>6. /\ u.layer_state = t.layer_state \ a.layers
        /\ u.keys = t.keys /\ u.real_mods = t.real_mods /\ u.weak_mods = {}
        /\ u.report.keys = u.keys /\ u.report.mods = u.real_mods
        /\ u.source_layers_cache = t.source_layers_cache
        /\ u.oneshot_mods = {} /\ u.oneshot_state = t.oneshot_state
    BY <2>3, <2>4, <2>5, LayerFields DEF LayerOff
  <2> QED
    BY <1>1, <1>3, <2>4, <2>6 DEF u, Plainly, Releases, Rest
<1> QED
  BY <1>2, <1>3

LEMMA LayerTapActionPlain ==
  ASSUME NEW s \in KeyboardState, Plainly(s), NEW r \in KeyRecord, NEW a \in Action,
         PlainAction(a), a.kind = "ACT_LAYER_TAP"
  PROVE  LET u == LayerTapAction(s, r, a)
         IN  /\ Plainly(u)
             /\ r.pressed => Presses(s, a, TapOrHold(r), u)
             /\ ~r.pressed => Releases(s, a, TapOrHold(r), u)
<1> DEFINE u   == LayerTapAction(s, r, a)
           how == TapOrHold(r)
<1>1. /\ WeakMods(a) = {}
      /\ a.layers \in SUBSET Layers /\ s.layer_state \in SUBSET Layers
      /\ s.oneshot_mods = {} /\ s.oneshot_state = {} /\ s.report.keys = s.keys
  BY ActionType DEF WeakMods, KeyboardState, Plainly
<1>2. /\ a.code \in KeyCodes \cup LayerOps /\ a.code # "OP_ONESHOT"
      /\ r.count \in Nat /\ r.pressed \in BOOLEAN
  BY ActionAssumption DEF PlainAction, CodesOf, Action, KeyRecord
<1>3. CASE a.code \notin LayerOps /\ r.count > 0
  <2>1. /\ KeyOf(a, how) = {a.code} \cap Codes /\ RealMods(a, how) = {a.code} \cap Mods
        /\ LayersOf(a, how) = {}
    BY <1>3 DEF KeyOf, RealMods, SendsCode, TapOrHold, LayersOf
  <2>2. u = IF r.pressed THEN RegisterCode(s, a.code) ELSE UnregisterCode(s, a.code)
    <3>1. CASE r.pressed
      BY <1>3, <3>1 DEF LayerTapAction, LayerOps
    <3>2. CASE ~r.pressed
      BY <1>3, <3>2 DEF LayerTapAction, LayerOps
    <3> QED
      BY <3>1, <3>2
  <2> HIDE DEF u, how
  <2>3. /\ u \in KeyboardState /\ Rest(s, u) /\ u.report.keys = u.keys /\ u.weak_mods = s.weak_mods
        /\ u.report.mods \subseteq u.real_mods \cup u.weak_mods \/ u = s
        /\ r.pressed => /\ u.keys \subseteq s.keys \cup ({a.code} \cap Codes)
                        /\ u.real_mods = s.real_mods \cup ({a.code} \cap Mods)
        /\ ~r.pressed => /\ u.keys = s.keys \ ({a.code} \cap Codes)
                         /\ u.real_mods = s.real_mods \ ({a.code} \cap Mods)
    BY <1>1, <1>2, <1>3, <2>2, CodeFields
  <2>4. Plainly(u) /\ (r.pressed => Presses(s, a, how, u)) /\ (~r.pressed => Releases(s, a, how, u))
    BY <1>1, <2>1, <2>3, OnlyMods
  <2> QED
    BY <2>4 DEF u, how
<1>4. CASE ~(a.code \notin LayerOps /\ r.count > 0)
  <2>1. KeyOf(a, how) = {} /\ RealMods(a, how) = {} /\ LayersOf(a, how) = a.layers
    BY <1>4 DEF KeyOf, RealMods, SendsCode, TapOrHold, LayersOf
  <2>2. ASSUME NEW ls \in SUBSET Layers, u = LayerStateSet(s, ls),
               r.pressed /\ ~StaysOn(a) => ls \subseteq s.layer_state \cup a.layers,
               ~r.pressed /\ ~StaysOn(a) => ls \subseteq s.layer_state \ a.layers
        PROVE  /\ Plainly(u)
               /\ r.pressed => Presses(s, a, how, u)
               /\ ~r.pressed => Releases(s, a, how, u)
    <3>1. /\ u.layer_state = ls
          /\ u.keys = s.keys /\ u.real_mods = s.real_mods /\ u.weak_mods = {}
          /\ u.report.keys = u.keys /\ u.report.mods = u.real_mods
          /\ u.source_layers_cache = s.source_layers_cache
          /\ u.oneshot_mods = {} /\ u.oneshot_state = s.oneshot_state
      BY <1>1, <2>2, LayerFields
    <3> HIDE DEF u, how
    <3> QED
      BY <1>1, <2>1, <2>2, <3>1 DEF Plainly, Presses, Releases
  <2>3. CASE a.code = "OP_TAP_TOGGLE"
    <3>1. StaysOn(a)
      BY <2>3 DEF StaysOn
    <3>2. u = s \/ u = LayerStateSet(s, (s.layer_state \ a.layers) \cup (a.layers \ s.layer_state))
      BY <2>3 DEF LayerTapAction, LayerXor
    <3>3. (s.layer_state \ a.layers) \cup (a.layers \ s.layer_state) \in SUBSET Layers
      BY <1>1
    <3>4. CASE u = s
      BY <1>1, <2>1, <3>1, <3>4 DEF Presses, Releases
    <3> QED
      BY <2>2, <3>1, <3>2, <3>3, <3>4
  <2>4. CASE a.code # "OP_TAP_TOGGLE"
    <3>1. /\ s.layer_state \cup a.layers \in SUBSET Layers
          /\ s.layer_state \ a.layers \in SUBSET Layers /\ {} \in SUBSET Layers
      BY <1>1
    <3>2. \/ a.code = "OP_OFF_ON" /\ StaysOn(a)
          \/ a.code = "OP_ON_OFF" \/ a.code = "OP_SET_CLEAR"
          \/ a.code \notin LayerOps /\ r.count = 0
      BY <1>2, <1>4, <2>4 DEF LayerOps, StaysOn
    <3>3. CASE r.pressed
      <4>1. \/ StaysOn(a) /\ u = LayerStateSet(s, s.layer_state \ a.layers)
            \/ u = LayerStateSet(s, s.layer_state \cup a.layers)
            \/ u = LayerStateSet(s, a.layers)
        BY <3>2, <3>3 DEF LayerTapAction, LayerOps, LayerOn, LayerOff
      <4>2. PICK ls \in SUBSET Layers : /\ u = LayerStateSet(s, ls)
                                        /\ ~StaysOn(a) => ls \subseteq s.layer_state \cup a.layers
        <5> HIDE DEF u
        <5> QED
          BY <1>1, <3>1, <4>1
      <4>3. /\ Plainly(u)
            /\ r.pressed => Presses(s, a, how, u)
            /\ ~r.pressed => Releases(s, a, how, u)
        <5> HIDE DEF u, how
        <5> QED
          BY <2>2, <3>3, <4>2
      <4> QED
        BY <4>3
    <3>4. CASE ~r.pressed
      <4>1. \/ StaysOn(a) /\ u = LayerStateSet(s, s.layer_state \cup a.layers)
            \/ u = LayerStateSet(s, s.layer_state \ a.layers)
            \/ u = LayerStateSet(s, {})
        BY <3>2, <3>4 DEF LayerTapAction, LayerOps, LayerOn, LayerOff
      <4>2. PICK ls \in SUBSET Layers : /\ u = LayerStateSet(s, ls)
                                        /\ ~StaysOn(a) => ls \subseteq s.layer_state \ a.layers
        <5> HIDE DEF u
        <5> QED
          BY <1>1, <3>1, <4>1
      <4>3. /\ Plainly(u)
            /\ r.pressed => Presses(s, a, how, u)
            /\ ~r.pressed => Releases(s, a, how, u)
        <5> HIDE DEF u, how
        <5> QED
          BY <2>2, <3>4, <4>2
      <4> QED
        BY <4>3
    <3> QED
      BY <1>2, <3>3, <3>4
  <2> QED
    BY <2>3, <2>4
<1> QED
  BY <1>3, <1>4

LEMMA ActionEffectPlain ==
  ASSUME NEW s \in KeyboardState, Plainly(s), NEW r \in KeyRecord, NEW a \in Action,
         PlainAction(a), ~CancelsTap(r, a)
  PROVE  LET u == ActionEffect(s, r, a)
         IN  /\ Plainly(u)
             /\ r.pressed => Presses(s, a, TapOrHold(r), u)
             /\ ~r.pressed => Releases(s, a, TapOrHold(r), u)
<1> DEFINE how == TapOrHold(r)
<1>1. CASE a.kind = "ACT_MODS"
  BY <1>1, ModsActionPlain DEF ActionEffect
<1>2. CASE a.kind = "ACT_LAYER"
  BY <1>2, LayerActionPlain DEF ActionEffect
<1>3. CASE a.kind = "ACT_LAYER_MODS"
  BY <1>3, LayerModsActionPlain DEF ActionEffect
<1>4. CASE a.kind = "ACT_LAYER_TAP"
  BY <1>4, LayerTapActionPlain DEF ActionEffect
<1>5. CASE a.kind = "ACTION_TRANSPARENT"
  <2>1. /\ KeyOf(a, how) = {} /\ RealMods(a, how) = {} /\ WeakMods(a) = {}
        /\ LayersOf(a, how) = {}
    BY <1>5 DEF KeyOf, SendsCode, RealMods, WeakMods, LayersOf
  <2>2. ActionEffect(s, r, a) = s
    BY <1>5 DEF ActionEffect
  <2> QED
    BY <2>1, <2>2, NothingPlain
<1>6. CASE a.kind = "ACT_MODS_TAP"
  <2>1. a.code \notin ModOps
    BY <1>6 DEF PlainAction
  <2>2. ActionEffect(s, r, a) = ModTapAction(s, r, a)
    BY <1>6, <2>1 DEF ActionEffect, ModOps
  <2> QED
    BY <1>6, <2>1, <2>2, ModTapActionPlain
<1>7. a.kind \in DOMAIN CodesOf
  BY DEF Action
<1> QED
  BY <1>1, <1>2, <1>3, <1>4, <1>5, <1>6, <1>7 DEF CodesOf

\* Of the keymap and the configuration: a release undoes what its press
\* did, and a tap is processed as one.
PlainTaps == NoOneshotLayer /\ PlainModTaps /\ NeverCancelled

\* Which layers may stay on: those that a layer action switches on, unless
\* other keys leave layers on too.
Stays(stays) == Lasting \subseteq stays /\ (Layers \subseteq stays \/ NoLayerStays)

LEMMA PlainKeymap ==
  ASSUME PlainTaps, NEW k \in Keys, NEW l \in Layers
  PROVE  /\ Keymap[l][k] \in Action /\ PlainAction(Keymap[l][k])
         /\ \A r : ~CancelsTap(r, Keymap[l][k])
         /\ NoLayerStays => ~StaysOn(Keymap[l][k])
<1> DEFINE a == Keymap[l][k]
<1>1. a \in Action
  BY KeymapAssumption
<1>2. /\ a.kind = "ACT_LAYER_TAP" => a.code # "OP_ONESHOT"
      /\ a.kind = "ACT_MODS_TAP" => a.code \notin ModOps
      /\ NoLayerStays => ~StaysOn(a)
  BY DEF PlainTaps, NoOneshotLayer, PlainModTaps, NoLayerStays, StaysOn
<1>3. a.kind = "ACT_LAYER" => a.layers \subseteq Lasting
  <2>1. a.layers \in SUBSET Layers
    BY <1>1, ActionType
  <2> QED
    BY <2>1 DEF Lasting
<1>4. \A r : ~CancelsTap(r, a)
  BY DEF PlainTaps, NeverCancelled, CancelsTap
<1> QED
  BY <1>1, <1>2, <1>3, <1>4 DEF PlainAction

\* More keys may hold the same down.
LEMMA OwnedMore ==
  ASSUME NEW s, NEW held, NEW how, NEW stays, Owned(s, held, how, stays),
         NEW more, NEW now, held \subseteq more, \A k \in held : now[k] = how[k]
  PROVE  Owned(s, more, now, stays)
<1>1. \A c \in s.keys : \E k \in more : c \in KeyOf(CachedAction(s, k), now[k])
  BY DEF Owned
<1>2. \A m \in s.real_mods : \E k \in more : m \in RealMods(CachedAction(s, k), now[k])
  BY DEF Owned
<1>3. \A m \in s.weak_mods \cup (s.report.mods \ s.real_mods) :
        \E k \in more : m \in WeakMods(CachedAction(s, k))
  BY DEF Owned
<1>4. \A l \in s.layer_state \ stays :
        \E k \in more : l \in LayersOf(CachedAction(s, k), now[k])
  BY DEF Owned
<1> QED
  BY <1>1, <1>2, <1>3, <1>4 DEF Owned

\* A press makes its key the owner of what it adds; the release takes away
\* what no other key owns.
LEMMA PressOwns ==
  ASSUME NEW s \in KeyboardState, NEW u \in KeyboardState, NEW held, NEW k, NEW how,
         NEW stays, Lasting \subseteq stays,
         Layers \subseteq stays \/ ~StaysOn(CachedAction(s, k)),
         Owned(s, held, how, stays), Presses(s, CachedAction(s, k), how[k], u)
  PROVE  Owned(u, held \cup {k}, how, stays)
<1>1. \A j : CachedAction(u, j) = CachedAction(s, j)
  BY DEF CachedAction, Presses
<1>2. \A c \in u.keys : \E j \in held \cup {k} : c \in KeyOf(CachedAction(s, j), how[j])
  BY DEF Owned, Presses
<1>3. \A m \in u.real_mods : \E j \in held \cup {k} : m \in RealMods(CachedAction(s, j), how[j])
  BY DEF Owned, Presses
<1>4. \A m \in u.weak_mods \cup (u.report.mods \ u.real_mods) :
        \E j \in held \cup {k} : m \in WeakMods(CachedAction(s, j))
  BY DEF Owned, Presses
<1>5. \A l \in u.layer_state \ stays :
        \E j \in held \cup {k} : l \in LayersOf(CachedAction(s, j), how[j])
  <2>1. CASE Layers \subseteq stays
    BY <2>1 DEF KeyboardState
  <2>2. CASE ~StaysOn(CachedAction(s, k))
    BY <2>2 DEF Owned, Presses
  <2> QED
    BY <2>1, <2>2
<1> QED
  BY <1>1, <1>2, <1>3, <1>4, <1>5 DEF Owned

LEMMA ReleaseDisowns ==
  ASSUME NEW s \in KeyboardState, NEW u \in KeyboardState, NEW held, NEW k, NEW how,
         NEW stays, Lasting \subseteq stays,
         Layers \subseteq stays \/ ~StaysOn(CachedAction(s, k)),
         Owned(s, held, how, stays), Releases(s, CachedAction(s, k), how[k], u)
  PROVE  Owned(u, held \ {k}, how, stays)
<1>1. \A j : CachedAction(u, j) = CachedAction(s, j)
  BY DEF CachedAction, Releases
<1>2. \A c \in u.keys : \E j \in held \ {k} : c \in KeyOf(CachedAction(s, j), how[j])
  BY DEF Owned, Releases
<1>3. \A m \in u.real_mods : \E j \in held \ {k} : m \in RealMods(CachedAction(s, j), how[j])
  BY DEF Owned, Releases
<1>4. \A m \in u.weak_mods \cup (u.report.mods \ u.real_mods) :
        \E j \in held \ {k} : m \in WeakMods(CachedAction(s, j))
  BY DEF Owned, Releases
<1>5. \A l \in u.layer_state \ stays :
        \E j \in held \ {k} : l \in LayersOf(CachedAction(s, j), how[j])
  <2>1. CASE Layers \subseteq stays
    BY <2>1 DEF KeyboardState
  <2>2. CASE ~StaysOn(CachedAction(s, k))
    BY <2>2 DEF Owned, Releases
  <2> QED
    BY <2>1, <2>2
<1> QED
  BY <1>1, <1>2, <1>3, <1>4, <1>5 DEF Owned

\* With no one-shot layer under way, a record is stored and then acted upon,
\* and is left as it is.
LEMMA ProcessRecordPlain ==
  ASSUME PlainTaps, NEW s \in KeyboardState, Plainly(s),
         NEW r \in KeyRecord, ~IS_NOEVENT(r)
  PROVE  LET s1 == StoreSourceLayer(s, r.pressed, r.key)
             a  == CachedAction(s1, r.key)
             s2 == IF r.pressed THEN [s1 EXCEPT !.weak_mods = {}] ELSE s1
         IN  /\ s1 \in KeyboardState /\ s2 \in KeyboardState /\ Plainly(s2)
             /\ a \in Action /\ PlainAction(a) /\ ~CancelsTap(r, a)
             /\ NoLayerStays => ~StaysOn(a)
             /\ ProcessRecord(s, r).kb = ActionEffect(s2, r, a)
             /\ ProcessRecord(s, r).rec = r
<1> DEFINE s1 == StoreSourceLayer(s, r.pressed, r.key)
           a  == CachedAction(s1, r.key)
           s2 == IF r.pressed THEN [s1 EXCEPT !.weak_mods = {}] ELSE s1
<1>1. r.key \in Keys
  BY DEF KeyRecord, IS_NOEVENT
<1>2. s1 \in KeyboardState /\ Plainly(s1)
  <2>1. s1 \in KeyboardState
    <3>1. r.pressed \in BOOLEAN
      BY DEF KeyRecord
    <3> QED
      BY <1>1, <3>1, CacheType
  <2>2. /\ s1.report = s.report /\ s1.keys = s.keys
        /\ s1.oneshot_mods = s.oneshot_mods /\ s1.oneshot_state = s.oneshot_state
    BY DEF StoreSourceLayer, KeyboardState
  <2> QED
    BY <2>1, <2>2 DEF Plainly
<1>3. /\ a \in Action /\ PlainAction(a) /\ ~CancelsTap(r, a)
      /\ NoLayerStays => ~StaysOn(a)
  <2>1. s1.source_layers_cache[r.key] \in Layers
    BY <1>1, <1>2 DEF KeyboardState
  <2> QED
    BY <1>1, <2>1, PlainKeymap DEF CachedAction
<1> HIDE DEF s1, a
<1>4. s2 \in KeyboardState /\ Plainly(s2)
  BY <1>2 DEF KeyboardState, Plainly
<1>5. StoreAndProcess(s, r) = ProcessAction(s1, r, a)
  BY DEF StoreAndProcess, ProcessStored, s1, a
<1>6. ~IsOneshotLayerActive(s1)
  BY <1>2 DEF IsOneshotLayerActive, Plainly
<1>7. /\ StoreAndProcess(s, r).kb = ActionEffect(s2, r, a)
      /\ StoreAndProcess(s, r).rec = r
      /\ ~StoreAndProcess(s, r).do_release_oneshot
  <2>1. s2 = IF r.pressed THEN [s1 EXCEPT !.weak_mods = {}] ELSE s1
    OBVIOUS
  <2> HIDE DEF s2
  <2>2. ProcessAction(s1, r, a) = Outcome(ActionEffect(s2, r, a), r, a, FALSE)
    BY <1>6, <2>1 DEF ProcessAction
  <2>3. \A done : /\ Outcome(done, r, a, FALSE).kb = done
                  /\ Outcome(done, r, a, FALSE).rec = r
                  /\ ~Outcome(done, r, a, FALSE).do_release_oneshot
    BY <1>3 DEF Outcome
  <2> QED
    BY <1>5, <2>2, <2>3
<1>8. ProcessRecord(s, r).kb = ActionEffect(s2, r, a) /\ ProcessRecord(s, r).rec = r
  BY <1>7 DEF ProcessRecord, Tailed
<1> QED
  BY <1>2, <1>3, <1>4, <1>8 DEF s1, a

\* A press is processed of a key that held nothing down.
LEMMA PressPlain ==
  ASSUME PlainTaps, NEW s \in KeyboardState, Plainly(s),
         NEW r \in KeyRecord, ~IS_NOEVENT(r), r.pressed,
         NEW stays, Stays(stays),
         NEW held, r.key \notin held, NEW how, Owned(s, held, how, stays),
         NEW more, held \subseteq more, r.key \in more,
         NEW now, now[r.key] = TapOrHold(r), \A k \in held : now[k] = how[k]
  PROVE  /\ ProcessRecord(s, r).kb \in KeyboardState
         /\ Plainly(ProcessRecord(s, r).kb)
         /\ Owned(ProcessRecord(s, r).kb, more, now, stays)
         /\ ProcessRecord(s, r).rec = r
<1> DEFINE s1 == StoreSourceLayer(s, r.pressed, r.key)
           a  == CachedAction(s1, r.key)
           s2 == [s1 EXCEPT !.weak_mods = {}]
           u  == ProcessRecord(s, r).kb
<1>1. /\ s1 \in KeyboardState /\ s2 \in KeyboardState /\ Plainly(s2)
      /\ a \in Action /\ PlainAction(a) /\ ~CancelsTap(r, a)
      /\ Layers \subseteq stays \/ ~StaysOn(a)
      /\ u = ActionEffect(s2, r, a) /\ ProcessRecord(s, r).rec = r
  BY ProcessRecordPlain DEF Stays
<1>2. /\ s1.layer_state = s.layer_state /\ s1.keys = s.keys /\ s1.report = s.report
      /\ s1.real_mods = s.real_mods
      /\ \A j : j # r.key => s1.source_layers_cache[j] = s.source_layers_cache[j]
  BY DEF StoreSourceLayer, KeyboardState
<1> HIDE DEF s1, u
<1>3. /\ s2.layer_state = s1.layer_state /\ s2.keys = s1.keys /\ s2.report = s1.report
      /\ s2.real_mods = s1.real_mods /\ s2.weak_mods = {}
      /\ s2.source_layers_cache = s1.source_layers_cache
  BY <1>1 DEF KeyboardState
<1> HIDE DEF s2
<1>4. a = CachedAction(s2, r.key)
  BY <1>3 DEF CachedAction
<1>5. Owned(s2, held, how, stays)
  <2>1. \A j \in held : CachedAction(s2, j) = CachedAction(s, j)
    BY <1>2, <1>3 DEF CachedAction
  <2>2. \A c \in s2.keys : \E k \in held : c \in KeyOf(CachedAction(s2, k), how[k])
    BY <1>2, <1>3, <2>1 DEF Owned
  <2>3. \A m \in s2.real_mods : \E k \in held : m \in RealMods(CachedAction(s2, k), how[k])
    BY <1>2, <1>3, <2>1 DEF Owned
  <2>4. \A m \in s2.weak_mods \cup (s2.report.mods \ s2.real_mods) :
          \E k \in held : m \in WeakMods(CachedAction(s2, k))
    BY <1>2, <1>3, <2>1 DEF Owned
  <2>5. \A l \in s2.layer_state \ stays :
          \E k \in held : l \in LayersOf(CachedAction(s2, k), how[k])
    BY <1>2, <1>3, <2>1 DEF Owned
  <2> QED
    BY <2>2, <2>3, <2>4, <2>5 DEF Owned
<1>6. Owned(s2, held, now, stays)
  BY <1>5, OwnedMore
<1>7. Plainly(u) /\ Presses(s2, a, now[r.key], u)
  BY <1>1, ActionEffectPlain
<1>8. u \in KeyboardState
  BY ProcessRecordType DEF u
<1>9. Owned(u, held \cup {r.key}, now, stays)
  BY <1>1, <1>4, <1>6, <1>7, <1>8, PressOwns DEF Stays
<1>10. Owned(u, more, now, stays)
  BY <1>9, OwnedMore
<1> QED
  BY <1>1, <1>7, <1>8, <1>10 DEF u

\* A release is processed as its press was.
LEMMA ReleasePlain ==
  ASSUME PlainTaps, NEW s \in KeyboardState, Plainly(s),
         NEW r \in KeyRecord, ~IS_NOEVENT(r), ~r.pressed,
         NEW stays, Stays(stays),
         NEW held, NEW how, Owned(s, held, how, stays), how[r.key] = TapOrHold(r)
  PROVE  /\ ProcessRecord(s, r).kb \in KeyboardState
         /\ Plainly(ProcessRecord(s, r).kb)
         /\ Owned(ProcessRecord(s, r).kb, held \ {r.key}, how, stays)
         /\ ProcessRecord(s, r).rec = r
<1> DEFINE a == CachedAction(s, r.key)
           u == ProcessRecord(s, r).kb
<1>1. /\ a \in Action /\ PlainAction(a) /\ ~CancelsTap(r, a)
      /\ Layers \subseteq stays \/ ~StaysOn(a)
      /\ u = ActionEffect(s, r, a) /\ ProcessRecord(s, r).rec = r
  BY ProcessRecordPlain DEF StoreSourceLayer, Stays
<1>2. u \in KeyboardState
  BY ProcessRecordType
<1> HIDE DEF u
<1>3. Plainly(u) /\ Releases(s, a, how[r.key], u)
  BY <1>1, ActionEffectPlain
<1>4. Owned(u, held \ {r.key}, how, stays)
  BY <1>1, <1>2, <1>3, ReleaseDisowns DEF Stays
<1> QED
  BY <1>1, <1>2, <1>3, <1>4 DEF u

-----------------------------------------------------------------------------
(* The records on their way, and what each key is about to do.             *)

\* The first and the last record of their key in w, and the next one.
FirstOf(w, i)   == \A j \in DOMAIN w : j < i => w[j].key # w[i].key
LastOf(w, i)    == \A j \in DOMAIN w : j > i => w[j].key # w[i].key
NextOf(w, i, j) == /\ i < j /\ w[j].key = w[i].key
                   /\ \A m \in DOMAIN w : i < m /\ m < j => w[m].key # w[i].key

\* In w, presses and releases of a key take turns, up to the key's state;
\* what is counted as a tap is the release that comes first.
InTurn(w, down) ==
  \A i \in DOMAIN w :
    /\ w[i].key \in Keys /\ w[i].time # 0
    /\ \A j \in DOMAIN w : NextOf(w, i, j) => w[j].pressed # w[i].pressed
    /\ LastOf(w, i) => w[i].pressed = (w[i].key \in down)
    /\ w[i].count > 0 => ~w[i].pressed /\ FirstOf(w, i)

\* What comes next of k is a release.
Comes(w, down, k) ==
  /\ \A i \in DOMAIN w : w[i].key = k /\ FirstOf(w, i) => ~w[i].pressed
  /\ (\A i \in DOMAIN w : w[i].key # k) => k \in down

\* The release that comes next was counted as a tap.
Marked(w, k) == \E i \in DOMAIN w : w[i].key = k /\ w[i].count > 0

\* v is w without r, which is the first record of its key and the first or
\* the last of w.
Taken(w, v, r) ==
  \/ w # << >> /\ r = Head(w) /\ v = Tail(w)
  \/ w = Append(v, r) /\ \A i \in DOMAIN v : v[i].key # r.key

LEMMA TakenHead ==
  ASSUME NEW w \in Seq(KeyRecord), w # << >>, NEW down, InTurn(w, down)
  PROVE  LET r == Head(w)
             v == Tail(w)
         IN  /\ InTurn(v, down)
             /\ \A k : k # r.key /\ Comes(w, down, k) => Comes(v, down, k)
             /\ \A k : k # r.key => (Marked(v, k) <=> Marked(w, k))
             /\ ~Marked(v, r.key) /\ (Marked(w, r.key) <=> r.count > 0)
             /\ r.pressed => Comes(v, down, r.key) /\ ~Comes(w, down, r.key)
<1> DEFINE r == Head(w)
           v == Tail(w)
           n == Len(w) - 1
<1>1. n \in Nat /\ DOMAIN w = 1 .. n + 1 /\ r = w[1]
  BY LenProperties, EmptySeq
<1>2. DOMAIN v = 1 .. n /\ \A i \in 1 .. n : v[i] = w[i + 1]
  BY <1>1
<1>3. \A i \in 1 .. n + 1 : w[i].pressed \in BOOLEAN /\ w[i].count \in Nat
  <2>1. \A i \in 1 .. n + 1 : w[i] \in KeyRecord
    BY <1>1, ElementOfSeq
  <2> QED
    BY <2>1, ActionAssumption DEF KeyRecord
<1> HIDE DEF v, n, r
<1>4. /\ 1 \in 1 .. n + 1
      /\ \A i \in 1 .. n : i + 1 \in 1 .. n + 1 /\ i + 1 > 1
      /\ FirstOf(w, 1)
  BY <1>1 DEF FirstOf
<1>12. \A j \in 1 .. n + 1 : j = 1 \/ \E m \in 1 .. n : j = m + 1 /\ w[j] = v[m]
  <2>1. \A j \in 1 .. n + 1 : j = 1 \/ (j - 1 \in 1 .. n /\ (j - 1) + 1 = j)
    BY <1>1
  <2> QED
    BY <1>2, <2>1
<1>5. ASSUME NEW i \in 1 .. n
      PROVE  /\ v[i].key # r.key => (FirstOf(v, i) <=> FirstOf(w, i + 1))
             /\ v[i].key = r.key /\ FirstOf(v, i) => NextOf(w, 1, i + 1)
             /\ LastOf(v, i) => LastOf(w, i + 1)
             /\ \A j \in 1 .. n : NextOf(v, i, j) => NextOf(w, i + 1, j + 1)
  <2>1. w[i + 1] = v[i] /\ i \in Nat
    BY <1>2
  <2>2. ASSUME v[i].key # r.key, FirstOf(v, i), NEW j \in 1 .. n + 1, j < i + 1
        PROVE  w[j].key # v[i].key
    <3>1. CASE j = 1
      BY <1>1, <2>2, <3>1
    <3>2. ASSUME NEW x \in 1 .. n, j = x + 1, w[j] = v[x]
          PROVE  w[j].key # v[i].key
      <4>1. x \in DOMAIN v /\ x < i
        BY <1>2, <2>2, <3>2
      <4> QED
        BY <2>2, <3>2, <4>1 DEF FirstOf
    <3> QED
      BY <1>12, <2>2, <3>1, <3>2
  <2>3. ASSUME FirstOf(w, i + 1), NEW j \in 1 .. n, j < i
        PROVE  v[j].key # v[i].key
    <3>1. j + 1 \in DOMAIN w /\ j + 1 < i + 1 /\ w[j + 1] = v[j]
      BY <1>1, <1>2, <1>4, <2>3
    <3> QED
      BY <2>1, <2>3, <3>1 DEF FirstOf
  <2>4. ASSUME v[i].key = r.key, FirstOf(v, i), NEW m \in 1 .. n + 1, 1 < m, m < i + 1
        PROVE  w[m].key # v[i].key
    <3>1. PICK x \in 1 .. n : m = x + 1 /\ w[m] = v[x]
      BY <1>12, <2>4
    <3>2. x \in DOMAIN v
      BY <1>2, <3>1
    <3> QED
      BY <3>1, <3>2, <2>4 DEF FirstOf
  <2>5. ASSUME LastOf(v, i), NEW j \in 1 .. n + 1, j > i + 1
        PROVE  w[j].key # v[i].key
    <3>1. PICK x \in 1 .. n : j = x + 1 /\ w[j] = v[x]
      BY <1>12, <2>5
    <3>2. x \in DOMAIN v
      BY <1>2, <3>1
    <3> QED
      BY <3>1, <3>2, <2>5 DEF LastOf
  <2>6. ASSUME NEW j \in 1 .. n, NextOf(v, i, j), NEW m \in 1 .. n + 1, i + 1 < m, m < j + 1
        PROVE  w[m].key # v[i].key
    <3>1. PICK x \in 1 .. n : m = x + 1 /\ w[m] = v[x]
      BY <1>12, <2>6
    <3>2. x \in DOMAIN v
      BY <1>2, <3>1
    <3> QED
      BY <3>1, <3>2, <2>6 DEF NextOf
  <2>7. v[i].key # r.key => (FirstOf(v, i) <=> FirstOf(w, i + 1))
    BY <1>1, <1>2, <2>1, <2>2, <2>3 DEF FirstOf
  <2>8. v[i].key = r.key /\ FirstOf(v, i) => NextOf(w, 1, i + 1)
    BY <1>1, <1>4, <2>1, <2>4 DEF NextOf
  <2>9. LastOf(v, i) => LastOf(w, i + 1)
    BY <1>1, <2>1, <2>5 DEF LastOf
  <2>10. ASSUME NEW j \in 1 .. n, NextOf(v, i, j)
         PROVE  NextOf(w, i + 1, j + 1)
    <3>1. i + 1 < j + 1 /\ w[j + 1].key = w[i + 1].key
      BY <1>1, <1>2, <2>1, <2>10 DEF NextOf
    <3> QED
      BY <1>1, <2>1, <2>6, <2>10, <3>1 DEF NextOf
  <2> QED
    BY <2>7, <2>8, <2>9, <2>10
<1>6. InTurn(v, down)
  <2> SUFFICES ASSUME NEW i \in 1 .. n
               PROVE  /\ v[i].key \in Keys /\ v[i].time # 0
                      /\ \A j \in 1 .. n : NextOf(v, i, j) => v[j].pressed # v[i].pressed
                      /\ LastOf(v, i) => v[i].pressed = (v[i].key \in down)
                      /\ v[i].count > 0 => ~v[i].pressed /\ FirstOf(v, i)
      BY <1>2 DEF InTurn
  <2>1. v[i].key \in Keys /\ v[i].time # 0
    BY <1>1, <1>2, <1>4 DEF InTurn
  <2>2. \A j \in 1 .. n : NextOf(v, i, j) => v[j].pressed # v[i].pressed
    BY <1>1, <1>2, <1>4, <1>5 DEF InTurn
  <2>3. LastOf(v, i) => v[i].pressed = (v[i].key \in down)
    BY <1>1, <1>2, <1>4, <1>5 DEF InTurn
  <2>4. v[i].count > 0 => ~v[i].pressed /\ v[i].key # r.key /\ FirstOf(v, i)
    <3>1. v[i].count > 0 => ~v[i].pressed /\ FirstOf(w, i + 1)
      BY <1>1, <1>2, <1>4 DEF InTurn
    <3>2. FirstOf(w, i + 1) => v[i].key # r.key
      BY <1>1, <1>2, <1>4 DEF FirstOf
    <3> QED
      BY <1>5, <3>1, <3>2
  <2> QED
    BY <2>1, <2>2, <2>3, <2>4
<1>7. \A i \in 1 .. n : v[i].count > 0 => v[i].key # r.key
  <2> TAKE i \in 1 .. n
  <2>1. v[i].count > 0 => FirstOf(w, i + 1)
    BY <1>1, <1>2, <1>4 DEF InTurn
  <2> QED
    BY <1>1, <1>2, <1>4, <2>1 DEF FirstOf
<1>8. ASSUME NEW k, k # r.key, Comes(w, down, k)
      PROVE  Comes(v, down, k)
  <2>1. \A i \in 1 .. n : v[i].key = k /\ FirstOf(v, i) => ~v[i].pressed
    BY <1>1, <1>2, <1>4, <1>12, <1>5, <1>8 DEF Comes
  <2>2. (\A i \in 1 .. n : v[i].key # k) => (\A j \in 1 .. n + 1 : w[j].key # k)
    BY <1>1, <1>2, <1>4, <1>12, <1>8
  <2> QED
    BY <1>1, <1>2, <1>8, <2>1, <2>2 DEF Comes
<1>9. ASSUME NEW k, k # r.key
      PROVE  Marked(v, k) <=> Marked(w, k)
  <2>1. ASSUME Marked(v, k)
        PROVE  Marked(w, k)
    <3>1. PICK i \in 1 .. n : v[i].key = k /\ v[i].count > 0
      BY <1>2, <2>1 DEF Marked
    <3>2. i + 1 \in DOMAIN w /\ w[i + 1] = v[i]
      BY <1>1, <1>2, <1>4
    <3> QED
      BY <3>1, <3>2 DEF Marked
  <2>2. ASSUME Marked(w, k)
        PROVE  Marked(v, k)
    <3>1. PICK j \in 1 .. n + 1 : w[j].key = k /\ w[j].count > 0
      BY <1>1, <2>2 DEF Marked
    <3>2. j # 1
      BY <1>1, <1>9, <3>1
    <3>3. PICK i \in 1 .. n : w[j] = v[i]
      BY <1>12, <3>2
    <3>4. i \in DOMAIN v /\ v[i].key = k /\ v[i].count > 0
      BY <1>2, <3>1, <3>3
    <3> QED
      BY <3>4 DEF Marked
  <2> QED
    BY <2>1, <2>2
<1>10. ~Marked(v, r.key) /\ (Marked(w, r.key) <=> r.count > 0)
  BY <1>1, <1>2, <1>4, <1>12, <1>7 DEF Marked
<1>11. ASSUME r.pressed
       PROVE  Comes(v, down, r.key) /\ ~Comes(w, down, r.key)
  <2>1. ~Comes(w, down, r.key)
    BY <1>1, <1>4, <1>12, <1>11 DEF Comes
  <2>2. ASSUME NEW i \in 1 .. n, v[i].key = r.key, FirstOf(v, i)
        PROVE  ~v[i].pressed
    BY <1>1, <1>2, <1>3, <1>4, <1>12, <1>5, <1>11, <2>2 DEF InTurn
  <2>3. (\A i \in 1 .. n : v[i].key # r.key) => LastOf(w, 1)
    BY <1>1, <1>2, <1>4, <1>12 DEF LastOf
  <2>4. (\A i \in 1 .. n : v[i].key # r.key) => r.key \in down
    BY <1>1, <1>4, <1>12, <1>11, <2>3 DEF InTurn
  <2> QED
    BY <1>2, <2>1, <2>2, <2>4 DEF Comes
<1> QED
  BY <1>6, <1>8, <1>9, <1>10, <1>11 DEF v, r

LEMMA AppendDomain ==
  ASSUME NEW v \in Seq(KeyRecord), NEW r \in KeyRecord
  PROVE  LET w == Append(v, r)
             n == Len(v)
         IN  /\ n \in Nat /\ DOMAIN v = 1 .. n /\ DOMAIN w = 1 .. n + 1
             /\ \A i \in 1 .. n : w[i] = v[i] /\ i \in 1 .. n + 1 /\ i < n + 1
             /\ w[n + 1] = r /\ n + 1 \in 1 .. n + 1
             /\ \A j \in 1 .. n + 1 : j = n + 1 \/ j \in 1 .. n
             /\ \A i \in 1 .. n : v[i].pressed \in BOOLEAN /\ v[i].count \in Nat
<1>1. Len(v) \in Nat /\ DOMAIN v = 1 .. Len(v)
  BY LenProperties
<1>2. \A i \in 1 .. Len(v) : v[i].pressed \in BOOLEAN /\ v[i].count \in Nat
  <2>1. \A i \in 1 .. Len(v) : v[i] \in KeyRecord
    BY ElementOfSeq
  <2> QED
    BY <2>1, ActionAssumption DEF KeyRecord
<1> QED
  BY <1>1, <1>2, AppendProperties

LEMMA TakenLast ==
  ASSUME NEW v \in Seq(KeyRecord), NEW r \in KeyRecord, NEW down,
         \A i \in DOMAIN v : v[i].key # r.key, InTurn(Append(v, r), down)
  PROVE  LET w == Append(v, r)
         IN  /\ InTurn(v, down)
             /\ \A k : k # r.key /\ Comes(w, down, k) => Comes(v, down, k)
             /\ \A k : k # r.key => (Marked(v, k) <=> Marked(w, k))
             /\ ~Marked(v, r.key) /\ (Marked(w, r.key) <=> r.count > 0)
             /\ r.pressed => Comes(v, down, r.key) /\ ~Comes(w, down, r.key)
<1> DEFINE w == Append(v, r)
           n == Len(v)
<1>1. /\ n \in Nat /\ DOMAIN v = 1 .. n /\ DOMAIN w = 1 .. n + 1
      /\ \A i \in 1 .. n : w[i] = v[i] /\ i \in 1 .. n + 1 /\ i < n + 1
      /\ w[n + 1] = r /\ n + 1 \in 1 .. n + 1
      /\ \A j \in 1 .. n + 1 : j = n + 1 \/ j \in 1 .. n
  BY AppendDomain
<1>2. InTurn(w, down)
  OBVIOUS
<1> HIDE DEF w, n
<1>3. FirstOf(w, n + 1) /\ LastOf(w, n + 1)
  <2>1. FirstOf(w, n + 1)
    BY <1>1 DEF FirstOf
  <2>2. \A j \in 1 .. n + 1 : ~(j > n + 1)
    BY <1>1
  <2> QED
    BY <1>1, <2>1, <2>2 DEF LastOf
<1>4. ASSUME NEW i \in 1 .. n
      PROVE  /\ FirstOf(v, i) <=> FirstOf(w, i)
             /\ LastOf(v, i) => LastOf(w, i)
             /\ \A j \in 1 .. n : NextOf(v, i, j) => NextOf(w, i, j)
  <2>1. w[i] = v[i] /\ v[i].key # r.key
    BY <1>1
  <2>2. FirstOf(v, i) <=> FirstOf(w, i)
    BY <1>1, <2>1 DEF FirstOf
  <2>3. LastOf(v, i) => LastOf(w, i)
    BY <1>1, <2>1 DEF LastOf
  <2>4. ASSUME NEW j \in 1 .. n, NextOf(v, i, j)
        PROVE  NextOf(w, i, j)
    BY <1>1, <2>1, <2>4 DEF NextOf
  <2> QED
    BY <2>2, <2>3, <2>4
<1>5. InTurn(v, down)
  BY <1>1, <1>2, <1>4 DEF InTurn
<1>6. ASSUME NEW k, k # r.key, Comes(w, down, k)
      PROVE  Comes(v, down, k)
  <2>1. \A i \in 1 .. n : v[i].key = k /\ FirstOf(v, i) => ~v[i].pressed
    BY <1>1, <1>4, <1>6 DEF Comes
  <2>2. (\A i \in 1 .. n : v[i].key # k) => (\A j \in 1 .. n + 1 : w[j].key # k)
    BY <1>1, <1>6
  <2> QED
    BY <1>1, <1>6, <2>1, <2>2 DEF Comes
<1>7. ASSUME NEW k, k # r.key
      PROVE  Marked(v, k) <=> Marked(w, k)
  BY <1>1, <1>7 DEF Marked
<1>8. ~Marked(v, r.key) /\ (Marked(w, r.key) <=> r.count > 0)
  BY <1>1 DEF Marked
<1>9. ASSUME r.pressed
      PROVE  Comes(v, down, r.key) /\ ~Comes(w, down, r.key)
  <2>1. ~Comes(w, down, r.key)
    BY <1>1, <1>3, <1>9 DEF Comes
  <2>2. r.key \in down
    BY <1>1, <1>2, <1>3, <1>9 DEF InTurn
  <2>3. \A i \in DOMAIN v : v[i].key # r.key
    OBVIOUS
  <2> QED
    BY <2>1, <2>2, <2>3 DEF Comes
<1> QED
  BY <1>5, <1>6, <1>7, <1>8, <1>9 DEF w

LEMMA TakenViews ==
  ASSUME NEW w \in Seq(KeyRecord), NEW v \in Seq(KeyRecord), NEW r \in KeyRecord,
         NEW down, InTurn(w, down), Taken(w, v, r)
  PROVE  /\ InTurn(v, down)
         /\ \A k : k # r.key /\ Comes(w, down, k) => Comes(v, down, k)
         /\ \A k : k # r.key => (Marked(v, k) <=> Marked(w, k))
         /\ ~Marked(v, r.key) /\ (Marked(w, r.key) <=> r.count > 0)
         /\ r.pressed => Comes(v, down, r.key) /\ ~Comes(w, down, r.key)
         /\ r.key \in Keys /\ ~IS_NOEVENT(r)
         /\ r.pressed => r.count = 0
<1>3. NoKey \notin Keys /\ (r.count > 0 \/ r.count = 0)
  <2>1. r.count \in 0 .. MaxTapCount /\ MaxTapCount \in Nat
    BY ActionAssumption DEF KeyRecord
  <2>2. NoKey \notin Keys
    BY KeyboardAssumption
  <2> QED
    BY <2>1, <2>2
<1>1. CASE w # << >> /\ r = Head(w) /\ v = Tail(w)
  <2>1. 1 \in DOMAIN w /\ r = w[1]
    BY <1>1, LenProperties, EmptySeq
  <2>2. r.key \in Keys /\ ~IS_NOEVENT(r) /\ (r.pressed => r.count = 0)
    BY <1>3, <2>1 DEF InTurn, IS_NOEVENT
  <2> QED
    BY <1>1, <2>2, TakenHead
<1>2. CASE w = Append(v, r) /\ \A i \in DOMAIN v : v[i].key # r.key
  <2>1. Len(v) + 1 \in DOMAIN w /\ r = w[Len(v) + 1]
    BY <1>2, AppendDomain
  <2>2. r.key \in Keys /\ ~IS_NOEVENT(r) /\ (r.pressed => r.count = 0)
    BY <1>3, <2>1 DEF InTurn, IS_NOEVENT
  <2> QED
    BY <1>2, <2>2, TakenLast
<1> QED
  BY <1>1, <1>2 DEF Taken

\* The next event of a key is put behind the others.
LEMMA AppendViews ==
  ASSUME NEW v \in Seq(KeyRecord), NEW r \in KeyRecord, NEW down, NEW now, InTurn(v, down),
         r.key \in Keys, r.time # 0, r.count = 0,
         (r.key \in down) = ~r.pressed, (r.key \in now) = r.pressed,
         \A k \in Keys \ {r.key} : (k \in now) = (k \in down)
  PROVE  LET w == Append(v, r)
         IN  /\ InTurn(w, now)
             /\ \A k \in Keys : Comes(v, down, k) => Comes(w, now, k)
             /\ \A k : Marked(v, k) <=> Marked(w, k)
<1> DEFINE w == Append(v, r)
           n == Len(v)
<1>1. /\ n \in Nat /\ DOMAIN v = 1 .. n /\ DOMAIN w = 1 .. n + 1
      /\ \A i \in 1 .. n : w[i] = v[i] /\ i \in 1 .. n + 1 /\ i < n + 1
      /\ w[n + 1] = r /\ n + 1 \in 1 .. n + 1
      /\ \A j \in 1 .. n + 1 : j = n + 1 \/ j \in 1 .. n
  BY AppendDomain
<1>2. /\ \A i \in 1 .. n : v[i].pressed \in BOOLEAN /\ v[i].count \in Nat
      /\ r.pressed \in BOOLEAN
  BY AppendDomain DEF KeyRecord
<1> HIDE DEF w, n
<1>3. ASSUME NEW i \in 1 .. n
      PROVE  /\ FirstOf(v, i) <=> FirstOf(w, i)
             /\ LastOf(w, i) => LastOf(v, i) /\ v[i].key # r.key
             /\ \A j \in 1 .. n : NextOf(w, i, j) => NextOf(v, i, j)
             /\ NextOf(w, i, n + 1) => LastOf(v, i) /\ v[i].key = r.key
  <2>1. w[i] = v[i] /\ i \in Nat
    BY <1>1
  <2>2. FirstOf(v, i) <=> FirstOf(w, i)
    BY <1>1, <2>1 DEF FirstOf
  <2>3. LastOf(w, i) => LastOf(v, i) /\ v[i].key # r.key
    BY <1>1, <2>1 DEF LastOf
  <2>4. ASSUME NEW j \in 1 .. n, NextOf(w, i, j)
        PROVE  NextOf(v, i, j)
    BY <1>1, <2>1, <2>4 DEF NextOf
  <2>5. NextOf(w, i, n + 1) => LastOf(v, i) /\ v[i].key = r.key
    BY <1>1, <2>1 DEF NextOf, LastOf
  <2> QED
    BY <2>2, <2>3, <2>4, <2>5
<1>4. ASSUME NEW j \in 1 .. n + 1
      PROVE  ~NextOf(w, n + 1, j)
  BY <1>1, <1>4 DEF NextOf
<1>5. InTurn(w, now)
  <2> SUFFICES ASSUME NEW i \in 1 .. n + 1
               PROVE  /\ w[i].key \in Keys /\ w[i].time # 0
                      /\ \A j \in 1 .. n + 1 : NextOf(w, i, j) => w[j].pressed # w[i].pressed
                      /\ LastOf(w, i) => w[i].pressed = (w[i].key \in now)
                      /\ w[i].count > 0 => ~w[i].pressed /\ FirstOf(w, i)
      BY <1>1 DEF InTurn
  <2>1. CASE i = n + 1
    BY <1>1, <1>4, <2>1
  <2>2. CASE i \in 1 .. n
    <3>1. w[i] = v[i] /\ v[i].key \in Keys /\ v[i].time # 0
      BY <1>1, <2>2 DEF InTurn
    <3>2. \A j \in 1 .. n : NextOf(w, i, j) => w[j].pressed # w[i].pressed
      BY <1>1, <1>3, <2>2 DEF InTurn
    <3>3. ASSUME NextOf(w, i, n + 1)
          PROVE  w[n + 1].pressed # w[i].pressed
      <4>1. v[i].pressed = (r.key \in down)
        BY <1>1, <1>3, <2>2, <3>3 DEF InTurn
      <4> QED
        BY <1>1, <1>2, <2>2, <3>1, <4>1
    <3>4. ASSUME LastOf(w, i)
          PROVE  w[i].pressed = (w[i].key \in now)
      <4>1. v[i].pressed = (v[i].key \in down) /\ v[i].key # r.key
        BY <1>1, <1>3, <2>2, <3>4 DEF InTurn
      <4> QED
        BY <3>1, <4>1
    <3>5. w[i].count > 0 => ~w[i].pressed /\ FirstOf(w, i)
      BY <1>1, <1>3, <2>2, <3>1 DEF InTurn
    <3> QED
      BY <1>1, <3>1, <3>2, <3>3, <3>4, <3>5
  <2> QED
    BY <1>1, <2>1, <2>2
<1>6. ASSUME NEW k \in Keys, Comes(v, down, k)
      PROVE  Comes(w, now, k)
  <2>1. ASSUME NEW i \in 1 .. n + 1, w[i].key = k, FirstOf(w, i)
        PROVE  ~w[i].pressed
    <3>1. CASE i \in 1 .. n
      BY <1>1, <1>3, <1>6, <2>1, <3>1 DEF Comes
    <3>2. CASE i = n + 1
      <4>1. \A j \in 1 .. n : v[j].key # k
        BY <1>1, <2>1, <3>2 DEF FirstOf
      <4>2. k \in down
        BY <1>1, <1>6, <4>1 DEF Comes
      <4> QED
        BY <1>1, <2>1, <3>2, <4>2
    <3> QED
      BY <1>1, <3>1, <3>2
  <2>2. ASSUME \A i \in 1 .. n + 1 : w[i].key # k
        PROVE  k \in now
    <3>1. k # r.key /\ \A j \in 1 .. n : v[j].key # k
      BY <1>1, <2>2
    <3>2. k \in down
      BY <1>1, <1>6, <3>1 DEF Comes
    <3> QED
      BY <3>1, <3>2
  <2> QED
    BY <1>1, <2>1, <2>2 DEF Comes
<1>7. ASSUME NEW k
      PROVE  Marked(v, k) <=> Marked(w, k)
  BY <1>1 DEF Marked
<1> QED
  BY <1>5, <1>6, <1>7 DEF w

\* v is w with its record j, a release that comes first of its key, counted
\* as a tap.
Counted(w, v, j) ==
  /\ SameEvents(w, v) /\ j \in DOMAIN w
  /\ FirstOf(w, j) /\ ~w[j].pressed /\ v[j].count > 0
  /\ \A i \in DOMAIN w : v[i].time = w[i].time /\ (i # j => v[i].count = w[i].count)

LEMMA CountedViews ==
  ASSUME NEW w \in Seq(KeyRecord), NEW v \in Seq(KeyRecord), NEW j, Counted(w, v, j),
         NEW down, InTurn(w, down)
  PROVE  /\ InTurn(v, down)
         /\ \A k : Comes(w, down, k) => Comes(v, down, k)
         /\ \A k : k # w[j].key => (Marked(v, k) <=> Marked(w, k))
         /\ Marked(v, w[j].key)
<1> DEFINE n == Len(w)
<1>1. /\ DOMAIN w = 1 .. n /\ DOMAIN v = 1 .. n
      /\ \A i \in 1 .. n : v[i].key = w[i].key /\ v[i].pressed = w[i].pressed
  BY LenProperties DEF Counted, SameEvents
<1> HIDE DEF n
<1>2. /\ j \in 1 .. n /\ FirstOf(w, j) /\ ~w[j].pressed /\ v[j].count > 0
      /\ \A i \in 1 .. n : v[i].time = w[i].time /\ (i # j => v[i].count = w[i].count)
  BY <1>1 DEF Counted
<1>3. ASSUME NEW i \in 1 .. n
      PROVE  /\ FirstOf(v, i) <=> FirstOf(w, i)
             /\ LastOf(v, i) <=> LastOf(w, i)
             /\ \A m \in 1 .. n : NextOf(v, i, m) <=> NextOf(w, i, m)
  <2>1. FirstOf(v, i) <=> FirstOf(w, i)
    BY <1>1 DEF FirstOf
  <2>2. LastOf(v, i) <=> LastOf(w, i)
    BY <1>1 DEF LastOf
  <2>3. ASSUME NEW m \in 1 .. n
        PROVE  NextOf(v, i, m) <=> NextOf(w, i, m)
    BY <1>1 DEF NextOf
  <2> QED
    BY <2>1, <2>2, <2>3
<1>4. InTurn(v, down)
  <2> SUFFICES ASSUME NEW i \in 1 .. n
               PROVE  /\ v[i].key \in Keys /\ v[i].time # 0
                      /\ \A m \in 1 .. n : NextOf(v, i, m) => v[m].pressed # v[i].pressed
                      /\ LastOf(v, i) => v[i].pressed = (v[i].key \in down)
                      /\ v[i].count > 0 => ~v[i].pressed /\ FirstOf(v, i)
      BY <1>1 DEF InTurn
  <2>1. v[i].key \in Keys /\ v[i].time # 0
    BY <1>1, <1>2 DEF InTurn
  <2>2. \A m \in 1 .. n : NextOf(v, i, m) => v[m].pressed # v[i].pressed
    BY <1>1, <1>3 DEF InTurn
  <2>3. LastOf(v, i) => v[i].pressed = (v[i].key \in down)
    BY <1>1, <1>3 DEF InTurn
  <2>4. v[i].count > 0 => ~v[i].pressed /\ FirstOf(v, i)
    BY <1>1, <1>2, <1>3 DEF InTurn
  <2> QED
    BY <2>1, <2>2, <2>3, <2>4
<1>5. ASSUME NEW k, Comes(w, down, k)
      PROVE  Comes(v, down, k)
  BY <1>1, <1>3, <1>5 DEF Comes
<1>6. ASSUME NEW k, k # w[j].key
      PROVE  Marked(v, k) <=> Marked(w, k)
  BY <1>1, <1>2, <1>6 DEF Marked
<1>7. Marked(v, w[j].key)
  BY <1>1, <1>2 DEF Marked
<1> QED
  BY <1>4, <1>5, <1>6, <1>7

-----------------------------------------------------------------------------
(* What each step does to the keyboard state s, the records w on their way *)
(* and the tap key tk that is watched.                                     *)

Pressed(tk) == ~IS_NOEVENT(tk) /\ tk.pressed

\* The keys that hold something down: those a release of which comes next,
\* but for the tap key that is undecided.  And how each was processed.
Due(w, down, tk) == {k \in Keys : /\ Comes(w, down, k)
                                  /\ ~(Pressed(tk) /\ tk.count = 0 /\ tk.key = k)}
How(w, tk) == [k \in Keys |-> IF Marked(w, k) \/ (Pressed(tk) /\ tk.count > 0 /\ tk.key = k)
                              THEN "tap" ELSE "hold"]

\* The release of the tap key comes next; after one tap it was counted.
Watched(w, down, tk) ==
  Pressed(tk) => /\ Comes(w, down, tk.key)
                 /\ tk.count = 0 => ~Marked(w, tk.key)
                 /\ tk.count = 1 => Marked(w, tk.key)

Accounted(s, w, down, tk, stays) ==
  /\ InTurn(w, down) /\ Watched(w, down, tk)
  /\ Plainly(s) /\ Owned(s, Due(w, down, tk), How(w, tk), stays)

LEMMA CountCases ==
  ASSUME NEW r \in KeyRecord
  PROVE  /\ r.count = 0 \/ r.count > 0
         /\ r.count = 1 \/ r.count > 1 \/ r.count = 0
         /\ ~(r.count = 0 /\ r.count > 0)
<1>1. r.count \in Nat
  BY ActionAssumption DEF KeyRecord
<1> QED
  BY <1>1

\* The watch is taken off a tap key that is decided: after several taps it
\* is released on its own behalf.
LEMMA Forgotten ==
  ASSUME PlainTaps, NEW s \in KeyboardState, NEW w, NEW down, NEW tk \in KeyRecord,
         NEW stays, Stays(stays), Accounted(s, w, down, tk, stays),
         ~(Pressed(tk) /\ tk.count = 0), NEW t \in Nat, t # 0,
         NEW u, u = IF Pressed(tk) /\ tk.count > 1
                    THEN ProcessRecord(s, [tk EXCEPT !.time = t, !.pressed = FALSE]).kb ELSE s
  PROVE  u \in KeyboardState /\ Accounted(u, w, down, NoRecord, stays)
<1> DEFINE held == Due(w, down, tk)
           how  == How(w, tk)
           more == Due(w, down, NoRecord)
           now  == How(w, NoRecord)
<1>1. ~Pressed(NoRecord)
  BY DEF Pressed, IS_NOEVENT, NoRecord
<1>2. /\ InTurn(w, down) /\ Watched(w, down, tk) /\ Plainly(s)
      /\ Owned(s, held, how, stays)
  BY DEF Accounted
<1>3. Watched(w, down, NoRecord)
  BY <1>1 DEF Watched
<1>4. held \subseteq more
  BY <1>1 DEF Due
<1>5. ASSUME ~(Pressed(tk) /\ tk.count > 1)
      PROVE  u \in KeyboardState /\ Plainly(u) /\ Owned(u, more, now, stays)
  <2>1. Pressed(tk) => tk.count = 1
    BY <1>5, CountCases
  <2>2. \A k \in held : now[k] = how[k]
    BY <1>1, <1>2, <2>1 DEF Due, How, Watched
  <2> HIDE DEF held, more, now, how
  <2>3. Owned(s, more, now, stays)
    BY <1>2, <1>4, <2>2, OwnedMore
  <2> QED
    BY <1>2, <1>5, <2>3
<1>6. ASSUME Pressed(tk), tk.count > 1
      PROVE  u \in KeyboardState /\ Plainly(u) /\ Owned(u, more, now, stays)
  <2> DEFINE r == [tk EXCEPT !.time = t, !.pressed = FALSE]
  <2>1. /\ r \in KeyRecord /\ ~r.pressed /\ r.key = tk.key /\ r.count = tk.count /\ r.time = t
    BY DEF KeyRecord
  <2>2. u = ProcessRecord(s, r).kb
    BY <1>6
  <2> HIDE DEF r
  <2>3. ~IS_NOEVENT(r) /\ r.key \in Keys
    BY <1>6, <2>1 DEF IS_NOEVENT, Pressed, KeyRecord
  <2>4. tk.count > 0 /\ how[r.key] = TapOrHold(r)
    <3>1. tk.count > 0
      BY <1>6, CountCases
    <3> QED
      BY <1>6, <2>1, <2>3, <3>1 DEF How, TapOrHold
  <2>5. \A k \in held : k # r.key => k \in more /\ now[k] = how[k]
    BY <1>1, <1>4, <2>1 DEF Due, How
  <2> HIDE DEF held, more, now, how
  <2>6. /\ ProcessRecord(s, r).kb \in KeyboardState /\ Plainly(ProcessRecord(s, r).kb)
        /\ Owned(ProcessRecord(s, r).kb, held \ {r.key}, how, stays)
    BY <1>2, <2>1, <2>3, <2>4, ReleasePlain
  <2>7. Owned(ProcessRecord(s, r).kb, more, now, stays)
    BY <2>5, <2>6, OwnedMore
  <2> QED
    BY <2>2, <2>6, <2>7
<1> QED
  BY <1>2, <1>3, <1>5, <1>6 DEF Accounted

\* Only the key, its state and its count matter of the tap key.
SameWatch(tk, t) == /\ Pressed(t) <=> Pressed(tk)
                    /\ Pressed(tk) => t.key = tk.key /\ t.count = tk.count

LEMMA SameWatchAccounted ==
  ASSUME NEW s, NEW w, NEW down, NEW tk, NEW stays, Accounted(s, w, down, tk, stays),
         NEW t, SameWatch(tk, t)
  PROVE  Accounted(s, w, down, t, stays)
<1>1. Due(w, down, t) = Due(w, down, tk)
  BY DEF Due, SameWatch
<1>2. How(w, t) = How(w, tk)
  BY DEF How, SameWatch
<1>3. Watched(w, down, t)
  BY DEF Accounted, Watched, SameWatch
<1> QED
  BY <1>1, <1>2, <1>3 DEF Accounted

\* A record of another key is processed.
LEMMA OtherProcessed ==
  ASSUME PlainTaps, NEW s \in KeyboardState, NEW w \in Seq(KeyRecord), NEW v \in Seq(KeyRecord),
         NEW down, NEW tk \in KeyRecord, NEW stays, Stays(stays),
         Accounted(s, w, down, tk, stays),
         NEW r \in KeyRecord, Taken(w, v, r), Pressed(tk) => r.key # tk.key
  PROVE  Accounted(ProcessRecord(s, r).kb, v, down, tk, stays)
<1> DEFINE held == Due(w, down, tk)
           how  == How(w, tk)
           more == Due(v, down, tk)
           now  == How(v, tk)
           u    == ProcessRecord(s, r).kb
<1>1. /\ InTurn(w, down) /\ Watched(w, down, tk) /\ Plainly(s)
      /\ Owned(s, held, how, stays)
  BY DEF Accounted
<1>2. /\ InTurn(v, down)
      /\ \A k : k # r.key /\ Comes(w, down, k) => Comes(v, down, k)
      /\ \A k : k # r.key => (Marked(v, k) <=> Marked(w, k))
      /\ ~Marked(v, r.key) /\ (Marked(w, r.key) <=> r.count > 0)
      /\ r.pressed => Comes(v, down, r.key) /\ ~Comes(w, down, r.key)
      /\ r.key \in Keys /\ ~IS_NOEVENT(r)
      /\ r.pressed => r.count = 0
  BY <1>1, TakenViews
<1>3. Watched(v, down, tk)
  BY <1>1, <1>2 DEF Watched
<1>4. \A k \in held : k # r.key => k \in more /\ now[k] = how[k]
  BY <1>2 DEF Due, How
<1>5. CASE r.pressed
  <2>1. r.key \notin held /\ r.key \in more
    BY <1>2, <1>5 DEF Due
  <2>2. now[r.key] = TapOrHold(r)
    BY <1>2, <1>5, CountCases DEF How, TapOrHold
  <2> HIDE DEF held, more, now, how
  <2>3. held \subseteq more /\ \A k \in held : now[k] = how[k]
    BY <1>4, <2>1
  <2>4. Plainly(u) /\ Owned(u, more, now, stays)
    BY <1>1, <1>2, <1>5, <2>1, <2>2, <2>3, PressPlain
  <2> QED
    BY <1>2, <1>3, <2>4 DEF Accounted, more, now
<1>6. CASE ~r.pressed
  <2>1. how[r.key] = TapOrHold(r)
    BY <1>2, <1>6, CountCases DEF How, TapOrHold
  <2> HIDE DEF held, more, now, how
  <2>2. ~IS_NOEVENT(r)
    BY <1>2
  <2>3. Plainly(s) /\ Owned(s, held, how, stays)
    BY <1>1
  <2>4. Plainly(u) /\ Owned(u, held \ {r.key}, how, stays)
    BY <1>6, <2>1, <2>2, <2>3, ReleasePlain
  <2>5. Owned(u, more, now, stays)
    BY <1>4, <2>4, OwnedMore
  <2> QED
    BY <1>2, <1>3, <2>4, <2>5 DEF Accounted, more, now
<1> QED
  BY <1>5, <1>6

\* The tap key's press is processed as a tap: its release waits, or comes.
LEMMA KeyTapped ==
  ASSUME PlainTaps, NEW s \in KeyboardState, NEW w \in Seq(KeyRecord), NEW v \in Seq(KeyRecord),
         NEW down, NEW tk \in KeyRecord, NEW stays, Stays(stays),
         Accounted(s, w, down, tk, stays), Pressed(tk), tk.count = 0,
         NEW j, Counted(w, v, j), w[j].key = tk.key,
         NEW r \in KeyRecord, r.key = tk.key, r.time = tk.time, r.pressed, r.count = 1
  PROVE  /\ Accounted(ProcessRecord(s, r).kb, v, down, r, stays)
         /\ ProcessRecord(s, r).rec = r
<1> DEFINE held == Due(w, down, tk)
           how  == How(w, tk)
           more == Due(v, down, r)
           now  == How(v, r)
           u    == ProcessRecord(s, r).kb
<1>1. /\ InTurn(w, down) /\ Watched(w, down, tk) /\ Plainly(s)
      /\ Owned(s, held, how, stays)
  BY DEF Accounted
<1>2. /\ InTurn(v, down)
      /\ \A k : Comes(w, down, k) => Comes(v, down, k)
      /\ \A k : k # r.key => (Marked(v, k) <=> Marked(w, k))
      /\ Marked(v, r.key)
  BY <1>1, CountedViews
<1>3. r.key \in Keys /\ ~IS_NOEVENT(r) /\ Pressed(r) /\ Comes(v, down, r.key)
  BY <1>1, <1>2 DEF Pressed, IS_NOEVENT, KeyRecord, Watched
<1>4. Watched(v, down, r)
  BY <1>2, <1>3 DEF Watched
<1>5. r.key \notin held /\ r.key \in more /\ held \subseteq more
  BY <1>2, <1>3 DEF Due
<1>6. (\A k \in held : now[k] = how[k]) /\ now[r.key] = TapOrHold(r)
  BY <1>2, <1>3, <1>5 DEF Due, How, TapOrHold
<1> HIDE DEF held, more, now, how
<1>7. Plainly(u) /\ Owned(u, more, now, stays) /\ ProcessRecord(s, r).rec = r
  BY <1>1, <1>3, <1>5, <1>6, PressPlain
<1> QED
  BY <1>2, <1>4, <1>7 DEF Accounted, more, now

\* The tap key's press is processed as a hold.
LEMMA KeyHeld ==
  ASSUME PlainTaps, NEW s \in KeyboardState, NEW w \in Seq(KeyRecord),
         NEW down, NEW tk \in KeyRecord, NEW stays, Stays(stays),
         Accounted(s, w, down, tk, stays), Pressed(tk), tk.count = 0
  PROVE  Accounted(ProcessRecord(s, tk).kb, w, down, NoRecord, stays)
<1> DEFINE held == Due(w, down, tk)
           how  == How(w, tk)
           more == Due(w, down, NoRecord)
           now  == How(w, NoRecord)
           u    == ProcessRecord(s, tk).kb
<1>1. /\ InTurn(w, down) /\ Watched(w, down, tk) /\ Plainly(s)
      /\ Owned(s, held, how, stays)
  BY DEF Accounted
<1>2. ~Pressed(NoRecord)
  BY DEF Pressed, IS_NOEVENT, NoRecord
<1>3. /\ tk.key \in Keys /\ ~IS_NOEVENT(tk) /\ tk.pressed
      /\ Comes(w, down, tk.key) /\ ~Marked(w, tk.key)
  BY <1>1 DEF Pressed, IS_NOEVENT, KeyRecord, Watched
<1>4. Watched(w, down, NoRecord)
  BY <1>2 DEF Watched
<1>5. tk.key \notin held /\ tk.key \in more /\ held \subseteq more
  BY <1>2, <1>3 DEF Due
<1>6. (\A k \in held : now[k] = how[k]) /\ now[tk.key] = TapOrHold(tk)
  BY <1>2, <1>3, <1>5 DEF Due, How, TapOrHold
<1> HIDE DEF held, more, now, how
<1>7. Plainly(u) /\ Owned(u, more, now, stays)
  BY <1>1, <1>3, <1>5, <1>6, PressPlain
<1> QED
  BY <1>1, <1>4, <1>7 DEF Accounted, more, now

\* The release of the tap key is processed as the tap it was.
LEMMA TapOver ==
  ASSUME PlainTaps, NEW s \in KeyboardState, NEW w \in Seq(KeyRecord), NEW v \in Seq(KeyRecord),
         NEW down, NEW tk \in KeyRecord, NEW stays, Stays(stays),
         Accounted(s, w, down, tk, stays), Pressed(tk), tk.count > 0,
         NEW q \in KeyRecord, Taken(w, v, q), q.key = tk.key,
         NEW r \in KeyRecord, r.key = q.key, r.time = q.time, ~r.pressed, r.count = tk.count,
         NEW t, ~Pressed(t)
  PROVE  /\ Accounted(ProcessRecord(s, r).kb, v, down, t, stays)
         /\ ProcessRecord(s, r).rec = r
<1> DEFINE held == Due(w, down, tk)
           how  == How(w, tk)
           more == Due(v, down, t)
           now  == How(v, t)
           u    == ProcessRecord(s, r).kb
<1>1. /\ InTurn(w, down) /\ Plainly(s) /\ Owned(s, held, how, stays)
  BY DEF Accounted
<1>2. /\ InTurn(v, down)
      /\ \A k : k # r.key /\ Comes(w, down, k) => Comes(v, down, k)
      /\ \A k : k # r.key => (Marked(v, k) <=> Marked(w, k))
      /\ q.key \in Keys /\ ~IS_NOEVENT(q)
  BY <1>1, TakenViews
<1>3. ~IS_NOEVENT(r) /\ r.key \in Keys
  BY <1>2 DEF IS_NOEVENT
<1>4. Watched(v, down, t)
  BY DEF Watched
<1>5. \A k \in held : k # r.key => k \in more /\ now[k] = how[k]
  BY <1>2 DEF Due, How
<1>7. how[r.key] = TapOrHold(r)
  BY <1>3 DEF How, TapOrHold
<1> HIDE DEF held, more, now, how
<1>8. /\ Plainly(u) /\ Owned(u, held \ {r.key}, how, stays)
      /\ ProcessRecord(s, r).rec = r
  BY <1>1, <1>3, <1>7, ReleasePlain
<1>9. Owned(u, more, now, stays)
  BY <1>5, <1>8, OwnedMore
<1> QED
  BY <1>2, <1>4, <1>8, <1>9 DEF Accounted, more, now

\* A key is tapped once more.
LEMMA TapAgain ==
  ASSUME PlainTaps, NEW s \in KeyboardState, NEW w \in Seq(KeyRecord), NEW v \in Seq(KeyRecord),
         NEW down, NEW stays, Stays(stays), Accounted(s, w, down, NoRecord, stays),
         NEW q \in KeyRecord, Taken(w, v, q), q.pressed,
         NEW r \in KeyRecord, r.key = q.key, r.time = q.time, r.pressed, r.count > 1
  PROVE  /\ Accounted(ProcessRecord(s, r).kb, v, down, r, stays)
         /\ ProcessRecord(s, r).rec = r
<1> DEFINE held == Due(w, down, NoRecord)
           how  == How(w, NoRecord)
           more == Due(v, down, r)
           now  == How(v, r)
           u    == ProcessRecord(s, r).kb
<1>1. /\ InTurn(w, down) /\ Plainly(s) /\ Owned(s, held, how, stays)
  BY DEF Accounted
<1>2. /\ InTurn(v, down)
      /\ \A k : k # r.key /\ Comes(w, down, k) => Comes(v, down, k)
      /\ \A k : k # r.key => (Marked(v, k) <=> Marked(w, k))
      /\ Comes(v, down, r.key) /\ ~Comes(w, down, r.key)
      /\ q.key \in Keys /\ ~IS_NOEVENT(q)
  BY <1>1, TakenViews
<1>3. /\ ~IS_NOEVENT(r) /\ r.key \in Keys /\ Pressed(r) /\ ~Pressed(NoRecord)
      /\ r.count # 0 /\ r.count # 1 /\ r.count > 0
  <2>1. r.count \in Nat
    BY ActionAssumption DEF KeyRecord
  <2> QED
    BY <1>2, <2>1 DEF IS_NOEVENT, Pressed, NoRecord
<1>4. Watched(v, down, r)
  BY <1>2, <1>3 DEF Watched
<1>5. r.key \notin held /\ r.key \in more /\ held \subseteq more
  BY <1>2, <1>3 DEF Due
<1>6. (\A k \in held : now[k] = how[k]) /\ now[r.key] = TapOrHold(r)
  BY <1>2, <1>3, <1>5 DEF Due, How, TapOrHold
<1> HIDE DEF held, more, now, how
<1>7. Plainly(u) /\ Owned(u, more, now, stays) /\ ProcessRecord(s, r).rec = r
  BY <1>1, <1>3, <1>5, <1>6, PressPlain
<1> QED
  BY <1>2, <1>4, <1>7 DEF Accounted, more, now

\* A tap key goes down, and its action is left open,
LEMMA NewTapKey ==
  ASSUME NEW s \in KeyboardState, NEW w \in Seq(KeyRecord), NEW v \in Seq(KeyRecord),
         NEW down, NEW stays, Accounted(s, w, down, NoRecord, stays),
         NEW r \in KeyRecord, Taken(w, v, r), r.pressed
  PROVE  Accounted(s, v, down, r, stays)
<1> DEFINE held == Due(w, down, NoRecord)
           how  == How(w, NoRecord)
           more == Due(v, down, r)
           now  == How(v, r)
<1>1. /\ InTurn(w, down) /\ Plainly(s) /\ Owned(s, held, how, stays)
  BY DEF Accounted
<1>2. /\ InTurn(v, down)
      /\ \A k : k # r.key /\ Comes(w, down, k) => Comes(v, down, k)
      /\ \A k : k # r.key => (Marked(v, k) <=> Marked(w, k))
      /\ Comes(v, down, r.key) /\ ~Comes(w, down, r.key) /\ ~Marked(v, r.key)
      /\ r.key \in Keys /\ r.count = 0
  BY <1>1, TakenViews
<1>3. ~Pressed(NoRecord) /\ ~(r.count > 0) /\ r.count # 1
  BY <1>2 DEF Pressed, IS_NOEVENT, NoRecord
<1>4. Watched(v, down, r)
  BY <1>2, <1>3 DEF Watched
<1>5. held \subseteq more /\ \A k \in held : now[k] = how[k]
  BY <1>2, <1>3 DEF Due, How
<1> HIDE DEF held, more, now, how
<1>6. Owned(s, more, now, stays)
  BY <1>1, <1>5, OwnedMore
<1> QED
  BY <1>1, <1>2, <1>4, <1>6 DEF Accounted, more, now

\* or is processed as a tap, as its release waits.
LEMMA TapAhead ==
  ASSUME PlainTaps, NEW s \in KeyboardState, NEW w \in Seq(KeyRecord), NEW v \in Seq(KeyRecord),
         NEW down, NEW stays, Stays(stays), Accounted(s, w, down, NoRecord, stays),
         NEW q \in KeyRecord, Taken(w, v, q), q.pressed,
         NEW x \in Seq(KeyRecord), NEW j, Counted(v, x, j), v[j].key = q.key,
         NEW r \in KeyRecord, r.key = q.key, r.time = q.time, r.pressed, r.count = 1
  PROVE  /\ Accounted(ProcessRecord(s, r).kb, x, down, r, stays)
         /\ ProcessRecord(s, r).rec = r
<1>1. Accounted(s, v, down, q, stays)
  BY NewTapKey
<1>2. InTurn(w, down)
  BY DEF Accounted
<1>3. q.key \in Keys /\ ~IS_NOEVENT(q) /\ q.count = 0
  BY <1>2, TakenViews
<1>4. Pressed(q)
  BY <1>3 DEF Pressed
<1>5. \A k \in Keys : k = q.key => r.key = k /\ v[j].key = k
  OBVIOUS
<1>6. q.count = 0
  BY <1>3
<1> QED
  BY <1>1, <1>4, <1>6, KeyTapped

\* The next event of a key comes.
LEMMA ScannedAccounted ==
  ASSUME NEW s \in KeyboardState, NEW v \in Seq(KeyRecord), NEW down, NEW now,
         NEW tk \in KeyRecord, NEW stays, Accounted(s, v, down, tk, stays),
         NEW r \in KeyRecord, r.key \in Keys, r.time # 0, r.count = 0,
         (r.key \in down) = ~r.pressed, (r.key \in now) = r.pressed,
         \A k \in Keys \ {r.key} : (k \in now) = (k \in down)
  PROVE  Accounted(s, Append(v, r), now, tk, stays)
<1> DEFINE w == Append(v, r)
<1>1. InTurn(v, down) /\ Watched(v, down, tk) /\ Plainly(s)
      /\ Owned(s, Due(v, down, tk), How(v, tk), stays)
  BY DEF Accounted
<1>2. /\ InTurn(w, now)
      /\ \A k \in Keys : Comes(v, down, k) => Comes(w, now, k)
      /\ \A k : Marked(v, k) <=> Marked(w, k)
  BY <1>1, AppendViews
<1> HIDE DEF w
<1>3. Watched(w, now, tk)
  BY <1>1, <1>2 DEF Watched, Pressed, IS_NOEVENT, KeyRecord
<1>4. Due(v, down, tk) \subseteq Due(w, now, tk)
  BY <1>2 DEF Due
<1>5. How(w, tk) = How(v, tk)
  BY <1>2 DEF How
<1>6. Owned(s, Due(w, now, tk), How(w, tk), stays)
  BY <1>1, <1>4, <1>5, OwnedMore
<1> QED
  BY <1>1, <1>2, <1>3, <1>6 DEF Accounted, w

-----------------------------------------------------------------------------
(* The steps of process_tapping keep account.                              *)

\* The records on their way: the waiting ones, and the new one.
Queue == IF Handled THEN Append(waiting_buffer, record) ELSE waiting_buffer

\* A record of the tap key that process_tapping is called with is the next.
MissedAhead ==
  Handled /\ pc = "process" /\ Undecided /\ record.key = tapping_key.key =>
    \A i \in DOMAIN waiting_buffer : waiting_buffer[i].key # record.key

\* The new record was not counted; a TICK event is no press, and of no key.
NewRecord ==
  pc = "process" =>
    /\ record.count = 0
    /\ IS_NOEVENT(record) => ~record.pressed /\ record.key = NoKey

\* What the properties of tap keys take for granted of the configuration.
Tappable == IS_TAPPING => ~PermissiveHold /\ MaxTapCount > 1

AccountedFor(stays) == Accounted(kb, Queue, matrix_prev, tapping_key, stays)

LEMMA QueueType ==
  ASSUME CallTypeOK
  PROVE  Queue \in Seq(KeyRecord)
BY AppendProperties DEF CallTypeOK, Queue

LEMMA QueueNextType ==
  ASSUME CallTypeOK'
  PROVE  Queue' \in Seq(KeyRecord)
BY AppendProperties DEF CallTypeOK, Queue

\* A record that is consumed is the first of its key.
LEMMA ConsumedTaken ==
  ASSUME StateTypeOK, CallTypeOK, QueueInv, ProcessTapping, Called, Consumed(waiting_buffer)
  PROVE  \/ IS_NOEVENT(keyp) /\ pc = "process" /\ Queue' = Queue
         \/ Taken(Queue, Queue', keyp)
<1>1. CASE pc = "drain"
  <2>1. ~Handled /\ ~Handled' /\ waiting_buffer # << >> /\ waiting_buffer' = Tail(waiting_buffer)
    BY <1>1 DEF Handled, Called, Consumed
  <2> QED
    BY <1>1, <2>1 DEF Queue, Taken, keyp
<1>2. CASE pc = "process"
  <2>1. pc' = "drain" /\ ~Handled' /\ Queue' = waiting_buffer /\ keyp = record
    BY <1>2 DEF Consumed, Handled, Queue, keyp
  <2>2. CASE IS_NOEVENT(record)
    BY <1>2, <2>1, <2>2 DEF Handled, Queue
  <2>3. CASE ~IS_NOEVENT(record)
    <3>1. \A i \in DOMAIN waiting_buffer : waiting_buffer[i].key # record.key
      BY <1>2, <2>1, <2>3, OvertakesNothing
    <3>2. Queue = Append(waiting_buffer, record)
      BY <1>2, <2>3 DEF Handled, Queue
    <3> QED
      BY <2>1, <3>1, <3>2 DEF Taken
  <2> QED
    BY <2>2, <2>3
<1> QED
  BY <1>1, <1>2 DEF Called

LEMMA KeptQueue ==
  ASSUME CallTypeOK, Called, Kept(keyp)
  PROVE  Queue' = Queue
<1>1. CASE pc = "process"
  <2>1. pc' = "enqueue" /\ record' = record /\ waiting_buffer' = waiting_buffer
    BY <1>1 DEF Kept, keyp
  <2> QED
    BY <1>1, <2>1 DEF Queue, Handled
<1>2. CASE pc = "drain"
  <2>1. /\ ~Handled /\ ~Handled' /\ keyp = waiting_buffer[1]
        /\ waiting_buffer' = [waiting_buffer EXCEPT ![1] = keyp]
    BY <1>2 DEF Kept, keyp, Handled, CallTypeOK
  <2>2. [waiting_buffer EXCEPT ![1] = waiting_buffer[1]] = waiting_buffer
    BY DEF CallTypeOK
  <2> QED
    BY <2>1, <2>2 DEF Queue
<1> QED
  BY <1>1, <1>2 DEF Called

\* The release of the tap key is kept, counted as a tap.
LEMMA KeptCounted ==
  ASSUME CallTypeOK, Called, ~IS_NOEVENT(keyp), ~keyp.pressed,
         NEW r \in KeyRecord, r.key = keyp.key, r.time = keyp.time, ~r.pressed, r.count > 0,
         Kept(r),
         pc = "process" => \A i \in DOMAIN waiting_buffer : waiting_buffer[i].key # keyp.key
  PROVE  \E j \in Nat : Counted(Queue, Queue', j) /\ Queue[j].key = keyp.key
<1>0. waiting_buffer \in Seq(KeyRecord) /\ record \in KeyRecord
  BY DEF CallTypeOK
<1>1. CASE pc = "process"
  <2> DEFINE n == Len(waiting_buffer)
             w == Append(waiting_buffer, record)
             v == Append(waiting_buffer, r)
  <2>1. /\ pc' = "enqueue" /\ record' = r /\ waiting_buffer' = waiting_buffer /\ keyp = record
    BY <1>1 DEF Kept, keyp
  <2>2. Handled /\ Handled' /\ Queue = w /\ Queue' = v
    BY <1>1, <2>1 DEF Queue, Handled, IS_NOEVENT
  <2>3. /\ n \in Nat /\ DOMAIN waiting_buffer = 1 .. n /\ DOMAIN w = 1 .. n + 1 /\ Len(w) = n + 1
        /\ \A i \in 1 .. n : w[i] = waiting_buffer[i]
        /\ w[n + 1] = record /\ n + 1 \in 1 .. n + 1
        /\ \A i \in 1 .. n + 1 : i = n + 1 \/ i \in 1 .. n
        /\ \A i \in 1 .. n + 1 : i < n + 1 => i \in 1 .. n
    BY <1>0, AppendProperties, AppendDomain
  <2>4. /\ Len(v) = n + 1
        /\ \A i \in 1 .. n : v[i] = waiting_buffer[i]
        /\ v[n + 1] = r
    BY <1>0, AppendProperties, AppendDomain
  <2> HIDE DEF w, v, n
  <2>5. FirstOf(w, n + 1)
    BY <1>1, <2>1, <2>3 DEF FirstOf
  <2>6. /\ \A i \in 1 .. n + 1 : v[i].time = w[i].time /\ (i # n + 1 => v[i].count = w[i].count)
        /\ \A i \in 1 .. n + 1 : v[i].key = w[i].key
    BY <2>1, <2>3, <2>4
  <2>7. \A i \in 1 .. n + 1 : v[i].pressed = w[i].pressed
    <3>1. r.pressed = FALSE /\ record.pressed = FALSE
      BY <1>0, <2>1 DEF KeyRecord
    <3> QED
      BY <2>3, <2>4, <3>1
  <2>8. Counted(w, v, n + 1)
    BY <2>1, <2>3, <2>4, <2>5, <2>6, <2>7 DEF Counted, SameEvents
  <2> QED
    BY <2>1, <2>2, <2>3, <2>8
<1>2. CASE pc = "drain"
  <2> DEFINE w == waiting_buffer
             v == [waiting_buffer EXCEPT ![1] = r]
  <2>1. ~Handled /\ ~Handled' /\ keyp = w[1] /\ Queue = w /\ Queue' = v
    BY <1>2 DEF Kept, keyp, Handled, CallTypeOK, Queue
  <2>2. 1 \in 1 .. Len(w) /\ DOMAIN w = 1 .. Len(w)
    BY <1>0, <1>2, KeypType, LenProperties
  <2>3. /\ Len(v) = Len(w)
        /\ \A i \in 1 .. Len(w) : v[i] = IF i = 1 THEN r ELSE w[i]
    BY <1>0, <2>2, ExceptSeq
  <2>4. r.pressed = FALSE /\ w[1].pressed = FALSE
    <3>1. w[1] \in KeyRecord
      BY <1>0, <2>2, ElementOfSeq
    <3> QED
      BY <2>1, <3>1 DEF KeyRecord
  <2> HIDE DEF w, v
  <2>5. FirstOf(w, 1)
    <3>1. \A i \in 1 .. Len(w) : ~(i < 1)
      OBVIOUS
    <3> QED
      BY <2>2, <3>1 DEF FirstOf
  <2>6. SameEvents(w, v)
    BY <2>1, <2>3, <2>4 DEF SameEvents
  <2>7. Counted(w, v, 1)
    BY <2>1, <2>2, <2>3, <2>4, <2>5, <2>6 DEF Counted
  <2> QED
    BY <2>1, <2>7
<1> QED
  BY <1>1, <1>2 DEF Called

LEMMA LeastOf ==
  ASSUME NEW S, S \subseteq Nat, S # {}
  PROVE  Min(S) \in S /\ \A x \in S : Min(S) =< x
<1>1. PICK k \in S : \A u \in S : ~(<<u, k>> \in OpToRel(<, Nat))
  BY NatLessThanWellFounded, WFMin, Zenon
<1>2. \A u \in S : k =< u
  <2> SUFFICES ASSUME NEW u \in S
               PROVE  k =< u
      OBVIOUS
  <2>1. k \in Nat /\ u \in Nat
    OBVIOUS
  <2>2. ~(u < k)
    BY <1>1, <2>1 DEF OpToRel
  <2> QED
    BY <2>1, <2>2
<1> QED
  BY <1>2 DEF Min

\* Of the releases of its key within the term of a press, the first is the
\* next record of its key, if none behind the term is before them.
LEMMA NextRelease ==
  ASSUME NEW w \in Seq(KeyRecord), w # << >>, NEW down, InTurn(w, down), w[1].pressed,
         NEW near, NEW ends,
         ends = {i \in DOMAIN w : w[i].key = w[1].key /\ ~w[i].pressed /\ i \in near},
         ends # {}, \A i, j \in DOMAIN w : i < j /\ j \in near => i \in near
  PROVE  Min(ends) \in DOMAIN w /\ NextOf(w, 1, Min(ends)) /\ ~w[Min(ends)].pressed
<1> PICK m : m = Min(ends)
  OBVIOUS
<1>1. DOMAIN w = 1 .. Len(w) /\ Len(w) \in Nat /\ 1 \in 1 .. Len(w)
  BY LenProperties, EmptySeq
<1>2. m \in ends /\ (\A x \in ends : m =< x) /\ m \in 1 .. Len(w)
  <2>1. ends \subseteq 1 .. Len(w) /\ ends \subseteq Nat
    BY <1>1
  <2> QED
    BY <2>1, LeastOf
<1>3. w[m].key = w[1].key /\ ~w[m].pressed /\ m \in near /\ 1 < m
  BY <1>1, <1>2
<1> PICK others : others = {i \in 1 .. Len(w) : 1 < i /\ w[i].key = w[1].key}
  OBVIOUS
<1> PICK f : f = Min(others)
  OBVIOUS
<1>4. m \in others
  BY <1>1, <1>2, <1>3
<1>5. f \in others /\ (\A x \in others : f =< x) /\ f \in 1 .. Len(w)
  <2>1. others \subseteq 1 .. Len(w) /\ others \subseteq Nat
    BY <1>1
  <2> QED
    BY <1>4, <2>1, LeastOf
<1>6. NextOf(w, 1, f)
  <2>1. 1 < f /\ w[f].key = w[1].key
    BY <1>5
  <2>2. ASSUME NEW i \in 1 .. Len(w), 1 < i, i < f
        PROVE  w[i].key # w[1].key
    <3>1. i \notin others
      BY <1>5, <2>2
    <3> QED
      BY <2>2, <3>1
  <2> QED
    BY <1>1, <2>1, <2>2 DEF NextOf
<1>7. w[f].pressed # w[1].pressed
  BY <1>1, <1>5, <1>6 DEF InTurn
<1>8. ~w[f].pressed
  <2>1. w[f] \in KeyRecord /\ w[1] \in KeyRecord
    BY <1>1, <1>5, ElementOfSeq
  <2> QED
    BY <1>7, <2>1 DEF KeyRecord
<1>9. f =< m
  BY <1>4, <1>5
<1>10. f \in near
  BY <1>1, <1>2, <1>3, <1>5, <1>9
<1>11. f \in ends
  BY <1>1, <1>5, <1>8, <1>10
<1>12. f = m
  BY <1>1, <1>2, <1>5, <1>9, <1>11
<1> QED
  BY <1>1, <1>2, <1>3, <1>6, <1>12

\* The release that waits is counted as a tap, as its press is taken.
LEMMA CountedTail ==
  ASSUME NEW w \in Seq(KeyRecord), w # << >>, NEW m \in DOMAIN w,
         NextOf(w, 1, m), ~w[m].pressed
  PROVE  \E j \in Nat : /\ Counted(Tail(w), Tail([w EXCEPT ![m].count = 1]), j)
                        /\ Tail(w)[j].key = w[1].key
<1> DEFINE c == [w EXCEPT ![m].count = 1]
           v == Tail(w)
           x == Tail(c)
           n == Len(w) - 1
<1>1. n \in Nat /\ DOMAIN w = 1 .. n + 1 /\ 1 \in 1 .. n + 1 /\ Len(w) = n + 1
  BY LenProperties, EmptySeq
<1>2. c \in Seq(KeyRecord) /\ Len(c) = n + 1
  BY <1>1, CountedType
<1>3. \A i \in 1 .. n + 1 : w[i] \in KeyRecord
  BY <1>1, ElementOfSeq
<1>4. \A i \in 1 .. n + 1 : c[i] = IF i = m THEN [w[i] EXCEPT !.count = 1] ELSE w[i]
  BY <1>1
<1> HIDE DEF c
<1>5. \A i \in 1 .. n + 1 :
        /\ c[i].key = w[i].key /\ c[i].pressed = w[i].pressed /\ c[i].time = w[i].time
        /\ i # m => c[i].count = w[i].count
        /\ i = m => c[i].count = 1
  BY <1>3, <1>4 DEF KeyRecord
<1>6. /\ Len(v) = n /\ DOMAIN v = 1 .. n /\ Len(x) = n
      /\ \A i \in 1 .. n : v[i] = w[i + 1] /\ x[i] = c[i + 1]
  <2>1. c # << >>
    BY <1>1, <1>2
  <2> QED
    BY <1>1, <1>2, <2>1
<1>7. 1 < m /\ w[m].key = w[1].key /\ m \in 1 .. n + 1
  BY <1>1 DEF NextOf
<1> PICK j : j = m - 1
  OBVIOUS
<1>8. j \in 1 .. n /\ j + 1 = m /\ j \in Nat
  BY <1>1, <1>7
<1> HIDE DEF v, x, n
<1>9. FirstOf(v, j)
  <2>1. ASSUME NEW i \in 1 .. n, i < j
        PROVE  v[i].key # v[j].key
    <3>1. i + 1 \in DOMAIN w /\ 1 < i + 1 /\ i + 1 < m
      BY <1>1, <1>8, <2>1
    <3>2. w[i + 1].key # w[1].key
      BY <3>1 DEF NextOf
    <3> QED
      BY <1>6, <1>7, <1>8, <2>1, <3>2
  <2> QED
    BY <1>6, <2>1 DEF FirstOf
<1>10. \A i \in 1 .. n : /\ x[i].key = v[i].key /\ x[i].pressed = v[i].pressed
                         /\ x[i].time = v[i].time
                         /\ i # j => x[i].count = v[i].count
  <2> TAKE i \in 1 .. n
  <2>1. i + 1 \in 1 .. n + 1 /\ (i # j => i + 1 # m)
    BY <1>1, <1>8
  <2> QED
    BY <1>5, <1>6, <2>1
<1>11. x[j].count > 0 /\ ~v[j].pressed /\ v[j].key = w[1].key
  BY <1>5, <1>6, <1>7, <1>8
<1>12. Counted(v, x, j)
  BY <1>6, <1>8, <1>9, <1>10, <1>11 DEF Counted, SameEvents
<1> QED
  BY <1>8, <1>11, <1>12 DEF v, x, c

\* process_tapping starts to watch a tap key.
LEMMA StartTappingAccounted ==
  ASSUME PlainTaps, StateTypeOK, CallTypeOK, QueueInv, NewRecord, TermInOrder,
         ProcessTapping, Called, StartsTap, ~Undecided, matrix_prev' = matrix_prev,
         NEW stays, Stays(stays), NEW s \in KeyboardState,
         Accounted(s, Queue, matrix_prev, NoRecord, stays), StartTapping(s)
  PROVE  AccountedFor(stays)'
<1> DEFINE ends == {i \in DOMAIN waiting_buffer :
                      /\ waiting_buffer[i].key = keyp.key
                      /\ ~waiting_buffer[i].pressed
                      /\ Within(waiting_buffer[i], keyp)}
           r       == [keyp EXCEPT !.count = 1]
           down    == ProcessRecord(s, r)
           m       == Min(ends)
           counted == [waiting_buffer EXCEPT ![m].count = 1]
<1>1. waiting_buffer \in Seq(KeyRecord) /\ keyp \in KeyRecord /\ keyp.pressed
  BY KeypType DEF CallTypeOK, StartsTap
<1>2. CASE ~(keyp.count = 0 /\ ends # {})
  <2>1. kb' = s /\ tapping_key' = keyp /\ Consumed(waiting_buffer)
    BY <1>2 DEF StartTapping
  <2>2. CallTypeOK'
    BY <2>1, ConsumedWaitingType
  <2>3. Queue \in Seq(KeyRecord) /\ Queue' \in Seq(KeyRecord)
    BY <2>2, QueueType, QueueNextType
  <2>4. Taken(Queue, Queue', keyp)
    BY <1>1, <2>1, ConsumedTaken DEF NewRecord, keyp
  <2>5. Accounted(s, Queue', matrix_prev, keyp, stays)
    BY <1>1, <2>3, <2>4, NewTapKey
  <2> QED
    BY <2>1, <2>5 DEF AccountedFor
<1>3. CASE keyp.count = 0 /\ ends # {}
  <2>1. kb' = down.kb /\ tapping_key' = down.rec /\ Consumed(counted)
    BY <1>3 DEF StartTapping
  <2>2. pc # "process"
    <3>1. SUFFICES ASSUME pc = "process"
                   PROVE  FALSE
      OBVIOUS
    <3>2. keyp = record /\ ~IS_NOEVENT(record)
      BY <1>1, <3>1 DEF keyp, NewRecord
    <3>3. \A i \in DOMAIN waiting_buffer : waiting_buffer[i].key # record.key
      BY <3>1, <3>2 DEF QueueInv, NotAhead, Handled
    <3> QED
      BY <1>3, <3>2, <3>3
  <2>3. pc = "drain" /\ waiting_buffer # << >> /\ ~Handled /\ Queue = waiting_buffer
    BY <2>2 DEF Called, Handled, Queue
  <2>4. pc' = "drain" /\ ~Handled' /\ Queue' = Tail(counted)
    BY <2>1, <2>3 DEF Consumed, Handled, Queue
  <2>5. keyp = Head(waiting_buffer) /\ keyp = waiting_buffer[1]
    BY <1>1, <2>3 DEF keyp
  <2>6. InTurn(waiting_buffer, matrix_prev)
    BY <2>3 DEF Accounted
  <2>7. m \in DOMAIN waiting_buffer /\ NextOf(waiting_buffer, 1, m) /\ ~waiting_buffer[m].pressed
    <3> DEFINE near == {i \in DOMAIN waiting_buffer : Within(waiting_buffer[i], keyp)}
    <3>1. ends = {i \in DOMAIN waiting_buffer : /\ waiting_buffer[i].key = waiting_buffer[1].key
                                                /\ ~waiting_buffer[i].pressed /\ i \in near}
      BY <2>5
    <3>2. \A i, j \in DOMAIN waiting_buffer : i < j /\ j \in near => i \in near
      BY <2>3, <2>5 DEF TermInOrder
    <3> HIDE DEF near, ends
    <3> QED
      BY <1>1, <1>3, <2>3, <2>5, <2>6, <3>1, <3>2, NextRelease
  <2> HIDE DEF m
  <2>8. PICK j \in Nat : /\ Counted(Tail(waiting_buffer), Tail(counted), j)
                         /\ Tail(waiting_buffer)[j].key = waiting_buffer[1].key
    BY <1>1, <2>3, <2>7, CountedTail
  <2>9. /\ counted \in Seq(KeyRecord) /\ Len(counted) = Len(waiting_buffer)
        /\ counted # << >> /\ Tail(counted) \in Seq(KeyRecord)
        /\ Tail(waiting_buffer) \in Seq(KeyRecord)
    <3>1. counted \in Seq(KeyRecord) /\ Len(counted) = Len(waiting_buffer)
      BY <1>1, CountedType
    <3> HIDE DEF counted
    <3>2. counted # << >>
      BY <1>1, <2>3, <3>1, EmptySeq
    <3> QED
      BY <1>1, <2>3, <3>1, <3>2
  <2>10. /\ r \in KeyRecord /\ r.key = keyp.key /\ r.time = keyp.time
         /\ r.pressed /\ r.count = 1
    BY <1>1, CountType DEF KeyRecord
  <2>11. Taken(waiting_buffer, Tail(waiting_buffer), keyp)
    BY <2>3, <2>5 DEF Taken
  <2> DEFINE x == Tail(counted)
             v == Tail(waiting_buffer)
  <2>12. /\ x \in Seq(KeyRecord) /\ v \in Seq(KeyRecord)
         /\ Counted(v, x, j) /\ v[j].key = keyp.key /\ Taken(waiting_buffer, v, keyp)
    BY <2>5, <2>8, <2>9, <2>11
  <2>13. Queue' = x
    BY <2>4
  <2> HIDE DEF counted, r, x, v, ends
  <2>14. Accounted(s, waiting_buffer, matrix_prev, NoRecord, stays)
    BY <2>3
  <2>15. /\ Accounted(ProcessRecord(s, r).kb, x, matrix_prev, r, stays)
         /\ ProcessRecord(s, r).rec = r
    BY <1>1, <2>10, <2>12, <2>14, TapAhead
  <2> QED
    BY <2>1, <2>13, <2>15 DEF AccountedFor
<1> QED
  BY <1>2, <1>3

\* Another record is processed and consumed.
LEMMA ConsumedAccounted ==
  ASSUME PlainTaps, StateTypeOK, CallTypeOK, QueueInv, ProcessTapping, Called,
         ProcessAndConsume, NEW stays, Stays(stays), AccountedFor(stays),
         IS_NOEVENT(keyp) \/ (Pressed(tapping_key) => keyp.key # tapping_key.key)
  PROVE  Accounted(kb', Queue', matrix_prev, tapping_key, stays)
<1>1. /\ kb \in KeyboardState /\ tapping_key \in KeyRecord /\ keyp \in KeyRecord
      /\ kb' = ProcessRecord(kb, keyp).kb /\ Consumed(waiting_buffer)
  BY KeypType DEF StateTypeOK, ProcessAndConsume
<1>2. Queue \in Seq(KeyRecord) /\ Queue' \in Seq(KeyRecord)
  BY <1>1, ConsumedWaitingType, QueueType, QueueNextType
<1>3. Accounted(kb, Queue, matrix_prev, tapping_key, stays)
  BY DEF AccountedFor
<1>4. CASE IS_NOEVENT(keyp) /\ Queue' = Queue
  <2>1. ProcessRecord(kb, keyp).kb = kb
    BY <1>4 DEF ProcessRecord
  <2> QED
    BY <1>1, <1>3, <1>4, <2>1
<1>5. CASE Taken(Queue, Queue', keyp)
  <2>1. InTurn(Queue, matrix_prev)
    BY <1>3 DEF Accounted
  <2>2. ~IS_NOEVENT(keyp)
    BY <1>1, <1>2, <1>5, <2>1, TakenViews
  <2>3. Pressed(tapping_key) => keyp.key # tapping_key.key
    BY <2>2
  <2> QED
    BY <1>1, <1>2, <1>3, <1>5, <2>3, OtherProcessed
<1> QED
  BY <1>1, <1>4, <1>5, ConsumedTaken

\* A press is never one of the key whose release comes next.
LEMMA WatchedRests ==
  ASSUME StateTypeOK, CallTypeOK, QueueInv, ProcessTapping, Called, Consumed(waiting_buffer),
         NEW stays, AccountedFor(stays), Pressed(tapping_key), keyp.key = tapping_key.key
  PROVE  IS_NOEVENT(keyp) \/ ~keyp.pressed
<1>1. keyp \in KeyRecord /\ Queue \in Seq(KeyRecord) /\ Queue' \in Seq(KeyRecord)
  BY KeypType, ConsumedWaitingType, QueueType, QueueNextType
<1>2. InTurn(Queue, matrix_prev) /\ Comes(Queue, matrix_prev, keyp.key)
  BY DEF AccountedFor, Accounted, Watched
<1>3. CASE Taken(Queue, Queue', keyp)
  BY <1>1, <1>2, <1>3, TakenViews
<1> QED
  BY <1>3, ConsumedTaken

\* The first tap, and the first press of it held after all.
LEMMA FirstTapAccounted ==
  ASSUME PlainTaps, StateTypeOK, CallTypeOK, QueueInv, NewRecord, MissedAhead,
         NEW stays, Stays(stays), AccountedFor(stays), matrix_prev' = matrix_prev, FirstTap
  PROVE  AccountedFor(stays)'
<1> DEFINE t    == [tapping_key EXCEPT !.count = 1]
           down == ProcessRecord(kb, t)
           r    == [keyp EXCEPT !.count = down.rec.count,
                                !.interrupted = down.rec.interrupted]
<1>1. /\ Called /\ Undecided /\ EndsTap /\ keyp \in KeyRecord
      /\ kb \in KeyboardState /\ tapping_key \in KeyRecord
  BY KeypType DEF FirstTap, DecidingCall, StateTypeOK
<1>2. /\ Pressed(tapping_key) /\ tapping_key.count = 0 /\ tapping_key.pressed
      /\ keyp.key = tapping_key.key /\ ~keyp.pressed /\ tapping_key.key # NoKey
  BY <1>1 DEF Undecided, IS_TAPPING_PRESSED, IS_TAPPING, Pressed, EndsTap, IS_NOEVENT
<1>3. ~IS_NOEVENT(keyp)
  <2>1. CASE pc = "process"
    BY <1>2, <2>1 DEF keyp, NewRecord
  <2>2. CASE pc = "drain"
    <3>1. /\ waiting_buffer \in Seq(KeyRecord) /\ 1 \in DOMAIN waiting_buffer
          /\ keyp = waiting_buffer[1] /\ Queue = waiting_buffer
      BY <1>1, <2>2, KeypType, LenProperties DEF CallTypeOK, keyp, Queue, Handled
    <3>2. InTurn(waiting_buffer, matrix_prev)
      BY <3>1 DEF AccountedFor, Accounted
    <3>3. keyp.time # 0
      BY <3>1, <3>2 DEF InTurn
    <3> QED
      BY <1>2, <3>3 DEF IS_NOEVENT
  <2> QED
    BY <1>1, <2>1, <2>2 DEF Called
<1>4. pc = "process" => \A i \in DOMAIN waiting_buffer : waiting_buffer[i].key # keyp.key
  BY <1>1, <1>2, <1>3 DEF MissedAhead, Handled, keyp
<1>5. /\ t \in KeyRecord /\ t.key = tapping_key.key /\ t.time = tapping_key.time
      /\ t.pressed /\ t.count = 1
  BY <1>1, <1>2, CountType DEF KeyRecord
<1>6. kb' = down.kb /\ tapping_key' = down.rec /\ Kept(r)
  BY DEF FirstTap
<1> HIDE DEF t
<1>7. down.rec = t
  <2>1. ~IS_NOEVENT(t) /\ Plainly(kb)
    BY <1>2, <1>5 DEF Pressed, IS_NOEVENT, AccountedFor, Accounted
  <2> QED
    BY <1>1, <1>5, <2>1, ProcessRecordPlain
<1> HIDE DEF down
<1>8. /\ r \in KeyRecord /\ r.key = keyp.key /\ r.time = keyp.time /\ ~r.pressed /\ r.count > 0
  <2>1. down.rec \in KeyRecord /\ down.rec.count > 0
    BY <1>5, <1>7
  <2>2. r \in KeyRecord
    BY <1>1, <2>1 DEF KeyRecord
  <2>3. /\ r.key = keyp.key /\ r.time = keyp.time /\ r.pressed = keyp.pressed
        /\ r.count = down.rec.count
    BY <1>1 DEF KeyRecord
  <2> QED
    BY <1>2, <2>1, <2>2, <2>3
<1> HIDE DEF r
<1>9. PICK j \in Nat : Counted(Queue, Queue', j) /\ Queue[j].key = keyp.key
  BY <1>1, <1>2, <1>3, <1>4, <1>6, <1>8, KeptCounted
<1>10. Queue \in Seq(KeyRecord) /\ Queue' \in Seq(KeyRecord)
  BY <1>1, <1>6, <1>8, KeptType, QueueType, QueueNextType
<1>11. Accounted(kb, Queue, matrix_prev, tapping_key, stays)
  BY DEF AccountedFor
<1>12. Accounted(ProcessRecord(kb, t).kb, Queue', matrix_prev, t, stays)
  BY <1>1, <1>2, <1>5, <1>9, <1>10, <1>11, KeyTapped
<1> QED
  BY <1>6, <1>7, <1>12 DEF AccountedFor, down

\* Once the tap is over, or the tap key was forgotten, nothing is open.
LEMMA OverAccounted ==
  ASSUME PlainTaps, StateTypeOK, ~Pressed(tapping_key), NEW stays, Stays(stays),
         AccountedFor(stays)
  PROVE  Accounted(kb, Queue, matrix_prev, NoRecord, stays)
<1>1. SameWatch(tapping_key, NoRecord)
  BY DEF SameWatch, Pressed, IS_NOEVENT, NoRecord
<1> QED
  BY <1>1, SameWatchAccounted DEF AccountedFor

LEMMA ProcessTappingAccounted ==
  ASSUME PlainTaps, StateTypeOK, CallTypeOK, QueueInv, NewRecord, MissedAhead,
         TermInOrder, Tappable, NEW stays, Stays(stays), AccountedFor(stays),
         matrix_prev' = matrix_prev, ProcessTapping
  PROVE  AccountedFor(stays)'
<1>1. /\ tapping_key \in KeyRecord /\ kb \in KeyboardState
      /\ Accounted(kb, Queue, matrix_prev, tapping_key, stays)
  BY DEF StateTypeOK, AccountedFor
<1>2. Pressed(tapping_key) <=> IS_TAPPING_PRESSED
  BY DEF Pressed, IS_TAPPING_PRESSED, IS_TAPPING
<1>3. ASSUME Called, Kept(keyp), kb' = kb, SameWatch(tapping_key, tapping_key')
      PROVE  AccountedFor(stays)'
  BY <1>1, <1>3, KeptQueue, SameWatchAccounted DEF AccountedFor
<1>4. ASSUME Called, ProcessAndConsume, SameWatch(tapping_key, tapping_key'),
             Pressed(tapping_key) /\ keyp.key = tapping_key.key => IS_NOEVENT(keyp)
      PROVE  AccountedFor(stays)'
  BY <1>4, ConsumedAccounted, SameWatchAccounted DEF AccountedFor
<1>5. tapping_key' = tapping_key => SameWatch(tapping_key, tapping_key')
  BY DEF SameWatch
<1>6. CASE FirstTap
  BY <1>6, FirstTapAccounted
<1>7. CASE TypedInterference
  BY <1>7 DEF TypedInterference, Interferes, DecidingCall, Undecided, IS_TAPPING_PRESSED, Tappable
<1>8. CASE ReleaseOfEarlierModifier
  BY <1>3, <1>5, <1>8 DEF ReleaseOfEarlierModifier, DecidingCall
<1>9. CASE ReleaseOfEarlierKey
  <2>1. Called /\ ProcessAndConsume /\ tapping_key' = tapping_key /\ keyp.key # tapping_key.key
    BY <1>9 DEF ReleaseOfEarlierKey, DecidingCall, EndsTap, EarlierKey, IS_RELEASED
  <2> QED
    BY <1>4, <1>5, <2>1
<1>10. CASE WaitForDecision
  <2>1. /\ Called /\ Kept(keyp) /\ kb' = kb
        /\ tapping_key' = [tapping_key EXCEPT !.interrupted = @ \/ keyp.pressed]
    BY <1>10 DEF WaitForDecision, DecidingCall
  <2>2. SameWatch(tapping_key, tapping_key')
    BY <1>1, <2>1 DEF SameWatch, Pressed, IS_NOEVENT, KeyRecord
  <2> QED
    BY <1>3, <2>1, <2>2
<1>11. CASE TimeoutHold
  <2>1. /\ Called /\ Pressed(tapping_key) /\ tapping_key.count = 0 /\ Queue' = Queue
        /\ kb' = ProcessRecord(kb, tapping_key).kb /\ tapping_key' = NoRecord
    BY <1>2, <1>11, KeptQueue DEF TimeoutHold, Undecided
  <2>2. Accounted(ProcessRecord(kb, tapping_key).kb, Queue, matrix_prev, NoRecord, stays)
    BY <1>1, <2>1, QueueType, KeyHeld
  <2> QED
    BY <2>1, <2>2 DEF AccountedFor
<1>12. CASE TapRelease
  <2> DEFINE r  == [keyp EXCEPT !.count = tapping_key.count,
                                !.interrupted = tapping_key.interrupted]
             up == ProcessRecord(kb, r)
  <2>1. /\ Called /\ Pressed(tapping_key) /\ tapping_key.count > 0
        /\ keyp.key = tapping_key.key /\ ~keyp.pressed /\ Consumed(waiting_buffer)
        /\ kb' = up.kb
        /\ tapping_key' = IF Within(keyp, tapping_key) THEN up.rec ELSE NoRecord
    BY <1>2, <1>12 DEF TapRelease, DecidedCall, EndsTap
  <2>2. keyp \in KeyRecord /\ Queue \in Seq(KeyRecord) /\ Queue' \in Seq(KeyRecord)
    BY <2>1, KeypType, ConsumedWaitingType, QueueType, QueueNextType
  <2>3. /\ r \in KeyRecord /\ r.key = keyp.key /\ r.time = keyp.time /\ ~r.pressed
        /\ r.count = tapping_key.count
    BY <1>1, <2>1, <2>2 DEF KeyRecord
  <2> HIDE DEF r
  <2>4. ~Pressed(NoRecord) /\ ~Pressed(r)
    BY <2>3 DEF Pressed, NoRecord
  <2>5. CASE Taken(Queue, Queue', keyp)
    <3>1. up.rec = r
      BY <1>1, <2>1, <2>2, <2>3, <2>4, <2>5, TapOver
    <3>2. ~Pressed(tapping_key')
      BY <2>1, <2>4, <3>1
    <3>3. Accounted(ProcessRecord(kb, r).kb, Queue', matrix_prev, tapping_key', stays)
      BY <1>1, <2>1, <2>2, <2>3, <2>5, <3>2, TapOver
    <3> QED
      BY <2>1, <3>3 DEF AccountedFor
  <2>6. CASE IS_NOEVENT(keyp) /\ pc = "process"
    <3>1. keyp.key = NoKey
      BY <2>6 DEF NewRecord, keyp
    <3> QED
      BY <2>1, <3>1 DEF Pressed, IS_NOEVENT
  <2> QED
    BY <2>1, <2>5, <2>6, ConsumedTaken
<1>13. CASE NextTapKey
  <2> DEFINE r == [tapping_key EXCEPT !.time = keyp.time, !.pressed = FALSE]
             s == IF tapping_key.count > 1 THEN ProcessRecord(kb, r).kb ELSE kb
  <2>1. /\ Called /\ Pressed(tapping_key) /\ tapping_key.count > 0 /\ StartsTap
        /\ StartTapping(s)
    BY <1>2, <1>13 DEF NextTapKey, DecidedCall
  <2>2. ~Undecided /\ ~(Pressed(tapping_key) /\ tapping_key.count = 0)
    BY <1>1, <2>1, CountCases DEF Undecided
  <2>3. keyp \in KeyRecord /\ keyp.pressed /\ keyp.time \in Nat
    BY <2>1, KeypType DEF StartsTap, KeyRecord
  <2>4. keyp.time # 0
    <3>1. CASE pc = "process"
      BY <2>3, <3>1 DEF NewRecord, keyp, IS_NOEVENT
    <3>2. CASE pc = "drain"
      <4>1. /\ 1 \in DOMAIN waiting_buffer /\ keyp = waiting_buffer[1] /\ Queue = waiting_buffer
        BY <2>1, <3>2, KeypType, LenProperties DEF CallTypeOK, keyp, Queue, Handled
      <4> QED
        BY <1>1, <4>1 DEF Accounted, InTurn
    <3> QED
      BY <2>1, <3>1, <3>2 DEF Called
  <2>5. s = IF Pressed(tapping_key) /\ tapping_key.count > 1
            THEN ProcessRecord(kb, [tapping_key EXCEPT !.time = keyp.time, !.pressed = FALSE]).kb
            ELSE kb
    BY <2>1
  <2> HIDE DEF s, r
  <2>6. s \in KeyboardState /\ Accounted(s, Queue, matrix_prev, NoRecord, stays)
    BY <1>1, <2>2, <2>3, <2>4, <2>5, Forgotten
  <2> QED
    BY <2>1, <2>2, <2>6, StartTappingAccounted
<1>14. CASE OtherKeyWhileTapped
  <2>1. /\ Called /\ ProcessAndConsume /\ tapping_key' = tapping_key /\ ~EndsTap
        /\ Consumed(waiting_buffer)
    BY <1>14 DEF OtherKeyWhileTapped, DecidedCall, ProcessAndConsume
  <2>2. Pressed(tapping_key) /\ keyp.key = tapping_key.key => IS_NOEVENT(keyp)
    BY <2>1, WatchedRests DEF EndsTap
  <2> QED
    BY <1>4, <1>5, <2>1, <2>2
<1>15. CASE SequentialTap
  <2> DEFINE n == tapping_key.count
             c == IF n < MaxTapCount THEN n + 1 ELSE n
             r == [keyp EXCEPT !.count = c, !.interrupted = tapping_key.interrupted]
  <2>1. /\ Called /\ ~Pressed(tapping_key) /\ keyp.pressed /\ IS_TAPPING /\ n > 0
        /\ kb' = ProcessRecord(kb, r).kb /\ tapping_key' = ProcessRecord(kb, r).rec
        /\ Consumed(waiting_buffer)
    BY <1>2, <1>15 DEF SequentialTap, AfterTapCall, IS_TAPPING_RELEASED, IS_TAPPING_PRESSED,
       Sequential
  <2>2. keyp \in KeyRecord /\ Queue \in Seq(KeyRecord) /\ Queue' \in Seq(KeyRecord)
    BY <2>1, KeypType, ConsumedWaitingType, QueueType, QueueNextType
  <2>3. c \in 0 .. MaxTapCount /\ c > 1
    <3>1. n \in 0 .. MaxTapCount /\ MaxTapCount \in Nat /\ MaxTapCount > 1
      BY <1>1, <2>1, ActionAssumption DEF KeyRecord, Tappable
    <3> QED
      BY <2>1, <3>1
  <2> HIDE DEF c
  <2>4. /\ r \in KeyRecord /\ r.key = keyp.key /\ r.time = keyp.time /\ r.pressed /\ r.count > 1
    BY <1>1, <2>1, <2>2, <2>3 DEF KeyRecord
  <2> HIDE DEF r
  <2>5. Taken(Queue, Queue', keyp)
    BY <2>1, ConsumedTaken DEF NewRecord, keyp
  <2>6. Accounted(kb, Queue, matrix_prev, NoRecord, stays)
    BY <2>1, OverAccounted
  <2>7. /\ Accounted(ProcessRecord(kb, r).kb, Queue', matrix_prev, r, stays)
        /\ ProcessRecord(kb, r).rec = r
    BY <1>1, <2>1, <2>2, <2>4, <2>5, <2>6, TapAgain
  <2> QED
    BY <2>1, <2>7 DEF AccountedFor
<1>16. CASE NewTap
  <2>1. /\ Called /\ ~Pressed(tapping_key) /\ keyp.pressed /\ kb' = kb /\ tapping_key' = keyp
        /\ Consumed(waiting_buffer)
    BY <1>2, <1>16 DEF NewTap, AfterTapCall, IS_TAPPING_RELEASED, IS_TAPPING_PRESSED
  <2>2. keyp \in KeyRecord /\ Queue \in Seq(KeyRecord) /\ Queue' \in Seq(KeyRecord)
    BY <2>1, KeypType, ConsumedWaitingType, QueueType, QueueNextType
  <2>3. Taken(Queue, Queue', keyp)
    BY <2>1, ConsumedTaken DEF NewRecord, keyp
  <2>4. Accounted(kb, Queue, matrix_prev, NoRecord, stays)
    BY <2>1, OverAccounted
  <2>5. Accounted(kb, Queue', matrix_prev, keyp, stays)
    BY <1>1, <2>1, <2>2, <2>3, <2>4, NewTapKey
  <2> QED
    BY <2>1, <2>5 DEF AccountedFor
<1>17. CASE InterferingTap \/ StartTap
  <2>1. /\ Called /\ ~Pressed(tapping_key) /\ StartsTap /\ StartTapping(kb) /\ ~Undecided
    BY <1>2, <1>17 DEF InterferingTap, StartTap, AfterTapCall, IS_TAPPING_RELEASED,
       IS_TAPPING_PRESSED, Undecided
  <2>2. Accounted(kb, Queue, matrix_prev, NoRecord, stays)
    BY <2>1, OverAccounted
  <2> QED
    BY <1>1, <2>1, <2>2, StartTappingAccounted
<1>18. CASE OtherPressAfterTap
  <2>1. /\ Called /\ ~Pressed(tapping_key) /\ ProcessAndConsume
        /\ tapping_key' = [tapping_key EXCEPT !.interrupted = TRUE]
    BY <1>2, <1>18 DEF OtherPressAfterTap, AfterTapCall, IS_TAPPING_RELEASED, IS_TAPPING_PRESSED
  <2>2. SameWatch(tapping_key, tapping_key')
    BY <1>1, <2>1 DEF SameWatch, Pressed, IS_NOEVENT, KeyRecord
  <2> QED
    BY <1>4, <2>1, <2>2
<1>19. CASE OtherEventAfterTap
  BY <1>2, <1>4, <1>5, <1>19 DEF OtherEventAfterTap, AfterTapCall, IS_TAPPING_RELEASED,
     IS_TAPPING_PRESSED
<1>20. CASE TimeoutAfterTap
  <2>1. /\ Called /\ ~Pressed(tapping_key) /\ tapping_key' = NoRecord /\ kb' = kb /\ Kept(keyp)
    BY <1>2, <1>20 DEF TimeoutAfterTap, IS_TAPPING_RELEASED, IS_TAPPING_PRESSED
  <2>2. Accounted(kb, Queue, matrix_prev, NoRecord, stays) /\ Queue' = Queue
    BY <2>1, OverAccounted, KeptQueue
  <2> QED
    BY <2>1, <2>2 DEF AccountedFor
<1>21. CASE NoTap
  BY <1>2, <1>4, <1>5, <1>21 DEF NoTap, IS_TAPPING_PRESSED
<1> QED
  BY <1>6, <1>7, <1>8, <1>9, <1>10, <1>11, <1>12, <1>13, <1>14, <1>15, <1>16, <1>17,
     <1>18, <1>19, <1>20, <1>21 DEF ProcessTapping

LEMMA ProcessTappingEnds ==
  ASSUME StateTypeOK, CallTypeOK, ProcessTapping
  PROVE  pc' # "process" /\ Called
<1>1. ASSUME NEW buffer, Consumed(buffer), Called
      PROVE  pc' # "process"
  BY <1>1 DEF Consumed, Called
<1>2. ASSUME NEW r, Kept(r), Called
      PROVE  pc' # "process"
  BY <1>2 DEF Kept, Called
<1>3. ASSUME NEW s, StartTapping(s), Called
      PROVE  pc' # "process"
  <2>1. PICK buffer : Consumed(buffer)
    BY <1>3 DEF StartTapping
  <2> QED
    BY <1>1, <1>3, <2>1
<1>4. CASE FirstTap
  BY <1>2, <1>4 DEF FirstTap, DecidingCall
<1>5. CASE TypedInterference \/ ReleaseOfEarlierModifier \/ WaitForDecision
           \/ TimeoutHold \/ TimeoutAfterTap
  BY <1>2, <1>5, Zenon DEF TypedInterference, ReleaseOfEarlierModifier, WaitForDecision,
     TimeoutHold, TimeoutAfterTap, DecidingCall
<1>6. CASE ReleaseOfEarlierKey \/ OtherKeyWhileTapped \/ OtherPressAfterTap
           \/ OtherEventAfterTap \/ NoTap
  BY <1>1, <1>6, Zenon DEF ReleaseOfEarlierKey, OtherKeyWhileTapped, OtherPressAfterTap,
     OtherEventAfterTap, NoTap, DecidingCall, DecidedCall, AfterTapCall, ProcessAndConsume
<1>7. CASE TapRelease \/ SequentialTap \/ NewTap
  BY <1>1, <1>7, Zenon DEF TapRelease, SequentialTap, NewTap, DecidedCall, AfterTapCall
<1>8. CASE NextTapKey
  <2>1. PICK s : StartTapping(s) /\ Called
    BY <1>8 DEF NextTapKey, DecidedCall
  <2> QED
    BY <1>3, <2>1, <1>8 DEF NextTapKey, DecidedCall
<1>9. CASE InterferingTap \/ StartTap
  BY <1>3, <1>9, Zenon DEF InterferingTap, StartTap, AfterTapCall
<1> QED
  BY <1>4, <1>5, <1>6, <1>7, <1>8, <1>9 DEF ProcessTapping, FirstTap, TypedInterference,
     ReleaseOfEarlierModifier, WaitForDecision, TimeoutHold, TimeoutAfterTap, DecidingCall,
     ReleaseOfEarlierKey, OtherKeyWhileTapped, OtherPressAfterTap, OtherEventAfterTap, NoTap,
     DecidedCall, AfterTapCall, TapRelease, SequentialTap, NewTap, NextTapKey, InterferingTap,
     StartTap

-----------------------------------------------------------------------------
(* The main loop keeps account, and every key is found in its place.       *)

TapsInv(stays) == AccountedFor(stays) /\ MissedAhead /\ NewRecord

LEMMA InitTaps ==
  ASSUME NEW stays
  PROVE  Init => TapsInv(stays)
<1> SUFFICES ASSUME Init
             PROVE  TapsInv(stays)
    OBVIOUS
<1>1. pc = "idle" /\ Queue = << >> /\ ~Pressed(tapping_key)
  BY DEF Init, TappingInit, Queue, Handled, Pressed, NoRecord
<1>2. /\ kb.keys = {} /\ kb.real_mods = {} /\ kb.weak_mods = {} /\ kb.layer_state = {}
      /\ kb.report.mods = {} /\ kb.report.keys = {}
      /\ kb.oneshot_mods = {} /\ kb.oneshot_state = {}
  BY DEF Init, TappingInit, InitialKeyboardState
<1>3. InTurn(Queue, matrix_prev) /\ Watched(Queue, matrix_prev, tapping_key)
  BY <1>1 DEF InTurn, Watched
<1>4. Plainly(kb)
  BY <1>2 DEF Plainly
<1>5. ASSUME NEW held, NEW how
      PROVE  Owned(kb, held, how, stays)
  BY <1>2 DEF Owned
<1> QED
  BY <1>1, <1>3, <1>4, <1>5 DEF TapsInv, AccountedFor, Accounted, MissedAhead, NewRecord, Handled

\* An overflow takes everything off the keys but the layers.
LEMMA OverflowAccounted ==
  ASSUME StateTypeOK, NEW stays, Layers \subseteq stays, AccountedFor(stays), Overflow,
         matrix_prev' = matrix_prev
  PROVE  AccountedFor(stays)'
<1> DEFINE bare == [kb EXCEPT !.real_mods = {}, !.keys = {}]
           s    == [bare EXCEPT !.weak_mods = {}]
<1>1. Queue' = << >> /\ tapping_key' = NoRecord /\ kb' = SendKeyboardReport(s)
  BY DEF Overflow, Queue, Handled, ClearKeyboard, ClearKeyboardButModsAndKeys
<1>2. Plainly(kb) /\ kb \in KeyboardState
  BY DEF AccountedFor, Accounted, StateTypeOK
<1>3. bare \in KeyboardState /\ bare.oneshot_mods = {} /\ bare.oneshot_state = {}
      /\ bare.keys = {} /\ bare.real_mods = {}
  BY <1>2 DEF KeyboardState, Plainly
<1> HIDE DEF bare
<1>4. /\ s \in KeyboardState /\ s.oneshot_mods = {} /\ s.oneshot_state = {}
      /\ s.keys = {} /\ s.real_mods = {} /\ s.weak_mods = {}
  BY <1>3 DEF KeyboardState
<1> HIDE DEF s
<1>5. /\ kb' \in KeyboardState /\ Plainly(kb')
      /\ kb'.keys = {} /\ kb'.real_mods = {} /\ kb'.weak_mods = {} /\ kb'.report.mods = {}
  BY <1>1, <1>4, SentFields DEF Plainly, Rest
<1>6. kb'.layer_state \ stays = {}
  BY <1>5 DEF KeyboardState
<1>7. ASSUME NEW held, NEW how
      PROVE  Owned(kb', held, how, stays)
  BY <1>5, <1>6 DEF Owned
<1>8. InTurn(Queue', matrix_prev) /\ Watched(Queue', matrix_prev, tapping_key')
  BY <1>1 DEF InTurn, Watched, Pressed, NoRecord
<1> QED
  BY <1>5, <1>7, <1>8 DEF AccountedFor, Accounted

\* A scan hands on the next event of a key.
LEMMA ScanKeyTaps ==
  ASSUME TypeOK, MissedRests, NEW stays, TapsInv(stays), NEW d \in TimeSteps, ScanKey(d)
  PROVE  TapsInv(stays)'
<1>1. /\ ~Handled /\ Handled' /\ RecordAsScanned'
      /\ DownBefore' = matrix_prev
      /\ record'.key \in Changed /\ matrix_prev' \ {record'.key} = matrix_prev \ {record'.key}
  BY ScannedKey
<1>2. /\ pc = "idle" /\ pc' = "process" /\ kb' = kb
      /\ waiting_buffer' = waiting_buffer /\ tapping_key' = tapping_key
  BY DEF ScanKey, ActionExec
<1>3. TypeOK'
  BY NextType DEF Next, KeyboardTask
<1>4. record' \in KeyRecord /\ waiting_buffer \in Seq(KeyRecord) /\ tapping_key \in KeyRecord
      /\ kb \in KeyboardState
  BY <1>3 DEF TypeOK, TappingTypeOK
<1>5. record'.count = 0
  <2>1. record' = KeyEvent(Min(Changed), timer')
    BY DEF ScanKey, ActionExec
  <2> QED
    BY <2>1 DEF KeyEvent, NoRecord
<1>6. record'.key \in Keys /\ record'.time # 0 /\ ~IS_NOEVENT(record')
  BY <1>1 DEF RecordAsScanned, Handled, IS_NOEVENT
<1>7. Queue = waiting_buffer /\ Queue' = Append(waiting_buffer, record')
  BY <1>1, <1>2 DEF Queue
<1>8. /\ (record'.key \in matrix_prev) = ~record'.pressed
      /\ (record'.key \in matrix_prev') = record'.pressed
      /\ \A k \in Keys \ {record'.key} : (k \in matrix_prev') = (k \in matrix_prev)
  <2>1. record'.pressed \in BOOLEAN
    BY <1>4 DEF KeyRecord
  <2>2. record'.pressed = (record'.key \in matrix_prev')
    BY <1>1 DEF RecordAsScanned
  <2>3. CASE record'.pressed
    <3>1. matrix_prev = matrix_prev' \ {record'.key}
      BY <1>1, <2>3 DEF DownBefore
    <3> QED
      BY <1>1, <2>2, <2>3, <3>1
  <2>4. CASE ~record'.pressed
    <3>1. matrix_prev = matrix_prev' \cup {record'.key}
      BY <1>1, <2>4 DEF DownBefore
    <3> QED
      BY <1>1, <2>2, <2>4, <3>1
  <2> QED
    BY <2>1, <2>3, <2>4
<1>9. Accounted(kb, waiting_buffer, matrix_prev, tapping_key, stays)
  BY <1>7 DEF TapsInv, AccountedFor
<1>10. Accounted(kb, Append(waiting_buffer, record'), matrix_prev', tapping_key, stays)
  BY <1>4, <1>5, <1>6, <1>8, <1>9, ScannedAccounted
<1>11. MissedAhead'
  <2>1. Undecided' = Undecided
    BY <1>2 DEF Undecided, IS_TAPPING_PRESSED, IS_TAPPING
  <2> QED
    BY <1>1, <1>2, <2>1 DEF MissedAhead, MissedRests
<1> QED
  BY <1>2, <1>5, <1>6, <1>7, <1>10, <1>11 DEF TapsInv, AccountedFor, NewRecord

LEMMA NextTaps ==
  ASSUME PlainTaps, NEW stays, Stays(stays)
  PROVE  /\ TypeOK /\ OrderInv /\ TapsInv(stays)
         /\ MissedRests /\ TermInOrder /\ Tappable /\ (Layers \subseteq stays \/ RoomLeft)
         /\ [Next]_vars
         => TapsInv(stays)'
<1> SUFFICES ASSUME TypeOK, OrderInv, TapsInv(stays), MissedRests, TermInOrder, Tappable,
                    Layers \subseteq stays \/ RoomLeft, [Next]_vars
             PROVE  TapsInv(stays)'
    OBVIOUS
<1>1. ASSUME UNCHANGED <<kb, tapping_key, matrix_prev>>, Queue' = Queue, pc' # "process"
      PROVE  TapsInv(stays)'
  BY <1>1 DEF TapsInv, AccountedFor, MissedAhead, NewRecord
<1>2. ASSUME NEW k \in Keys, KeyMoves(k)
      PROVE  TapsInv(stays)'
  BY <1>1, <1>2 DEF KeyMoves, tappingVars, Queue, Handled
<1>3. ASSUME NEW d \in TimeSteps, ScanKey(d)
      PROVE  TapsInv(stays)'
  BY <1>3, ScanKeyTaps
<1>4. ASSUME NEW d \in TimeSteps, ScanNothing(d)
      PROVE  TapsInv(stays)'
  <2>1. /\ UNCHANGED <<kb, tapping_key, waiting_buffer, matrix_prev>> /\ ~Handled
        /\ record' = Tick(timer')
    BY <1>4 DEF ScanNothing, ActionExec, Handled
  <2>2. record'.key = NoKey /\ record'.count = 0 /\ ~record'.pressed
    BY <2>1 DEF Tick, NoRecord
  <2>3. ~Handled' /\ Queue' = Queue
    BY <2>1, <2>2 DEF Queue, Handled, IS_NOEVENT
  <2> QED
    BY <2>1, <2>2, <2>3 DEF TapsInv, AccountedFor, MissedAhead, NewRecord
<1>5. CASE Tapping
  <2>1. StateTypeOK /\ CallTypeOK /\ QueueInv /\ matrix_prev' = matrix_prev
    BY <1>5, TypeParts, OrderParts DEF TypeOK, Tapping
  <2>2. CASE ProcessTapping
    <3>1. AccountedFor(stays)'
      BY <2>1, <2>2, ProcessTappingAccounted DEF TapsInv
    <3>2. pc' # "process"
      BY <2>1, <2>2, ProcessTappingEnds
    <3> QED
      BY <3>1, <3>2 DEF TapsInv, MissedAhead, NewRecord
  <2>3. CASE Enqueue
    BY <1>1, <1>5, <2>3 DEF Enqueue, Tapping, Queue, Handled
  <2>4. CASE Overflow
    <3>1. Layers \subseteq stays
      BY <2>4 DEF Overflow, RoomLeft, BufferFull
    <3>2. AccountedFor(stays)' /\ pc' # "process"
      BY <2>1, <2>4, <3>1, OverflowAccounted DEF TapsInv, Overflow
    <3> QED
      BY <3>2 DEF TapsInv, MissedAhead, NewRecord
  <2>5. CASE DrainEnd
    BY <1>1, <1>5, <2>5 DEF DrainEnd, Tapping, Queue, Handled
  <2> QED
    BY <1>5, <2>2, <2>3, <2>4, <2>5 DEF Tapping, TappingStep
<1>6. CASE UNCHANGED vars
  BY <1>6 DEF vars, TapsInv, AccountedFor, Queue, Handled, MissedAhead, NewRecord, Undecided,
     IS_TAPPING_PRESSED, IS_TAPPING
<1> QED
  BY <1>2, <1>3, <1>4, <1>5, <1>6 DEF Next, KeyboardTask

\* Between two calls, a key whose release comes next is down.
LEMMA DueIsDown ==
  ASSUME TypeOK, pc = "idle", NEW k \in Due(Queue, matrix_prev, tapping_key)
  PROVE  Down(k)
<1>1. Queue = waiting_buffer /\ waiting_buffer \in Seq(KeyRecord)
  BY DEF Queue, Handled, TypeOK, TappingTypeOK
<1>2. Comes(waiting_buffer, matrix_prev, k)
  BY <1>1 DEF Due
<1>3. CASE \A i \in DOMAIN waiting_buffer : waiting_buffer[i].key # k
  BY <1>2, <1>3 DEF Comes, Down
<1>4. CASE \E i \in DOMAIN waiting_buffer : waiting_buffer[i].key = k
  <2> PICK S : S = {i \in DOMAIN waiting_buffer : waiting_buffer[i].key = k}
    OBVIOUS
  <2> PICK f : f = Min(S)
    OBVIOUS
  <2>1. S \subseteq Nat /\ S # {}
    <3>1. DOMAIN waiting_buffer = 1 .. Len(waiting_buffer)
      BY <1>1, LenProperties
    <3> QED
      BY <1>4, <3>1
  <2>2. f \in S /\ \A x \in S : f =< x
    BY <2>1, LeastOf
  <2>3. FirstOf(waiting_buffer, f)
    <3>1. ASSUME NEW j \in DOMAIN waiting_buffer, j < f
          PROVE  waiting_buffer[j].key # waiting_buffer[f].key
      <4>1. j \notin S
        <5>1. j \in S => f =< j /\ j \in Nat /\ f \in Nat
          BY <2>1, <2>2
        <5> QED
          BY <3>1, <5>1
      <4> QED
        BY <2>2, <3>1, <4>1
    <3> QED
      BY <3>1 DEF FirstOf
  <2> QED
    BY <1>2, <2>2, <2>3 DEF Comes, Down
<1> QED
  BY <1>3, <1>4

LEMMA OwnedKeys ==
  ASSUME TypeOK, NEW stays, TapsInv(stays)
  PROVE  NoOrphan
<1> SUFFICES ASSUME pc = "idle"
             PROVE  NoOrphan
    BY DEF NoOrphan, NoOrphanKey, NoOrphanMod
<1> PICK held, how : held = Due(Queue, matrix_prev, tapping_key) /\ how = How(Queue, tapping_key)
  OBVIOUS
<1>1. Owned(kb, held, how, stays)
  BY DEF TapsInv, AccountedFor, Accounted
<1>2. \A k \in held : k \in Keys /\ Down(k)
  BY DueIsDown DEF Due
<1>3. NoOrphanKey
  BY <1>1, <1>2 DEF NoOrphanKey, Owned, KeyOf
<1>4. ASSUME NEW m \in kb.real_mods
      PROVE  \E k \in Keys :
               Down(k) /\ m \in CachedAction(kb, k).mods \cup {CachedAction(kb, k).code}
  <2>1. PICK k \in held : m \in RealMods(CachedAction(kb, k), how[k])
    BY <1>1 DEF Owned
  <2>2. m \in CachedAction(kb, k).mods \cup {CachedAction(kb, k).code}
    BY <2>1 DEF RealMods
  <2> QED
    BY <1>2, <2>2
<1> QED
  BY <1>3, <1>4 DEF NoOrphan, NoOrphanMod

LEMMA OwnedLayers ==
  ASSUME TypeOK, TapsInv(Lasting)
  PROVE  NoOrphanLayer
<1> SUFFICES ASSUME pc = "idle", NEW l \in kb.layer_state \ (PendingOneshot \cup Lasting)
             PROVE  \E k \in Keys : Down(k) /\ l \in CachedAction(kb, k).layers
    BY DEF NoOrphanLayer
<1> PICK held, how : held = Due(Queue, matrix_prev, tapping_key) /\ how = How(Queue, tapping_key)
  OBVIOUS
<1>1. Owned(kb, held, how, Lasting)
  BY DEF TapsInv, AccountedFor, Accounted
<1>2. PICK k \in held : l \in LayersOf(CachedAction(kb, k), how[k])
  BY <1>1 DEF Owned
<1>3. k \in Keys /\ Down(k)
  BY DueIsDown DEF Due
<1> QED
  BY <1>2, <1>3 DEF LayersOf

LEMMA OwnedNothing ==
  ASSUME NEW stays, TapsInv(stays)
  PROVE  NothingStuck
<1> SUFFICES ASSUME Quiescent
             PROVE  kb.report.keys = {} /\ kb.report.mods = {} /\ kb.real_mods = {}
    BY DEF NothingStuck
<1>1. Queue = << >> /\ matrix_prev = {}
  BY DEF Quiescent, Queue, Handled
<1>2. Due(Queue, matrix_prev, tapping_key) = {}
  BY <1>1 DEF Due, Comes
<1>3. Plainly(kb) /\ Owned(kb, {}, How(Queue, tapping_key), stays)
  BY <1>2 DEF TapsInv, AccountedFor, Accounted
<1> QED
  BY <1>3 DEF Plainly, Owned

LEMMA AllLayersStay == Stays(Layers)
<1>1. Lasting \subseteq Layers
  BY DEF Lasting
<1> QED
  BY <1>1 DEF Stays

LEMMA TapsInvariance ==
  ASSUME PlainTaps
  PROVE  Spec /\ []StrandedRests /\ []MissedRests /\ []TermInOrder /\ []Tappable
         => [](TypeOK /\ TapsInv(Layers))
<1>1. Init => TypeOK /\ OrderInv /\ TapsInv(Layers)
  BY InitType, InitOrder, InitTaps
<1>2. (TypeOK /\ OrderInv /\ TapsInv(Layers)) /\ StrandedRests /\ MissedRests /\ TermInOrder
        /\ Tappable /\ [Next]_vars
        => (TypeOK /\ OrderInv /\ TapsInv(Layers))'
  BY AllLayersStay, NextType, NextOrder, NextTaps
<1> QED
  BY <1>1, <1>2, PTL DEF Spec

\* With tap keys, too, a key or a modifier that is on belongs to a key that
\* is down and was pressed with that action (NoOrphan): however taps and
\* holds are told apart, whatever waits meanwhile and however often a key is
\* tapped.  Keys with stranded or missed records rest (StrandedRests,
\* MissedRests), and no record waits for a turn of the timer (TermInOrder).
THEOREM TapsLeaveNoOrphan ==
  ASSUME PlainTaps, ~PermissiveHold, MaxTapCount > 1
  PROVE  Spec /\ []StrandedRests /\ []MissedRests /\ []TermInOrder => []NoOrphan
<1>1. Tappable
  BY DEF Tappable
<1>2. TypeOK /\ TapsInv(Layers) => NoOrphan
  BY OwnedKeys
<1> QED
  BY <1>1, <1>2, TapsInvariance, PTL

\* When all keys are up, the last report the host was sent holds no key and
\* no modifier (NothingStuck), on the same terms.
THEOREM TapsLeaveNothingStuck ==
  ASSUME PlainTaps, ~PermissiveHold, MaxTapCount > 1
  PROVE  Spec /\ []StrandedRests /\ []MissedRests /\ []TermInOrder => []NothingStuck
<1>1. Tappable
  BY DEF Tappable
<1>2. TapsInv(Layers) => NothingStuck
  BY OwnedNothing
<1> QED
  BY <1>1, <1>2, TapsInvariance, PTL

\* Nor does a layer stay on (NothingOrphaned), as long as the waiting buffer
\* does not overflow (RoomLeft): an overflow leaves the layers as they are.
THEOREM TapsLeaveNoLayer ==
  ASSUME PlainTaps, NoLayerStays, ~PermissiveHold, MaxTapCount > 1
  PROVE  Spec /\ []StrandedRests /\ []MissedRests /\ []TermInOrder /\ []RoomLeft
         => []NothingOrphaned
<1>1. Tappable /\ Stays(Lasting)
  BY DEF Tappable, Stays
<1>2. Init => TypeOK /\ OrderInv /\ TapsInv(Lasting)
  BY InitType, InitOrder, InitTaps
<1>3. (TypeOK /\ OrderInv /\ TapsInv(Lasting)) /\ StrandedRests /\ MissedRests /\ TermInOrder
        /\ RoomLeft /\ [Next]_vars
        => (TypeOK /\ OrderInv /\ TapsInv(Lasting))'
  BY <1>1, NextType, NextOrder, NextTaps
<1>4. TypeOK /\ TapsInv(Lasting) => NothingOrphaned
  BY OwnedKeys, OwnedLayers DEF NothingOrphaned
<1> QED
  BY <1>2, <1>3, <1>4, PTL DEF Spec

-----------------------------------------------------------------------------
(* A keymap without tap keys needs none of that.                           *)

NothingWaits == ~IS_TAPPING /\ waiting_buffer = << >> /\ pc # "enqueue"

LEMMA NoTapKeysPlain ==
  ASSUME TapKeys = {}
  PROVE  PlainTaps
<1>1. \A k \in Keys, l \in Layers : ~IsTapAction(Keymap[l][k])
  BY DEF TapKeys
<1> QED
  BY <1>1 DEF IsTapAction, PlainTaps, NoOneshotLayer, PlainModTaps, NeverCancelled

\* process_tapping with nothing to watch: the record is processed.
LEMMA UntappedStep ==
  ASSUME TapKeys = {}, TypeOK, NothingWaits, ProcessTapping
  PROVE  NothingWaits'
<1>1. kb \in KeyboardState /\ record \in KeyRecord
  BY DEF TypeOK, TappingTypeOK
<1>2. ~IS_TAPPING_PRESSED /\ ~IS_TAPPING_RELEASED
  BY DEF NothingWaits, IS_TAPPING_PRESSED, IS_TAPPING_RELEASED
<1>3. NoTap \/ StartTap
  BY <1>2 DEF ProcessTapping, FirstTap, TypedInterference, ReleaseOfEarlierModifier,
     ReleaseOfEarlierKey, WaitForDecision, TimeoutHold, TapRelease, NextTapKey,
     OtherKeyWhileTapped, SequentialTap, NewTap, InterferingTap, OtherPressAfterTap,
     OtherEventAfterTap, TimeoutAfterTap, DecidingCall, DecidedCall, AfterTapCall, Undecided
<1>4. pc = "process" /\ keyp = record
  BY <1>3 DEF NoTap, StartTap, Called, keyp, NothingWaits
<1>5. ~StartsTap
  <2> SUFFICES ASSUME record.key # NoKey
               PROVE  ~IsTapAction(LayerSwitchGetAction(kb, record.key))
      BY <1>4 DEF StartsTap, IsTapKey
  <2>1. record.key \in Keys
    BY <1>1 DEF KeyRecord
  <2>2. LayerSwitchGetLayer(kb, record.key) \in Layers
    BY <1>1, <2>1, LayerOfKeyType
  <2> QED
    BY <2>1, <2>2 DEF TapKeys, LayerSwitchGetAction
<1> QED
  BY <1>3, <1>4, <1>5 DEF NoTap, StartTap, ProcessAndConsume, Consumed, NothingWaits, IS_TAPPING

LEMMA NextUntapped ==
  ASSUME TapKeys = {}
  PROVE  TypeOK /\ NothingWaits /\ [Next]_vars => NothingWaits'
<1> SUFFICES ASSUME TypeOK, NothingWaits, [Next]_vars
             PROVE  NothingWaits'
    OBVIOUS
<1>1. CASE ProcessTapping
  BY <1>1, UntappedStep
<1>2. ASSUME UNCHANGED <<tapping_key, waiting_buffer>>, pc' # "enqueue"
      PROVE  NothingWaits'
  BY <1>2 DEF NothingWaits, IS_TAPPING
<1>3. CASE ~ProcessTapping
  BY <1>2, <1>3 DEF Next, KeyMoves, tappingVars, KeyboardTask, ScanKey, ScanNothing, ActionExec,
     Tapping, TappingStep, Enqueue, Overflow, DrainEnd, vars, NothingWaits
<1> QED
  BY <1>1, <1>3

LEMMA UntappedInvariance ==
  ASSUME TapKeys = {}
  PROVE  Spec => [](TypeOK /\ OrderInv /\ NothingWaits)
<1>1. Init => TypeOK /\ OrderInv /\ NothingWaits
  <2>1. Init => NothingWaits
    BY DEF Init, TappingInit, NothingWaits, IS_TAPPING, IS_NOEVENT, NoRecord
  <2> QED
    BY <2>1, InitType, InitOrder
<1>2. (TypeOK /\ OrderInv /\ NothingWaits) /\ [Next]_vars => (TypeOK /\ OrderInv /\ NothingWaits)'
  <2>1. NothingWaits => StrandedRests
    BY DEF NothingWaits, StrandedRests
  <2> QED
    BY <2>1, NextType, NextOrder, NextUntapped
<1> QED
  BY <1>1, <1>2, PTL DEF Spec

LEMMA NextUntappedTaps ==
  ASSUME TapKeys = {}, NEW stays, Stays(stays)
  PROVE  (TypeOK /\ OrderInv /\ NothingWaits) /\ TapsInv(stays) /\ [Next]_vars => TapsInv(stays)'
<1>1. NothingWaits => MissedRests /\ TermInOrder /\ Tappable /\ RoomLeft
  BY DEF NothingWaits, MissedRests, TermInOrder, Tappable, RoomLeft
<1> QED
  BY <1>1, NoTapKeysPlain, NextTaps

\* In a keymap without tap keys, a key, a modifier or a layer that is on
\* belongs to a key that is down and was pressed with that action
\* (NothingOrphaned): whatever layers go on and off between a press and its
\* release, in whatever order and at whatever pace keys move.
THEOREM ReleaseUndoesPress ==
  ASSUME TapKeys = {}, NoLayerStays
  PROVE  Spec => []NothingOrphaned
<1>1. Init => TapsInv(Lasting)
  BY InitTaps
<1>2. (TypeOK /\ OrderInv /\ NothingWaits) /\ TapsInv(Lasting) /\ [Next]_vars => TapsInv(Lasting)'
  BY NextUntappedTaps DEF Stays
<1>3. TypeOK /\ TapsInv(Lasting) => NothingOrphaned
  BY OwnedKeys, OwnedLayers DEF NothingOrphaned
<1> QED
  BY <1>1, <1>2, <1>3, UntappedInvariance, PTL DEF Spec

\* And when all keys are up, the last report the host was sent holds no key
\* and no modifier (NothingStuck), whatever was typed before.
THEOREM HostSeesAllKeysUp ==
  ASSUME TapKeys = {}
  PROVE  Spec => []NothingStuck
<1>1. Init => TapsInv(Layers)
  BY InitTaps
<1>2. (TypeOK /\ OrderInv /\ NothingWaits) /\ TapsInv(Layers) /\ [Next]_vars => TapsInv(Layers)'
  BY AllLayersStay, NextUntappedTaps
<1>3. TapsInv(Layers) => NothingStuck
  BY OwnedNothing
<1> QED
  BY <1>1, <1>2, <1>3, UntappedInvariance, PTL DEF Spec
=============================================================================
