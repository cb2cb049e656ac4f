---------------------------- MODULE DynamicMacro ----------------------------
(***************************************************************************)
(* Macros recorded while typing (quantum/dynamic_macro.h).  Two slots     *)
(* share one buffer: the first grows from its start, the second from its  *)
(* end.                                                                    *)
(*                                                                         *)
(* PLAY keys are never recorded, so playing a macro does not play another *)
(* one, as long as such a key is one on every layer.                      *)
(***************************************************************************)
EXTENDS Processing

CONSTANT DYNAMIC_MACRO_SIZE

ASSUME DynamicMacroAssumption == DYNAMIC_MACRO_SIZE \in Nat \ {0}

Slots     == {1, 2}
Direction == [slot \in Slots |-> IF slot = 1 THEN 1 ELSE 0 - 1]
Begin     == [slot \in Slots |-> IF slot = 1 THEN 1 ELSE DYNAMIC_MACRO_SIZE]
Other     == [slot \in Slots |-> 3 - slot]

RecStart == [DYN_REC_START1  |-> 1, DYN_REC_START2  |-> 2]
Play     == [DYN_MACRO_PLAY1 |-> 1, DYN_MACRO_PLAY2 |-> 2]

\* id is the slot that is recorded into, or 0; end the place after the last
\* record of each slot.
MacroInit == [buffer |-> [i \in 1 .. DYNAMIC_MACRO_SIZE |-> NoRecord], end |-> Begin,
              pointer |-> 0, id |-> 0]

LayerClear(s) == LayerStateSet(s, {})

record_start(q, slot) ==
  [q EXCEPT !.kb = LayerClear(ClearKeyboard(@)), !.macro.pointer = Begin[slot], !.macro.id = slot]

\* Seeded fault: the last place before the other macro is taken twice.
HasRoomOver(m) == m.pointer # m.end[Other[m.id]] + Direction[m.id] * 2 /\ m.pointer \in DOMAIN m.buffer

HasRoom(m) == m.pointer - Direction[m.id] # m.end[Other[m.id]]

record_key(m, r) ==
  IF (~r.pressed /\ m.pointer = Begin[m.id]) \/ ~HasRoom(m) THEN m
  ELSE [m EXCEPT !.buffer[m.pointer] = r, !.pointer = @ + Direction[m.id]]

\* The records of a slot up to a place, in the order they were recorded.
Records(m, slot, end) ==
  [i \in 1 .. Direction[slot] * (end - Begin[slot]) |->
     m.buffer[Begin[slot] + Direction[slot] * (i - 1)]]

\* Keys that are still held are not kept: the macro ends with a release.
record_end(m) ==
  LET made     == Records(m, m.id, m.pointer)
      releases == {i \in DOMAIN made : ~made[i].pressed}
      length   == IF releases = {} THEN 0 ELSE Max(releases)
  IN  [m EXCEPT !.end[m.id] = Begin[m.id] + Direction[m.id] * length, !.id = 0]

\* dynamic_macro_play before and after the records are processed.
play_begin(q)        == [q EXCEPT !.kb = LayerClear(ClearKeyboard(@))]
play_end(q, started) == [q EXCEPT !.kb = [ClearKeyboard(@) EXCEPT !.layer_state = started.kb.layer_state]]

Plays(q, kc, r) == q.macro.id = 0 /\ ~r.pressed /\ kc \in DOMAIN Play

\* process_record_dynamic_macro; Quantum plays the macro where Plays holds, as
\* that processes records.
WhenIdle(q, kc, r) ==
  CASE ~r.pressed /\ kc \in DOMAIN RecStart -> Swallowed(record_start(q, RecStart[kc]))
    [] Plays(q, kc, r)                      -> Swallowed(q)
    [] OTHER                                -> Passed(q)

WhenRecording(q, kc, r) ==
  CASE kc = "DYN_REC_STOP" -> Swallowed(IF r.pressed THEN [q EXCEPT !.macro = record_end(@)] ELSE q)
    [] kc \in DOMAIN Play  -> Swallowed(q)
    [] OTHER               -> Passed([q EXCEPT !.macro = record_key(@, r)])

process_record_dynamic_macro(q, kc, r) ==
  IF q.macro.id = 0 THEN WhenIdle(q, kc, r) ELSE WhenRecording(q, kc, r)
=============================================================================
