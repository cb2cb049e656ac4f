----------------------------- MODULE Processing -----------------------------
(***************************************************************************)
(* What the key processing features of quantum/process_keycode have in    *)
(* common: each takes a keycode and its record, changes the state of the  *)
(* firmware, and returns whether the next one shall see the key.           *)
(*                                                                         *)
(* The state is one record, as a replayed macro runs the whole chain of   *)
(* features within one of them: kb is the state of Action, the other      *)
(* fields belong to the feature they are named for, now is timer_read().  *)
(*                                                                         *)
(* spent is no state of the code: the codes of keys that were dealt with  *)
(* since the scan began, in their order, be they typed, merged into a     *)
(* combo or swallowed for good.                                            *)
(***************************************************************************)
EXTENDS Action, Timer, Sequences, SequencesExt

CONSTANTS Keycode,         \* keymap_key_to_keycode; Keymap holds the actions
          TimerMax,        \* UINT16_MAX
          TAPPING_TERM

ASSUME ProcessingAssumption ==
  /\ DOMAIN Keycode = Layers /\ \A l \in Layers : DOMAIN Keycode[l] = Keys
  /\ TimerMax \in Nat /\ TAPPING_TERM \in Nat

\* IS_STANDARD_KEYCODE: the keycodes below 0x100.
Standard(kc) == kc \in KeyCodes

Passed(q)    == [q |-> q, pass |-> TRUE]
Swallowed(q) == [q |-> q, pass |-> FALSE]

Elapsed(q, since) == TIMER_DIFF(q.now, since, TimerMax)

Spend(q, codes) == [q EXCEPT !.spent = @ \o SelectSeq(codes, LAMBDA c : c \in Codes)]

\* register_code16 and unregister_code16 for codes without modifiers.
Register(q, c)   == [q EXCEPT !.kb = RegisterCode(@, c)]
Unregister(q, c) == [q EXCEPT !.kb = UnregisterCode(@, c)]
Tap(q, c)        == Unregister(Register(q, c), c)
=============================================================================
