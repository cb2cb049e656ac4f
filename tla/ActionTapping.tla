--------------------------- MODULE ActionTapping ---------------------------
(***************************************************************************)
(* Telling taps from holds (tmk_core/common/action_tapping.c).            *)
(*                                                                         *)
(* action_tapping_process runs process_tapping on the new record, puts    *)
(* the record in the waiting buffer when it is not consumed, and then     *)
(* runs process_tapping on the buffer from its tail for as long as the    *)
(* records are consumed.  Each call of process_tapping is one step, and   *)
(* each of its branches an action; pc says where the function is:         *)
(*    "idle"     not running                                              *)
(*    "process"  process_tapping(&record) comes next                      *)
(*    "enqueue"  it returned false: waiting_buffer_enq(record) comes next *)
(*    "drain"    the loop over the waiting buffer                         *)
(* The buffer's head and tail indices are a sequence; one of the          *)
(* WAITING_BUFFER_SIZE slots of the ring is never used.                   *)
(***************************************************************************)
EXTENDS Action, Sequences, Timer

CONSTANTS TappingTerm,           \* TAPPING_TERM, in timer ticks
          TimerMax,              \* UINT16_MAX
          WaitingBufferSize,     \* WAITING_BUFFER_SIZE
          PermissiveHold,        \* PERMISSIVE_HOLD defined or TAPPING_TERM >= 500
          TappingForceHold       \* TAPPING_FORCE_HOLD is defined

ASSUME TappingAssumption ==
  /\ TappingTerm \in Nat /\ TimerMax \in Nat
  /\ WaitingBufferSize \in Nat \ {0}
  /\ PermissiveHold \in BOOLEAN /\ TappingForceHold \in BOOLEAN

VARIABLES kb,               \* what process_record works on
          tapping_key, waiting_buffer,
          record,           \* the record action_tapping_process was called with
          pc

tappingVars == <<kb, tapping_key, waiting_buffer, record, pc>>

TappingInit ==
  /\ kb = InitialKeyboardState
  /\ tapping_key = NoRecord
  /\ waiting_buffer = << >>
  /\ record = NoRecord
  /\ pc = "idle"

IS_TAPPING          == ~IS_NOEVENT(tapping_key)
IS_TAPPING_PRESSED  == IS_TAPPING /\ tapping_key.pressed
IS_TAPPING_RELEASED == IS_TAPPING /\ ~tapping_key.pressed
Within(r, tk)       == TIMER_DIFF(r.time, tk.time, TimerMax) < TappingTerm

\* A tap key is down and it is not yet known whether it is tapped or held.
Undecided == IS_TAPPING_PRESSED /\ tapping_key.count = 0

waiting_buffer_typed(r) ==
  \E i \in DOMAIN waiting_buffer :
    waiting_buffer[i].key = r.key /\ waiting_buffer[i].pressed # r.pressed

-----------------------------------------------------------------------------
(* A call of process_tapping: its argument and its two results.            *)

ActionExec(event) ==
  /\ pc = "idle"
  /\ record' = event
  /\ pc' = "process"
  /\ UNCHANGED <<kb, tapping_key, waiting_buffer>>

Called == pc = "process" \/ (pc = "drain" /\ waiting_buffer # << >>)
keyp   == IF pc = "process" THEN record ELSE Head(waiting_buffer)

\* Returns true; buffer is the waiting buffer the call leaves.
Consumed(buffer) ==
  IF pc = "process"
  THEN record' = NoRecord /\ pc' = "drain" /\ waiting_buffer' = buffer
  ELSE waiting_buffer' = Tail(buffer) /\ UNCHANGED <<record, pc>>

\* Returns false, with *keyp now r.
Kept(r) ==
  IF pc = "process"
  THEN record' = r /\ pc' = "enqueue" /\ UNCHANGED waiting_buffer
  ELSE waiting_buffer' = [waiting_buffer EXCEPT ![1] = r] /\ pc' = "idle" /\ UNCHANGED record

\* process_record(keyp) and return true.
ProcessAndConsume ==
  /\ kb' = ProcessRecord(kb, keyp).kb
  /\ Consumed(waiting_buffer)

\* tapping_key = *keyp; waiting_buffer_scan_tap(); return true.  s is the
\* keyboard state before it.  keyp is a press, and a press is only copied
\* here before it was counted, but for one kept after it started a tap.
StartTapping(s) ==
  LET ends == {i \in DOMAIN waiting_buffer :
                 /\ waiting_buffer[i].key = keyp.key
                 /\ ~waiting_buffer[i].pressed
                 /\ Within(waiting_buffer[i], keyp)}
      down == ProcessRecord(s, [keyp EXCEPT !.count = 1])
  IN  IF keyp.count = 0 /\ ends # {}
      THEN /\ kb' = down.kb
           /\ tapping_key' = down.rec
           /\ Consumed([waiting_buffer EXCEPT ![Min(ends)].count = 1])
      ELSE /\ kb' = s
           /\ tapping_key' = keyp
           /\ Consumed(waiting_buffer)

-----------------------------------------------------------------------------
(* Tap key down, undecided, within the tapping term.                       *)

DecidingCall == Called /\ Undecided /\ Within(keyp, tapping_key)

EndsTap     == keyp.key = tapping_key.key /\ ~keyp.pressed
Interferes  == PermissiveHold /\ IS_RELEASED(keyp) /\ waiting_buffer_typed(keyp)
EarlierKey  == IS_RELEASED(keyp) /\ ~waiting_buffer_typed(keyp)

\* A modifier pressed before the tap key is kept until the tap is decided.
KeepsModifier ==
  LET a == LayerSwitchGetAction(kb, keyp.key)
  IN  CASE a.kind = "ACT_MODS"     -> (a.mods # {} /\ a.code = KC_NO) \/ IS_MOD(a.code)
        [] a.kind = "ACT_MODS_TAP" -> (a.mods # {} /\ keyp.count = 0) \/ IS_MOD(a.code)
        [] OTHER                   -> FALSE

\* First tap (0 -> 1): the press is processed; the release is kept and
\* carries the tap state that processing the press left.
FirstTap ==
  /\ DecidingCall /\ EndsTap
  /\ LET down == ProcessRecord(kb, [tapping_key EXCEPT !.count = 1])
     IN  /\ kb' = down.kb
         /\ tapping_key' = down.rec
         /\ Kept([keyp EXCEPT !.count = down.rec.count,
                              !.interrupted = down.rec.interrupted])

\* Another key was typed: the tap key is held.
TypedInterference ==
  /\ DecidingCall /\ ~EndsTap /\ Interferes
  /\ kb' = ProcessRecord(kb, tapping_key).kb
  /\ tapping_key' = NoRecord
  /\ Kept(keyp)

ReleaseOfEarlierModifier ==
  /\ DecidingCall /\ ~EndsTap /\ EarlierKey /\ KeepsModifier
  /\ Kept(keyp)
  /\ UNCHANGED <<kb, tapping_key>>

\* Seeded fault: consumed, but not processed.
ReleaseOfEarlierKeyLost ==
  /\ DecidingCall /\ ~EndsTap /\ EarlierKey /\ ~KeepsModifier
  /\ Consumed(waiting_buffer)
  /\ UNCHANGED <<kb, tapping_key>>

ReleaseOfEarlierKey ==
  /\ DecidingCall /\ ~EndsTap /\ EarlierKey /\ ~KeepsModifier
  /\ ProcessAndConsume
  /\ UNCHANGED tapping_key

\* Seeded fault: a press is swallowed.
WaitForDecisionLost ==
  /\ DecidingCall /\ ~EndsTap /\ ~Interferes /\ ~EarlierKey
  /\ tapping_key' = [tapping_key EXCEPT !.interrupted = @ \/ keyp.pressed]
  /\ Consumed(waiting_buffer)
  /\ UNCHANGED kb

\* Any other record waits for the decision; a press interrupts the tap.
WaitForDecision ==
  /\ DecidingCall /\ ~EndsTap /\ ~Interferes /\ ~EarlierKey
  /\ tapping_key' = [tapping_key EXCEPT !.interrupted = @ \/ keyp.pressed]
  /\ Kept(keyp)
  /\ UNCHANGED kb

-----------------------------------------------------------------------------
(* Tap key down, undecided, after the tapping term: it is held.            *)

TimeoutHold ==
  /\ Called /\ Undecided /\ ~Within(keyp, tapping_key)
  /\ kb' = ProcessRecord(kb, tapping_key).kb
  /\ tapping_key' = NoRecord
  /\ Kept(keyp)

-----------------------------------------------------------------------------
(* Tap key down and decided: it was pressed at least once as a tap.        *)

DecidedCall == Called /\ IS_TAPPING_PRESSED /\ tapping_key.count > 0
StartsTap   == keyp.pressed /\ IsTapKey(kb, keyp.key)

\* Seeded fault: the tap key is watched on after its release.
TapReleaseWatchesOn ==
  /\ DecidedCall /\ EndsTap
  /\ kb' = ProcessRecord(kb, [keyp EXCEPT !.count = tapping_key.count]).kb
  /\ Consumed(waiting_buffer)
  /\ UNCHANGED tapping_key

TapRelease ==
  /\ DecidedCall /\ EndsTap
  /\ LET up == ProcessRecord(kb, [keyp EXCEPT !.count = tapping_key.count,
                                              !.interrupted = tapping_key.interrupted])
     IN  /\ kb' = up.kb
         /\ tapping_key' = IF Within(keyp, tapping_key) THEN up.rec ELSE NoRecord
  /\ Consumed(waiting_buffer)

\* A tap key pressed meanwhile; after several taps, the last is released
\* on its behalf, although the key is still down.
NextTapKey ==
  /\ DecidedCall /\ ~EndsTap /\ StartsTap
  /\ StartTapping(IF tapping_key.count > 1
                  THEN ProcessRecord(kb, [tapping_key EXCEPT !.time = keyp.time,
                                                             !.pressed = FALSE]).kb
                  ELSE kb)

OtherKeyWhileTapped ==
  /\ DecidedCall /\ ~EndsTap /\ ~StartsTap
  /\ ProcessAndConsume
  /\ UNCHANGED tapping_key

-----------------------------------------------------------------------------
(* The tap is over; within the tapping term the next one may follow.       *)

AfterTapCall == Called /\ IS_TAPPING_RELEASED /\ Within(keyp, tapping_key)
SameKey      == keyp.key = tapping_key.key
Sequential   == ~TappingForceHold /\ ~tapping_key.interrupted /\ tapping_key.count > 0

SequentialTap ==
  /\ AfterTapCall /\ keyp.pressed /\ SameKey /\ Sequential
  /\ LET n    == tapping_key.count
         down == ProcessRecord(kb, [keyp EXCEPT !.count = IF n < MaxTapCount THEN n + 1 ELSE n,
                                                !.interrupted = tapping_key.interrupted])
     IN  kb' = down.kb /\ tapping_key' = down.rec
  /\ Consumed(waiting_buffer)

NewTap ==
  /\ AfterTapCall /\ keyp.pressed /\ SameKey /\ ~Sequential
  /\ tapping_key' = keyp
  /\ Consumed(waiting_buffer)
  /\ UNCHANGED kb

InterferingTap ==
  /\ AfterTapCall /\ ~SameKey /\ StartsTap
  /\ StartTapping(kb)

OtherPressAfterTap ==
  /\ AfterTapCall /\ keyp.pressed /\ ~SameKey /\ ~StartsTap
  /\ tapping_key' = [tapping_key EXCEPT !.interrupted = TRUE]
  /\ ProcessAndConsume

OtherEventAfterTap ==
  /\ AfterTapCall /\ ~keyp.pressed
  /\ ProcessAndConsume
  /\ UNCHANGED tapping_key

\* Seeded fault: tapping_key is not cleared.
TimeoutAfterTapKeepsKey ==
  /\ Called /\ IS_TAPPING_RELEASED /\ ~Within(keyp, tapping_key)
  /\ Kept(keyp)
  /\ UNCHANGED <<kb, tapping_key>>

TimeoutAfterTap ==
  /\ Called /\ IS_TAPPING_RELEASED /\ ~Within(keyp, tapping_key)
  /\ tapping_key' = NoRecord
  /\ Kept(keyp)
  /\ UNCHANGED kb

-----------------------------------------------------------------------------
(* No tap key.                                                             *)

StartTap ==
  /\ Called /\ ~IS_TAPPING /\ StartsTap
  /\ StartTapping(kb)

NoTap ==
  /\ Called /\ ~IS_TAPPING /\ ~StartsTap
  /\ ProcessAndConsume
  /\ UNCHANGED tapping_key

-----------------------------------------------------------------------------
(* waiting_buffer_enq and the end of action_tapping_process.               *)

BufferFullLate == Len(waiting_buffer) >= WaitingBufferSize  \* seeded fault
BufferFull == Len(waiting_buffer) + 1 >= WaitingBufferSize

Enqueue ==
  /\ pc = "enqueue"
  /\ IS_NOEVENT(record) \/ ~BufferFull
  /\ waiting_buffer' = IF IS_NOEVENT(record) THEN waiting_buffer
                       ELSE Append(waiting_buffer, record)
  /\ record' = NoRecord
  /\ pc' = "drain"
  /\ UNCHANGED <<kb, tapping_key>>

\* "clear all in case of overflow"; the layers stay as they are.
Overflow ==
  /\ pc = "enqueue"
  /\ ~IS_NOEVENT(record) /\ BufferFull
  /\ kb' = ClearKeyboard(kb)
  /\ waiting_buffer' = << >>
  /\ tapping_key' = NoRecord
  /\ record' = NoRecord
  /\ pc' = "drain"

DrainEnd ==
  /\ pc = "drain" /\ waiting_buffer = << >>
  /\ pc' = "idle"
  /\ UNCHANGED <<kb, tapping_key, waiting_buffer, record>>

ProcessTapping ==
  \/ FirstTap \/ TypedInterference \/ ReleaseOfEarlierModifier
  \/ ReleaseOfEarlierKey \/ WaitForDecision \/ TimeoutHold
  \/ TapRelease \/ NextTapKey \/ OtherKeyWhileTapped
  \/ SequentialTap \/ NewTap \/ InterferingTap
  \/ OtherPressAfterTap \/ OtherEventAfterTap \/ TimeoutAfterTap
  \/ StartTap \/ NoTap

TappingStep == ProcessTapping \/ Enqueue \/ Overflow \/ DrainEnd

-----------------------------------------------------------------------------
TappingTypeOK ==
  /\ kb \in KeyboardState
  /\ tapping_key \in KeyRecord
  /\ waiting_buffer \in Seq(KeyRecord)
  /\ record \in KeyRecord
  /\ pc \in {"idle", "process", "enqueue", "drain"}
=============================================================================
