------------------------------ MODULE Keyboard ------------------------------
(***************************************************************************)
(* The main loop (keyboard_task of tmk_core/common/keyboard.c) over the   *)
(* tapping and action code, with the keys a user presses and the passing  *)
(* of time as its environment.                                            *)
(*                                                                         *)
(* One call of keyboard_task hands one changed key to action_exec, the    *)
(* first in scan order, or a TICK event when no key has changed.  The     *)
(* firmware has one thread: the environment moves between calls.          *)
(***************************************************************************)
EXTENDS ActionTapping

CONSTANTS TimeSteps    \* ticks of the timer that may pass between two scans

ASSUME KeyboardAssumption ==
  /\ Keys \subseteq Nat \ {NoKey}      \* numbered in scan order
  /\ TimeSteps \subseteq Nat

VARIABLES matrix,        \* keys down in the debounced matrix
          matrix_prev,   \* keys down as last handed to action_exec
          moved,         \* keys that changed since the last scan without a change
          timer

vars == <<kb, tapping_key, waiting_buffer, record, pc, matrix, matrix_prev, moved, timer>>

Init ==
  /\ TappingInit
  /\ matrix = {} /\ matrix_prev = {} /\ moved = {}
  /\ timer = 0

Changed == (matrix \ matrix_prev) \cup (matrix_prev \ matrix)

\* A key goes down or up.  The debounce algorithm holds a key's state for
\* DEBOUNCE ms, in which at least one scan finds nothing new.
KeyMoves(k) ==
  /\ pc = "idle" /\ k \notin moved
  /\ matrix' = IF k \in matrix THEN matrix \ {k} ELSE matrix \cup {k}
  /\ moved' = moved \cup {k}
  /\ UNCHANGED <<tappingVars, matrix_prev, timer>>

Now(d) == (timer + d) % (TimerMax + 1)

KeyEvent(k, t) == [NoRecord EXCEPT !.key = k, !.pressed = k \in matrix, !.time = EventTime(t)]
Tick(t)        == [NoRecord EXCEPT !.time = EventTime(t)]

ScanKey(d) ==
  /\ Changed # {}
  /\ timer' = Now(d)
  /\ LET k == Min(Changed)
     IN  /\ ActionExec(KeyEvent(k, timer'))
         /\ matrix_prev' = IF k \in matrix THEN matrix_prev \cup {k} ELSE matrix_prev \ {k}
  /\ UNCHANGED <<matrix, moved>>

\* Seeded fault: no TICK event when no key changed.
ScanNothingNoTick(d) ==
  /\ pc = "idle" /\ Changed = {}
  /\ timer' = Now(d)
  /\ moved' = {}
  /\ UNCHANGED <<tappingVars, matrix, matrix_prev>>

ScanNothing(d) ==
  /\ Changed = {}
  /\ timer' = Now(d)
  /\ ActionExec(Tick(timer'))
  /\ moved' = {}
  /\ UNCHANGED <<matrix, matrix_prev>>

KeyboardTask(d) == ScanKey(d) \/ ScanNothing(d)

Tapping == TappingStep /\ UNCHANGED <<matrix, matrix_prev, moved, timer>>

Next ==
  \/ \E k \in Keys : KeyMoves(k)
  \/ \E d \in TimeSteps : KeyboardTask(d)
  \/ Tapping

Spec == Init /\ [][Next]_vars

\* The main loop runs for ever, and the timer goes on: of the scans,
\* infinitely many find that time has passed.
FairSpec == /\ Spec
            /\ SF_vars(\E d \in TimeSteps \ {0} : KeyboardTask(d))
            /\ WF_vars(Tapping)

-----------------------------------------------------------------------------
(* Properties.                                                             *)

\* Every variable has its type, and the ring of waiting records keeps its
\* free slot (waiting_buffer_enq refuses the record that would fill it).
TypeOK ==
  /\ TappingTypeOK
  /\ Len(waiting_buffer) < WaitingBufferSize
  /\ matrix \subseteq Keys /\ matrix_prev \subseteq Keys /\ moved \subseteq Keys
  /\ timer \in 0 .. TimerMax

\* A key is down as far as the actions are concerned: its release was not
\* scanned yet, or waits in the buffer.
Down(k) ==
  \/ k \in matrix_prev
  \/ \E i \in DOMAIN waiting_buffer :
       waiting_buffer[i].key = k /\ ~waiting_buffer[i].pressed

\* Between two calls of keyboard_task, a code in the report belongs to a
\* key that is down and was pressed with that code: whatever layers went on
\* or off since, and however the events were held back, the release undoes
\* the press (store_or_get_action and the order of the waiting buffer).
NoOrphanKey ==
  pc = "idle" =>
    \A c \in kb.keys : \E k \in Keys : Down(k) /\ CachedAction(kb, k).code = c

\* The same for modifiers: each belongs to a key that is down and whose
\* action, as cached when it was pressed, holds that modifier.
NoOrphanMod ==
  pc = "idle" =>
    \A m \in kb.real_mods : \E k \in Keys :
      Down(k) /\ m \in CachedAction(kb, k).mods \cup {CachedAction(kb, k).code}

NoOrphan == NoOrphanKey /\ NoOrphanMod

\* The same for layers, but for the layer of a one-shot that is under way,
\* and those that a layer action (TG, TO) switches on to stay.
Lasting == {n \in Layers : \E l \in Layers, k \in Keys :
              Keymap[l][k].kind = "ACT_LAYER" /\ n \in Keymap[l][k].layers}
PendingOneshot == IF IsOneshotLayerActive(kb) THEN kb.oneshot_layer ELSE {}
NoOrphanLayer ==
  pc = "idle" =>
    \A l \in kb.layer_state \ (PendingOneshot \cup Lasting) : \E k \in Keys :
      Down(k) /\ l \in CachedAction(kb, k).layers

\* No key, no modifier and no layer is left behind by its key.
NothingOrphaned == NoOrphan /\ NoOrphanLayer

\* All keys are up, and the code waits for nothing.
Quiescent == /\ pc = "idle" /\ matrix = {} /\ matrix_prev = {}
             /\ waiting_buffer = << >> /\ ~IS_TAPPING_PRESSED

\* When all keys are up the host believes so: the last report it was sent
\* holds no key, and no modifier but a one-shot one that waits for its key.
NothingStuck ==
  Quiescent => /\ kb.report.keys = {} /\ kb.report.mods \subseteq kb.oneshot_mods
               /\ kb.real_mods = {}

\* A tap key that is being watched is down, so that a release will come
\* that ends the watch (process_tapping clears or replaces tapping_key).
TappingKeyDown ==
  pc = "idle" /\ IS_TAPPING_PRESSED => Down(tapping_key.key)

\* "should none in buffer" (action_tapping.c:260): between two calls, once
\* the tap key is up no record waits.
BufferEmptyAfterTap ==
  pc = "idle" /\ IS_TAPPING_RELEASED => waiting_buffer = << >>

\* The keymap has no one-shot layer.
NoOneshotLayer ==
  \A k \in Keys, l \in Layers :
    Keymap[l][k].kind = "ACT_LAYER_TAP" => Keymap[l][k].code # "OP_ONESHOT"

\* When records wait although nothing is undecided, as the loop over the
\* buffer leaves them when process_tapping returns false on its way
\* (action_tapping.c:77), their keys rest until the next scan hands on an
\* event.  A matter of how fast keys move and how often they are scanned.
StrandedRests ==
  pc = "idle" /\ ~Undecided =>
    \A i \in DOMAIN waiting_buffer : waiting_buffer[i].key \notin Changed

\* What holds of the records on their way, so that the watch of a tap key
\* ends (TappingKeyDown).  The new record says what the scan found.
Handled == pc \in {"process", "enqueue"} /\ ~IS_NOEVENT(record)
RecordAsScanned ==
  Handled => record.key \in Keys /\ record.pressed = (record.key \in matrix_prev)

\* The keys that were down before the new record.
DownBefore ==
  CASE ~Handled                   -> matrix_prev
    [] Handled /\ record.pressed  -> matrix_prev \ {record.key}
    [] Handled /\ ~record.pressed -> matrix_prev \cup {record.key}

\* In w, a press and a release of a key take turns, up to the key's state.
Alternating(w, down) ==
  \A i \in DOMAIN w :
    /\ w[i].key \in Keys
    /\ \/ w[i].pressed = (w[i].key \in down)
       \/ \E j \in DOMAIN w : j > i /\ w[j].key = w[i].key /\ w[j].pressed # w[i].pressed
Alternates == Alternating(waiting_buffer, DownBefore)

\* The release of k is still to be processed.
ReleaseComes(k) == Down(k) \/ (Handled /\ record.key = k /\ ~record.pressed)
ReleaseToCome   == IS_TAPPING_PRESSED => ReleaseComes(tapping_key.key)

\* Nothing waits that the new record could overtake.
NotAhead ==
  Handled /\ pc = "process" /\ ~Undecided =>
    \A i \in DOMAIN waiting_buffer : waiting_buffer[i].key # record.key

OrderInv == RecordAsScanned /\ Alternates /\ ReleaseToCome /\ NotAhead

\* When the tap key went down before a tap of its own was over, as
\* process_tapping starts the new one without a look at the buffer
\* (action_tapping.c:243), and the records of it wait already, it rests
\* until they are dealt with.  A matter of pace, too.
MissedRests ==
  pc = "idle" /\ Undecided /\ (\E i \in DOMAIN waiting_buffer :
                               waiting_buffer[i].key = tapping_key.key)
    => tapping_key.key \notin Changed

\* No record waits for a whole turn of the timer: of the records behind the
\* first, those within its tapping term come first.
TermInOrder ==
  pc = "drain" =>
    \A i, j \in DOMAIN waiting_buffer :
      i < j /\ Within(waiting_buffer[j], Head(waiting_buffer))
        => Within(waiting_buffer[i], Head(waiting_buffer))

\* The buffer never overflows.
RoomLeft == pc = "enqueue" => IS_NOEVENT(record) \/ ~BufferFull

\* Of the keymap and the configuration: a mod-tap is no one-shot and no
\* toggle; a key of a layer switches it off again; a tap that process_record
\* was given stays one.
PlainModTaps ==
  \A k \in Keys, l \in Layers :
    Keymap[l][k].kind = "ACT_MODS_TAP" => Keymap[l][k].code \notin ModOps
NoLayerStays ==
  \A k \in Keys, l \in Layers :
    Keymap[l][k].kind = "ACT_LAYER_TAP" => Keymap[l][k].code \notin {"OP_OFF_ON", "OP_TAP_TOGGLE"}
NeverCancelled ==
  \/ IgnoreModTapInterrupt
  \/ \A k \in Keys, l \in Layers : Keymap[l][k].kind # "ACT_MODS_TAP"

\* While it is undecided whether the tap key is tapped or held, a modifier
\* goes down only once the tapping term is over.  The documentation says it
\* of IGNORE_MOD_TAP_INTERRUPT, and also of the default configuration.
HoldNeedsTerm ==
  [][Called /\ Undecided /\ ~(kb'.real_mods \subseteq kb.real_mods)
     => ~Within(keyp, tapping_key)]_vars

\* No key that can be tapped on some layer adds a real modifier when it is
\* tapped, on any layer.
AddsNoMod(a)  == a.code \notin Mods \cup {"MODS_TAP_TOGGLE"} /\ (a.code = KC_NO => a.mods = {})
TapKeys       == {k \in Keys : \E l \in Layers : IsTapAction(Keymap[l][k])}
TapsAddNoMods == \A k \in TapKeys, l \in Layers : AddsNoMod(Keymap[l][k])

\* What is watched as a tap key can be tapped.
TappingKeyTaps == IS_TAPPING => tapping_key.key \in TapKeys

\* A one-shot modifier is in the report that adds the next key, and is
\* spent by it.
OneshotModsRide ==
  [][~(kb'.keys \subseteq kb.keys) =>
       kb.oneshot_mods \subseteq kb'.report.mods /\ kb'.oneshot_mods = {}]_kb

\* Until then it is kept, whatever reports are sent for a layer or another
\* modifier: a one-shot modifier goes only with a report that shows it to
\* the host next to a key, or with the release of a one-shot key.
ReleasesOneshot(r) == ~r.pressed /\ CachedAction(kb, r.key).code = "MODS_ONESHOT"
OneshotModsKept ==
  [][~(kb.oneshot_mods \subseteq kb'.oneshot_mods) =>
       \/ kb'.report.keys # {} /\ kb.oneshot_mods \subseteq kb'.report.mods
       \/ Called /\ ReleasesOneshot(keyp)]_kb

-----------------------------------------------------------------------------
(* Liveness.                                                               *)

\* Tap or hold is decided at last, whatever other keys do: a TICK event or
\* a key event finds the tapping term over.
AlwaysDecided ==
  \A k \in Keys :
    (Undecided /\ tapping_key.key = k) ~> ~(Undecided /\ tapping_key.key = k)

\* Keys that are an ordinary key on every layer, or transparent.
PlainKeys == {k \in Keys : \A l \in Layers :
                \/ Keymap[l][k] = KC_TRNS
                \/ Keymap[l][k].kind = "ACT_MODS" /\ Keymap[l][k].code \in Codes}

\* A key that is held for good is, in the end, in every report: no press is
\* lost in the waiting buffer.
HeldKeyReported ==
  \A k \in PlainKeys :
    <>[](k \in matrix) => <>[](CachedAction(kb, k).code \in kb.report.keys)
=============================================================================
