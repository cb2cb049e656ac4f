# A TLA+ development of the QMK firmware

This directory models the part of the firmware (`src/`) that decides what a key
does: from the switches of the matrix, through debouncing and the tap-or-hold
decision, to the report the host receives, the serial lines over which the parts of a keyboard share
their matrix, and the settings it keeps without power. TLC checks the models on small instances,
and TLAPS proves some of the results for every value of the constants.
`PROJECT.json` maps every definition to the lines it models.

## 1. The system

The firmware is one C program per keyboard. `main` calls `keyboard_task` for
ever; that reads the matrix, debounces it, and hands at most one changed key
(or a `TICK`) to `action_exec`. There is one thread and no locking, except
under ChibiOS, where the serial link has a thread of its own, and on split keyboards, where a
transaction of the master runs in an interrupt of the slave. Time is a 16-bit
millisecond counter that wraps every 65.5 s.

    switches --matrix_scan--> raw --debounce--> matrix
       --keyboard_task--> action_exec --action_tapping_process--> process_record
       --> process_record_quantum (key lock, macros, tap dance, leader, combos, ...)
       --> layers, modifiers, one-shots, report --host_keyboard_send--> host

    serial link, slave: matrix --serial_link_update--> triple buffer --serial thread
          --CRC, byte stuffer--> line
       master: line --byte stuffer, CRC--> router --> triple buffer --serial_link_update--> matrix
    split_common: slave's rows --copy--> serial buffer --transaction (interrupt)--> master's matrix

    keys, layers, lights --eeconfig_update_*--> eeprom_write_byte --> pages or log in flash

| component | code | state it keeps | operations | module |
|---|---|---|---|---|
| Matrix scan | `quantum/matrix.c` | `raw_matrix`, `matrix` | `matrix_init`, `matrix_scan` | `Matrix` |
| Debounce | `quantum/debounce/sym_g.c`, `eager_pk.c`, `eager_pr.c` | a flag and a time stamp, or 8-bit counters and two flags | `debounce` | `DebounceSymG`, `DebounceEager` |
| Main loop | `tmk_core/common/keyboard.c` | `matrix_prev` | `keyboard_task` | `Keyboard` |
| Tap and hold | `tmk_core/common/action_tapping.c` | `tapping_key`, the ring `waiting_buffer` | `action_tapping_process`, `process_tapping` | `ActionTapping` |
| Actions | `tmk_core/common/action.c` | writes through the record | `process_record`, `process_action`, `register_code`, ... | `Action` |
| Modifiers, one-shots, report | `action_util.c`, `report.c` | `real_mods`, `weak_mods`, `oneshot_mods`, `oneshot_layer_data`, `keyboard_report` | `add_mods`, `send_keyboard_report`, ... | `ActionUtil` |
| Layers | `action_layer.c` | `layer_state`, `default_layer_state`, the per-key layer cache | `layer_on`, `layer_state_set`, `store_or_get_action`, ... | `ActionUtil` |
| Action codes | `action_code.h`, `quantum/keymap_common.c` | none | `action_for_key` | `ActionCode` |
| Timer | `timer.h` | `timer_count` | `TIMER_DIFF` | `Timer` |
| Key processing features | `quantum/quantum.c`, `process_keycode/process_{key_lock, tap_dance, leader, combo, auto_shift, space_cadet}.c` | `key_state`, the dances' states, `leader_sequence`, `key_buffer` and combo states, `autoshift_lastkey`, `sc_last`, ... | `process_record_quantum`, `matrix_scan_quantum` | `Processing`, `KeyLock`, `TapDance`, `Leader`, `Combo`, `AutoShift`, `SpaceCadet`, `Quantum` |
| Dynamic macros | `quantum/dynamic_macro.h` | one buffer, two ends, `macro_id` | `process_record_dynamic_macro` | `DynamicMacro`, `Quantum` |
| Serial link objects | `serial_link/protocol/triple_buffered_object.c` | four 2-bit fields in one byte, three slots | begin/end write, read | `TripleBuffer`, `LatestValue` |
| Serial link framing | `serial_link/protocol/byte_stuffer.c`, `frame_validator.c` | `next_zero`, `data_pos`, `long_frame`, `data` for each link | `byte_stuffer_send_frame`, `byte_stuffer_recv_byte`, `validator_*` | `ByteStuffer`, `LossyLine` |
| Serial link transport | `serial_link/protocol/transport.c`, `frame_router.c` | local and remote mailboxes of each object, `is_master`, frames on the lines | `update_transport`, `router_send_frame`, `route_incoming_frame`, `transport_recv_frame` | `Transport` |
| Split keyboard over the link | `serial_link/system/serial_link.c` | `last_matrix`, `serial_link_connected` | `serialThread`, `serial_link_update` | `SerialLink` |
| Split keyboard over soft serial | `quantum/split_common/{matrix, transport, serial}.c`, the synchronization in `rgblight.c` | `matrix`, `error_count`, the serial buffers, change flags, `status_rgblight` | `matrix_scan`, `transport_master`, `transport_slave`, the transactions | `Split` |
| Encoders | `quantum/encoder.c` | `encoder_state`, `encoder_value` | `encoder_read`, `encoder_update_raw` | `Encoder` |
| Settings | `tmk_core/common/eeconfig.c`, `magic.c` | bytes of the EEPROM | `eeconfig_init`, `eeconfig_update_*` | `Eeconfig` |
| EEPROM in flash | `chibios/eeprom_stm32.c`, `eeprom_teensy.c` | pages, or a log and `flashend` | `EEPROM_WriteDataByte`, `EEPROM_Erase`, `eeprom_write_byte` | `FlashPages`, `FlashLog`, `ByteStore` |

Components not modelled are listed in section 7 and in `PROJECT.json`.

**How they interact.** Everything from the matrix to the report is plain calls in
one thread; what makes it hard is *held-back work*: `process_tapping` keeps
records in a buffer until a later event (of another key, or a `TICK`) decides
them, so that presses and releases are processed late, out of scan order, and
on layers that changed meanwhile. The features before the action hold presses back as well, each in
its own way, and see one another's keys only as far as the chain lets them; a macro
runs the whole chain inside itself. The triple buffer is shared by two threads
and only its index byte is protected by a lock. On the serial link each keyboard has two
threads that share mailboxes only, and keyboards share nothing but lines that lose frames. On a split
keyboard the slave's main loop and the interrupt of a transaction share buffers without any lock.

**What is hard.** Orders of presses, releases and time-outs of several keys;
a record processed twice (an interrupted mod-tap, a one-shot layer, a tap
released on behalf of a key that is still down); records changed through
pointers; presses kept back by two features at once; a buffer that overflows with keys down; timers
that wrap, with 8-bit copies of them; reader and writer of a triple buffer; frames of several
keyboards that mix on one line, bytes that are lost or altered; transactions that fail, and an interrupt
between two rows; the power that fails between two flash operations. `PROJECT.json`
lists each such place with its line under `hazards`.

**What makes each part correct.**

* Matrix to report: a release undoes exactly what its press did (no stuck key,
  modifier or layer), whatever layers changed; once all keys are up the host's
  last report is empty; the watch of a tap key ends; tap or hold is
  always decided; a press is never lost while the buffer has room.
* Key processing: each press is dealt with once and in order, whichever features keep it back; nothing
  stays in the report that neither a key nor the lock holds; a macro plays what was recorded.
* Debounce: only a state that was still long enough is pushed (`sym_g`); a
  change shows at once and is then locked (`eager`); no change is forgotten.
* Triple buffer: two threads never use one slot; the reader gets the latest
  complete value once.
* Serial link: whatever arrives stays in the receive buffer, and damage costs no frame but those it
  hits; a mailbox holds what the keyboard it is read as wrote; the master follows the matrix of its
  first slave, never goes back to an older one, and has the last one in the end although frames are lost.
* Split: the master sees the rows of the other half as they were, in order, and in the end the last
  ones; a half that does not answer is taken for released; each part of the light follows; an encoder's steps
  are counted, at the master too.
* Settings: a byte keeps what it was given last, also without power.

## 2. Modules

| module | what it is |
|---|---|
| `ActionCode` | actions as records (kind, code, mods, layers) and the keycodes that make them |
| `ActionUtil` | the record of all state that actions touch, and its operators |
| `Action` | `ProcessRecord`: the whole of `process_record` and `process_action` |
| `Timer` | `TIMER_DIFF`, and the `| 1` of event times |
| `ActionTapping` | `action_tapping_process`, one action for each branch of `process_tapping` |
| `Keyboard` | the main loop and its environment, the specification and the properties |
| `MCKeyboard` | a keymap of twelve keys and the hands that play it |
| `Processing` | what the features share: the record of all their states, pass or swallow |
| `KeyLock`, `TapDance`, `Leader`, `Combo`, `AutoShift`, `SpaceCadet`, `DynamicMacro` | one feature each |
| `Quantum`, `MCQuantum` | the chain of features in front of the action, its properties; a keymap of 24 keys and its hands |
| `Matrix` | `matrix_scan` and bouncing switches, shared by the debounce modules |
| `DebounceSymG`, `DebounceEager` | the debounce algorithms, each with its keyboard |
| `TripleBuffer` | the two threads and their steps |
| `LatestValue` | abstract: a mailbox that holds the latest value |
| `ByteStuffer`, `MCFraming` | sender and receiver of frames, and the line between them |
| `LossyLine` | abstract: frames arrive whole and in order, or not at all |
| `Transport` | objects sent along a chain of keyboards: the serial threads, with loss |
| `SerialLink`, `MCSerialLink` | the main threads of a split keyboard over `Transport`; small chains, or one object |
| `Split`, `Encoder`, `MCSplit` | both halves of a split keyboard over soft serial, and its encoder |
| `FlashPages`, `Eeconfig` | EEPROM in pages of flash (STM32), and the settings in it |
| `FlashLog` | EEPROM as a log in flash (Teensy LC) |
| `ByteStore` | abstract: bytes that survive the power, but those being changed |
| `MCEeprom` | a keyboard on either chip |
| `KeyboardProofs`, `DebounceSymGProofs`, `DebounceEagerProofs`, `SerialLinkProofs` (with `TripleBuffer`), `ByteStufferProofs`, `SplitProofs` (with `Encoder`), `EeconfigProofs`, `FlashLogProofs` | the proofs |

`Keyboard` EXTENDS `ActionTapping` EXTENDS `Action` EXTENDS `ActionUtil`
EXTENDS `ActionCode`: the C files call each other in the same direction. `Quantum` EXTENDS the
features, which EXTEND `Processing`, which EXTENDS `Action`. `SerialLink` EXTENDS
`Transport`, whose mailboxes are `LatestValue`s: sets of at most one value, which is what
`TripleBuffer` is shown to implement; its lines that lose frames are what `ByteStuffer` is shown to
implement (`IsLossyLine`). `Eeconfig` EXTENDS `FlashPages`, which together implement `ByteStore`.

**State.** `kb` is one record of all static variables of `action_util.c` and
`action_layer.c`; `process_record` is a function from such a record and a key
record to both, because the code writes through the record it is given.
`tapping_key`, `waiting_buffer` (a sequence for the ring) and `record` are the
variables of `action_tapping.c`. `matrix` and `matrix_prev` are those of
`keyboard_task`. `pc` says where `action_tapping_process` is; one call of
`process_tapping` is one step, and the environment moves only between calls of
`keyboard_task`, as in the firmware. In `Quantum`, `q` is one record of the state of all features and
`kb`, since a macro runs the whole chain as part of one event; a scan is one step.

**Abstractions.** Modifiers, key codes and layers are sets of model values; the
six bytes of a report are a set; action codes are records, not 16-bit words; a
keymap is a constant function. Times are exact integers modulo `TimerMax + 1`,
and `TIMER_DIFF` keeps its off-by-one (it adds `max`, not `max + 1`).
`tap.count`, a 4-bit field, is capped by the code at 15, here at
`MaxTapCount`. In `Keyboard` a key may move once between two scans that find
no change: debouncing holds a key's state for at least `DEBOUNCE` ms, while
the main loop scans every few hundred microseconds. `KeyMoves` is that environment, and no code.
`DebounceSymG` is the algorithm for a positive `DEBOUNCE`; for 0 the file compiles another, which copies the
matrix at once.

*Quantum.* All features are built in, which is more than a keyboard would choose. No key of its keymap
is a tap key, so that `action_tapping_process` hands each record on; tap keys are the subject of
`Keyboard`. Auto shift holds for the codes in `AutoShifted`; the leader dictionary, which a keymap
writes, is that of the documentation. The keys that switch combos on and off are operators of `Combo` that no
hand uses: switching combos off while one is held leaves its code in the report (section 6). `KC_ASRP`, which types the
time-out of auto shift, is left out.

*Serial link.* In `Transport` a frame is a record of the object's id, the value and the last byte (the
destinations, or the hops); a frame that the CRC rejects, or that a receiver misses, is lost at will
when it is sent. Values carry the keyboard that wrote them, for properties to read. A matrix is the
number of its changes so far. The 5 ms of the periodic write are a choice (`due`) that fairness
makes again and again. `serial_link_update` is two steps, cut before it reads the matrix. `update_transport` takes a
mailbox and blocks until the frame is written; here that is one step, so that the mailbox cannot be written
in between: what is written then stays for the next frame in both cases. In `ByteStuffer`
bytes are numbers up to `MaxByte`, which also is the count of a full block, and the CRC is the set
`Checked` of byte strings it accepts.

*Split.* A transaction is one step of the master, as its interrupts are off and the slave serves it in
one interrupt: it may come between any two steps of the slave, of which a row copied, each of the two parts of
`rgblight_update_sync` and the status written are one each. A row is the number of its changes. On an 8-bit
processor the interrupt can tear a row of 16 or 32 columns; a row of the model is then one byte of it, and the
properties hold of each byte. A light is what `rgblight_config` has of it but the speed, with `Components` for hue,
saturation and value, and `Ignored` for those that the slave does not take over in a mode (`rgblight.c:439-453`).
The flags for the timer and the animation are left out; an update that carries only them
also replaces one that waits. A part of an update is read in one step, although the interrupt might come between
two of its bytes. A parity error leaves damaged bytes in the receiving buffer, as in the code, here any light
and flags. At power on the halves may have any lights, and both flags are set (`rgblight_update_dword`).

*Encoder.* The slave copies its state to the serial buffer before it reads the pins (`transport.c:245`,
`matrix.c:334`), so the master is a read behind; both are one step, as the master sees nothing but the copy. The
scans of the slave keep up with the knob: it moves a step at most between two. At the master a scan polls the last
copy, at any pace against the slave's.

*EEPROM.* A flash operation happens or does not; the power may fail before each. A setting is one byte.

**History variables**, read by properties only: `still`, `age`, `wrapped`, `skipped` (real time of
debounce, which the code does not know); `spent` and `owed` (codes that a feature has dealt with, and
presses still to come) and `tape` (events of a recording) in `Quantum`; `failed` and `missed` (the parts of the light
whose last update was lost or dropped) in `Split`; `read_at`, `sent_at`, `polls` and `uneven` (steps that were
polled again, or never) in `Encoder`; `frame`, `last`, `intact`, `underway` in `ByteStuffer`;
`wanted`, `logWanted`, `before`, `astray` in the EEPROM modules.

## 3. Runs

Twelve runs; `PROJECT.json` gives one sentence for each.

**Hands.** The keyboard runs give a keymap of keys of different kinds,
and each behaviour plays one *hand* of two or three of them (variable `hand`
of `MCKeyboard` and `MCQuantum`). Three keys are enough for everything `process_tapping`
distinguishes: the tap key, a key pressed before it and a key pressed
after it. The states of a run are the sum over its hands, not the product. In the same way a behaviour of
`DebounceEager` has one of its two algorithms, one of `MCEeprom` one chip, one of `MCSerialLink` a chain
or a single object, and one of `MCSplit` moves keys, lights or the encoder.

| run | instance | checks |
|---|---|---|
| `KeyboardTapHold` | default configuration; five hands: layer-tap with mod-tap, LM with mod-tap, TG/TO with DF, TT, one-shot layer with mod-tap; 2.1 M states | `NothingOrphaned`, `NothingStuck`, `TappingKeyDown`, `BufferEmptyAfterTap` |
| `KeyboardRolling` | `IGNORE_MOD_TAP_INTERRUPT`, `TAPPING_FORCE_HOLD`, a ring of three (two records), a report of one key; four hands, two of them with a one-shot modifier beside a mod-tap or a layer-tap; 2.5 M states | `TypeOK`, `NoOrphan`, `HoldNeedsTerm`, `OneshotModsRide`, `OneshotModsKept` |
| `KeyboardLive` | `PERMISSIVE_HOLD`, three pairs of keys, fairness | `AlwaysDecided`, `HeldKeyReported` |
| `DebounceSymG` | three keys, `DEBOUNCE` 2, timer of 13 ticks, fairness | `PendingIsDebounced`, `PushedWhenStill`, `Settles` |
| `DebounceEager` | the same keys in two rows, counters modulo 5, a long gap at any time, fairness | `LockedUnlessWrapped`, `Immediate`, `Settles` |
| `SerialLink` | a master and two slaves, one change of the matrix, lines of one frame; or an object of two parts with two values | `FromItsSlave`, `FromTheMaster`, `RemoteIsFirstSlave`, `NeverBack`; `NoRace`, `IsMailbox` |
| `SerialLinkLive` | a master and one slave, two changes, fairness | `Follows` |
| `Framing` | bytes 0 to 3, three frames with zeros and full blocks, a buffer of six bytes, any two bytes lost, altered or invented | `NoOverrun`, `InStep`, `OnlyDamageCosts`, `IsLossyLine` |
| `Eeprom` | two pages of two bytes, or two sectors of two cells; bytes 0 to 2, two power failures at any point | `SettingsKept`, `RetainedInOrder`, `IsByteStore` |
| `Quantum` | thirteen hands of two or three keys of the features, one of seven keys for macros in a buffer of four records, with a layer key | `NoOrphan`, `AtRest`, `AsRecorded`, `InOrder` |
| `Split` | three rows of two changes; any changes of a light with two modes, one of which ignores the colour, and two colours; `error_count` modulo 8; an encoder turned six steps either way, up to three of them polled unevenly; fairness | `DisconnectedIsReleased`, `LightsFollow`, `StepsCounted`, `RowsNeverBack`, `RowsFollow` |
| `FlashLog` | the log alone: a violation, see section 6 | `Retained` |

**Bounds.** `TappingTerm` = 5 ticks and a timer of 16 ticks (`TimerMax` = 15):
event times are odd (`timer_read() | 1`), so that a term has room for two
events at different times on either side of its end, and the timer wraps every
three terms, which gives every position of a tap relative to the wrap. Time
advances by one tick per scan: with a coarser step the term would be skipped. As each scan takes a tick, a term of
five is too short for records that the loop over the buffer leaves behind and whose keys move again before
the next event. Firmware that scans more than once in a millisecond has no such bound: there an event can overtake
older records of its key, and `TappingKeyDown`, `NoOrphan` and `NothingStuck` can fail. Section 6 says how, and section 4
what holds as long as the keys of such records rest.
`MaxTapCount` = 2 tells the first tap, the second and all later ones apart,
which is all the code does for keys other than TT. `WaitingBufferSize` is 8 as
in the code where it must not overflow and 3 where it must.

For debounce, `TimerMax + 1` = 13 is not a multiple of `MAX_DEBOUNCE` = 5, as
65536 is not one of 250; gaps between scans are 0 or 2 ticks, and for the eager
algorithms also 5, a whole turn of the counters.
Two parts per object suffice to see a torn value.

In `Quantum` all terms are 2 ticks, of a timer of 8, and a scan takes 0 or 2: two scans are in a term or
past it. The hand of the macros has no features with terms, so that its time stands still. A key
that records or plays is tapped alone, and no recording is started within another: the key would be
part of the macro (see section 6).

On the link, two slaves are the fewest of which one's frames
pass through the other, and one change is the least that an older matrix could undo; the
liveness run has one slave, as two make the temporal check too slow: that frames pass through slaves is
left to the safety run and the proofs. The frames of `Framing` have zeros at the start, in the middle and
before the end, one block as long as a block can be, and no byte between two of them that
two faults could turn one into the other, as a CRC would have it; the run ends when all frames and faults
are spent, so deadlock is not checked.

In `Eeprom` one page holds the magic number and a setting, the other two settings. Two power failures allow
one during the repair of the other's damage. Three rows, with transactions between any two of them, let a
matrix be torn in every way; `ERROR_DISCONNECT_COUNT` is the code's 5, and three failures more wrap the counter.

**Fairness.** The main loop never returns, and the millisecond interrupt goes on.
So of the scans infinitely many find that time has passed: strong fairness
of the scans with `d > 0` (strong, since calls of `action_exec` interrupt them),
and weak fairness of the steps of `action_tapping_process`, which is a loop
that runs to its end. Nothing is assumed of the keys. The same for the scans of the debounce
algorithms. On the link both threads of a keyboard run for ever (weak fairness of
`serial_link_update`, with the periodic write due), and no line damages every frame of an object:
strong fairness of sending and of routing without loss, strong since a full line disables them.
The USB of keyboard 0 need not become active; the properties assume it where they need it. In `Split`
both main loops run for ever (weak fairness of the slave's steps and of the master's light
transaction), and not every transaction for the rows fails: strong fairness of the one that succeeds. The other
modules are checked for safety only.

**Properties** are stated next to the specification they are about, each with what
it says of the code. Where an exception exists it is part of the
statement: `NothingOrphaned` exempts the layer of a pending one-shot and those
that TG and TO switch on to stay; `LockedUnlessWrapped` exempts locks during
which the timer wraps or a long gap passes; `OnlyDamageCosts` the frames of which section 6 tells;
`LightsFollow` the parts of a light of which the last update was damaged, came while the slave was past them, or
was dropped by `rgblight_sethsv_eeprom_helper` (section 6), but no other part, and those only until they are sent
again; `StepsCounted` allows the master one step for each that was polled unevenly, and one it has yet to poll;
`SettingsKept` leaves out what `eeconfig_init` had not come to when the power failed; `OneshotModsKept` lets the release of
a one-shot key clear them.

**Seeded faults.** The modules contain a few operators marked `Seeded fault`: the
definition that follows each of them, with a plausible bug. `PROJECT.json` names
for each checked property the fault that breaks it, which shows that the
property can fail in that very instance.

## 4. Theorems

| theorem | module | for |
|---|---|---|
| `TypeCorrectness` | `KeyboardProofs` | `TypeOK` of `Keyboard`: every keymap, configuration, term, timer width and buffer size |
| `OrderInvariance`, `WatchedKeyIsDown` | `KeyboardProofs` | `OrderInv`, `TappingKeyDown`: as `TypeCorrectness`, while keys with stranded records rest |
| `HoldWaitsForTerm` | `KeyboardProofs` | `HoldNeedsTerm` under `IGNORE_MOD_TAP_INTERRUPT` without `PERMISSIVE_HOLD`, unless a tap stands for a modifier |
| `NoneInBuffer` | `KeyboardProofs` | `BufferEmptyAfterTap` for keymaps without one-shot layers, in every configuration |
| `TapsLeaveNoOrphan`, `TapsLeaveNothingStuck`, `TapsLeaveNoLayer` | `KeyboardProofs` | `NoOrphan`, `NothingStuck`, `NothingOrphaned` for keymaps with tap keys, on the terms below; the first two with any overflow |
| `ReleaseUndoesPress`, `HostSeesAllKeysUp` | `KeyboardProofs` | `NothingOrphaned`, `NothingStuck` for keymaps without tap keys, of any behaviour |
| `Invariance`, `NothingForgotten`, `PushesWhatIsStill` | `DebounceSymGProofs` | `IInv`, `PendingIsDebounced`, `PushedWhenStill` for every positive debounce time, timer width and gap between scans |
| `BufferInvariance`, `RaceFreedom`, `Refinement` | `SerialLinkProofs` | `IInv`, `NoRace` and that a triple buffered object implements `LatestValue` |
| `EagerInvariance`, `Lock`, `Response` | `DebounceEagerProofs` | `IInv`, `LockedUnlessWrapped`, `Immediate` for any keys in any rows, debounce time, counters and timer, and gaps under `EagerAssumption` |
| `TransportCorrect` | `SerialLinkProofs` | `FromItsSlave`, `FromTheMaster` for chains of any length, any objects, any loss, and any keyboards becoming masters at any time |
| `LinkMailboxes`, `LinkCorrect`, `LinkOrder` | `SerialLinkProofs` | the same with the main threads, `ConnectedHasMaster`, `RemoteIsFirstSlave`, and `NeverBack` |
| `NothingBehindBuffer`, `ZeroSynchronizes`, `IntactFrames` | `ByteStufferProofs` | `NoOverrun`, `InStep`, `OnlyDamageCosts` for bytes and a buffer of any size, any frames and any damage |
| `SplitInvariance`, `Disconnection`, `LightFollowing`, `RowOrder` | `SplitProofs` | `SplitInv`, `DisconnectedIsReleased`, `LightsFollow`, `RowsNeverBack` for any number of rows, any failures, any wrap of `error_count` above the limit, and lights of any modes and components, whatever the modes ignore |
| `EncoderCounting` | `SplitProofs` | `StepsCounted` for any resolution and distance, and any number of uneven polls, of a knob that the slave's scans keep up with |
| `Invariance`, `SettingsSurvive`, `Refinement` | `EeconfigProofs` | `IInv`, `SettingsKept`, and that pages of flash implement `ByteStore`, for any layout, pages and number of power failures |
| `LogInvariance`, `LogRetained` | `FlashLogProofs` | `LogTypeOK`, `LogInv` and `RetainedInOrder` for an EEPROM and a log of any size, and any number of writes, compactions and power failures |

All of them assume the named assumptions on constants of the modules; some of `KeyboardProofs` assume more, of
the keymap and configuration (`ASSUME`) or of the behaviour (to the left of `=>`), as its paragraphs below tell.
`TypeOK` of `DebounceEager` is a conjunct of its `IInv`.

*Keyboard, types.* `KeyboardProofs` shows first, bottom up along the modules, that every
operator maps a well-typed keyboard state and record to well-typed ones, ending in
`ProcessRecordType`; then it has one lemma per group of branches of
`process_tapping` and one step per action. The conjunct
`Len(waiting_buffer) < WaitingBufferSize` is the interesting one: it holds because
`Enqueue` checks for a free slot, and every other branch keeps or shortens the
buffer.

*Keyboard, order.* `TappingKeyDown` does not say where the records of a key are. `OrderInv` does: the
waiting records of a key take turns between press and release, and the last agrees with `matrix_prev`
(`Alternates`); the new record says what the scan found (`RecordAsScanned`); the watched tap key is down or its
release waits (`ReleaseToCome`); and when nothing is undecided, no waiting record is of the new one's key
(`NotAhead`). Only the last can fail, as the loop over the buffer may leave records behind (section 6). The
theorems therefore suppose `StrandedRests`: between two calls the keys of such records are not moving. It is about
pace: the next event hands the stranded records on, so it fails only when one of these very keys makes that event.
The code does not guarantee it, and where it fails `NotAhead` does by definition: that an event never overtakes older
records of its key is therefore no property of this development, and only a step of these proofs.

*Keyboard, decisions.* For `HoldWaitsForTerm` the invariant is that the watched key can be tapped (`TappingKeyTaps`): with
it each branch within the term processes a tap, whose action adds no modifier (`TapsAddNoMods`), or a release
that takes modifiers away. `PERMISSIVE_HOLD` decides within the term by design, and so does the default
configuration (section 6). For `NoneInBuffer` it is that no one-shot layer is ever
pending: with one, `process_record` turns the press of a tap into a release, the watch ends early, and what waited
still waits.

*Keyboard, ownership.* `NoOrphan`, `NothingStuck` and `NothingOrphaned` compare the report with the keys that
are down; with records on their way that is not inductive, and what a press did depends on how it was decided. The
invariant `TapsInv` looks at the `Queue`, the waiting records followed by the new one:

* the records of a key take turns, up to the key's state, and only a release that is the key's first record can
  carry a count (`InTurn`), so that of every key it is known whether a press or a release comes next;
* the keys a release of which comes next, but for an undecided tap key, are those that hold something down
  (`Due`), each as a tap if that release has a count or the watch of the tap key goes on, and else as a hold (`How`);
* each key code, modifier and layer that is on is what the cached action of such a key does when processed in that
  way (`Owned`), the report shows them, and no one-shot is under way (`Plainly`);
* the release of the tap key that is watched comes next, with a count after the first tap and without one before
  (`Watched`).

A press makes its key due, its release undoes exactly what `How` says, and what it takes away from another due key
makes nothing an orphan. There is one lemma for each branch of `process_tapping`. The terms:

* `PlainTaps`: no one-shot or toggling mod-taps and no one-shot layers, whose state outlives the key; and mod-taps only
  with `IGNORE_MOD_TAP_INTERRUPT`, as otherwise an interrupted tap is processed twice (section 6). Also no
  `PERMISSIVE_HOLD` (section 6). `MaxTapCount > 1`; in the code it is 15.
* `StrandedRests` as above, and `MissedRests`, the same of the records of a tap key that was pressed anew before
  an earlier tap of it was over. Where they fail, keys do stick (section 6).
* `TermInOrder`: the records behind the first that are within its term come before those that are not, that is, no
  record waits for a whole turn of the 16-bit timer.
* For layers also `NoLayerStays`, no tap-toggle and no off-on keys, and `RoomLeft`, no overflow, since
  `action_tapping.c:57` clears everything but the layers.

That these terms are met is no matter of course, so TLC was asked. In the instance of `KeyboardRolling` `StrandedRests`,
`MissedRests`, `TermInOrder` and `OrderInv` are invariants; in that of `KeyboardTapHold` all of them and `RoomLeft`
are, but for `MissedRests` when an interrupted mod-tap is down, and `MissedRests` too with hands of layer-taps
instead. Without tap keys nothing ever waits (`NothingWaits`), the terms hold of themselves, and
`ReleaseUndoesPress` and `HostSeesAllKeysUp` suppose nothing about the behaviour.

*DebounceSymG.* `PushedWhenStill` is not inductive: nothing in it ties the time
stamp to real time. `IInv` adds that while a change is pending and `still` is not
at its cap, `timer` is `debouncing_time + still`, once wrapped at most. Then
`TIMER_DIFF(timer', debouncing_time')` is at most the true age (it loses one tick at
the wrap), so that a push implies `still' > DEBOUNCE`.

*DebounceEager.* What a counter holds is a time modulo `MAX_DEBOUNCE`, and neither property says so. `IInv`
adds that, while the timer has not wrapped, a running counter of a group with a known `age` holds
`(timer - age) % MAX_DEBOUNCE` and that one that is not running belongs to a lock that is over; a counter
runs only with `counters_need_update`, and the matrices differ only with `matrix_need_update`. The lemma
`CounterDiff` turns this into times: `TIMER_DIFF` of two times modulo `max` is never more than what lies
between them, and exactly that if it is less than `max`. So the lock never ends early, and ends in time if
no gap is as long as a turn of the counter (`EagerAssumption`: `DEBOUNCE + d <= MAX_DEBOUNCE` for the gaps not
in `LongGaps`).

*TripleBuffer.* `IInv` says that the three indices are a permutation of the slots,
that what the writer filled in is its object, and where a reader holds a slot it
is the read slot. `NoRace` follows at once, and the refinement mapping (the slot
`shared` while the data flag is up) takes every step of the threads to a step of
`LatestValue` or a stutter.

*Serial link.* The properties speak of mailboxes; `TransportIInv` adds what is on the way: a
frame going up on the line of keyboard `i` with byte `b` was written by keyboard `i + b - 1`, a frame going
down by a master not below `i`, and a local mailbox holds its own keyboard's writing. That makes the
hop count an address, and since the chain has at most `NumSlaves` slaves it never leaves the mailboxes
nor its byte. There is one lemma per action of `Transport`, which those about the
serial threads use; `LinkIInv` adds that only keyboard 0 becomes a master. For `NeverBack`, `InOrder` lists the
matrices of the first slave on their way, as shown, arrived, among the frames of the line, ready to be sent,
and as they are, and says that none is newer than one further back. A line is a queue and the
mailboxes hold one value, so each step keeps the order; losing a frame does as well.

*Framing.* Nothing in `OnlyDamageCosts` says where in a frame the receiver is. `IInv` does: while a frame
is arriving intact, there are a block that begins at `s` and a byte `i` in it or at its end such that the receiver holds the
bytes before `i`, its count says how far the block's end is, `long_frame` says whether the block is full, and
the rest of the block and the blocks after it are on the line (`Midway`). A byte within a block, the end of a
full block, the end of one that stands for a zero and the end of the frame are a lemma each; the third is
where `FullBlockAfterZero` is needed (section 6). `Blocks` is a recursive
function, and that there is such a function, with sequences of bytes for values, is proved by
going back from the end of the frame: were there bytes from which no such function leads to the end, there
would be such bytes with the end nearest, and their first block leads to nearer ones (`BlocksExist`, `BlocksAre`).

*Split.* `CountInv` ties `error_count`, which wraps, to the number of failures up to the limit. `RowsInv` orders
each row: the master's is not newer than the slave's buffer, nor that than the slave's matrix. `LightInv` says of
each part of the light that the master has no flag for any more: if it waits in the slave's buffer (`Waits`, which depends on
where the slave is in applying) that update agrees with the master's light, and if it does not wait the slave's
light does, unless the part was missed. An update that the slave applies takes its part out of `missed`, one that it
drops puts it there; what it drops depends on the mode and the switch that the first part has just set, which is why
the parts are two steps.

*Encoder.* `EncoderInv` says that the state's last two bits are the pins at the last read, that its step leads from
the read before to that one, and that the slave's count is the position of the last read. The master's count with the
step of the buffer, if it has not polled that yet, is that of the read before, but for `uneven`: a poll too many adds
the step of the buffer once more, and a read that replaces an unpolled buffer takes it away. The lookup table gives the
step for all four neighbours of all four pin states.

*Settings.* `SettingsKept` speaks of the moments between two operations only. `IInv` adds `FlashInv`, what each
operation under way has left of the flash, and `WantedInv`: a byte of `wanted` is the one the flash will
hold when the operation is done (`Target`), or `eeconfig_init` has still to write it. With these the refinement
takes each flash operation to a stutter of `ByteStore`, and the last of a write to its effect.

*FlashLog.* `RetainedInOrder` speaks of the moments between two writes with the end of the log known. `LogInv` adds the
others: nothing lies behind `flashend` (`EndIsLast`), so that a write meets an erased cell; without power the
first empty cell is the end, as there is no gap (`Waiting`); and during a compaction `buf` has each byte once, as it was set,
or lacks it and the byte is the erased value (`BufKeeps`), while the cells before `compaction.n` are erased
(`Erasing`) or rewritten, and the others empty (`RewritingCells`). All of it holds only until `astray`: the finding
of section 6 is the case where it ends. That a compaction fits the log is `EEPROM_SIZE < CellCount`
(`LogAssumption`). `buf` lists the kept offsets in their order; that such a list exists is proved by
the least number below which the offsets would have none (`AscendingIs`).

**Left to TLC, and why.**

* All liveness (`AlwaysDecided`, `HeldKeyReported`, `Settles` of both debounce modules, `Follows`, `RowsFollow`).
* Of `Keyboard`, `OneshotModsRide`, which fails with keys that carry modifiers while another key is held, and `OneshotModsKept`; and what the
  theorems leave out: `NoOrphan`, `NothingStuck` and `NothingOrphaned` with one-shots, and with mod-taps in the default
  configuration, where section 6 shows that they do not hold in general but only of keymaps like those of the runs.
* `IsLossyLine` of `ByteStuffer`, which rests on the strength of the CRC: that no damage makes one string of
  `Checked` another.
* The properties of `Quantum`. Its step folds a function over the features, and again over the events of a
  macro, and what such a fold returns is an induction over data with an operator as a parameter, which the
  provers cannot instantiate.

## 5. What the checks show

With the default configuration and keymaps that follow the documentation (a key that
switches to a layer is transparent on it), no interleaving of three keys within the bounds of section 3
leaves a key, a modifier or a layer behind; with `IGNORE_MOD_TAP_INTERRUPT`, or without mod-taps, none of any number of
keys does, as long as no key moves on while its records are stranded; without tap keys none at all. The overflow of the waiting buffer
leaves no key or modifier behind although the events of held keys are dropped; the
decision between tap and hold is always reached, also when the tap key is held
alone; and the wrap of the timer disturbs neither the tapping term nor `sym_g`.
In the chain of features each press of the checked hands is dealt with once and in
order, and nothing sticks, but for the combinations that section 6 names; two macros never overwrite each other.
On the serial link, neither loss nor the mixing of frames makes the master mistake one slave for
another or fall back to an older matrix, and the periodic write repairs every loss; no two damaged bytes bring
the receiver out of its buffer or out of step for longer than to the next zero. On a split keyboard no failed or
ill-timed transaction shows the master a row that was not, a half that stopped answering is
released for as long as it stays away, and the lights of the halves differ only in a part of which the slave lost or dropped
the last update. Settings in pages survive a loss of power, but those in the page
being rewritten.

## 6. Where code and documentation disagree

Checked by a run that ends in a counterexample:

* `FlashLog`: settings "are retained even after power loss" (`docs/custom_quantum_functions.md:332`). In the
  log of the Teensy LC `flashend` is the cell of the last entry, but after a compaction it is set to the cell
  after it (`eeprom_teensy.c:451`). The next write goes to the cell after that and leaves an empty one, where
  `eeprom_initialize` takes the log to end when the power was off: that write and all later ones are lost, and
  later writes meet cells that are not erased. `RetainedInOrder` of the run `Eeprom` states what does hold.

Observed with the same models, in hands and instances not kept as runs.

*Tap and hold*

* "clear all in case of overflow" (`action_tapping.c:57`) clears keys and modifiers, but no layer. When the
  release of a layer key is among the dropped records its layer stays on.
* An interrupted mod-tap is processed as a press a second time; `store_or_get_action` then looks its action up
  again (`action_layer.c:239`), on layers that may have changed, and the modifier that is registered is not
  the one that will be released.
* A tap-toggle key that is down is released on its behalf when another tap key is pressed
  (`action_tapping.c:176`) and again by its own release, which toggles the layer on.
* A held one-shot modifier registers the pending modifiers of another one too (`action.c:261`) and
  unregisters only its own.
* Under `PERMISSIVE_HOLD`, `waiting_buffer_typed` (`action_tapping.c:335`) also matches a release that waits ahead
  of the press of its key, so that with three keys a key or modifier can stay in the report.
* In the default configuration a key nested in a mod-tap makes it a hold within the tapping term,
  contrary to `docs/feature_advanced_keycodes.md:264`.
* The loop over the buffer stops when `process_tapping` returns false (`action_tapping.c:77`), also when that call has
  just decided a tap: its term is over (`action_tapping.c:202`), or its release waited already, which "FIX: start new
  tap again" (`action_tapping.c:249`) does not look for. Nothing is undecided then, so the event of the next scan
  overtakes the records left behind; if it is the release of one of their keys, that key stays in the report. TLC finds it
  with a term of three ticks and scans without a tick: two tap keys, one tapped twice, and a third key released two
  scans after its press, before which debouncing as a rule leaves more. A test
  tells of the tap that is missed (`ANewTapWithinTappingTermIsBuggy`, `tests/basic/test_tapping.cpp:53`), not of what
  is left in the buffer.
* "should none in buffer" (`action_tapping.c:260`) can fail while a one-shot layer is pending.
* The state a comment calls invalid, a `tapping_key` that is up with a tap count of 0
  (`action_tapping.c:360`), is reachable.
* The lock of the eager debounce algorithms ends early when the timer wraps (65536 is not a multiple of 250).

*Key processing*

* A third key empties the buffer of a combo whose keys are then typed; when the last of its keys completes it
  all the same, the first release is kept from the action (`process_combo.c:107`) and that key sticks. The third
  key may be the leader key or a space cadet key, and the keys may come from a macro.
* A combo key pressed when the timer reads 0 never times out (`process_combo.c:182`); `is_active` is false
  until a first key event, so that the first chord is ignored; a combo that is switched off while it is
  held keeps its code in the report.
* A locked key that auto shift holds back is tapped, not held.
* Auto shift shifts a key held longer than its time-out (`>`); its documentation says as long as or longer.
* The sixth key after the leader key ends the sequence, and the dictionary never sees it.
* Two `GRAVE_ESC` keys share one flag: the release of the first takes the code of the second.
* A recording that contains a key to start recording restarts it when it is played; one that ends within a
  tap dance leaves the dance's code in the report. The documentation lets macro 2 be played while macro 1
  is recorded; the code ignores play keys while it records (`dynamic_macro.h:250`). A second recording
  of a slot overwrites the first one although that still counts until the recording is stopped.

*Serial link, split keyboards, settings*

* An object for one slave is sent to destination `j + 1` (`transport.c:114`), a number where the router wants
  one bit for each slave (`frame_router.c:40`). The object for slave 3
  goes to slaves 1 and 2. No object of this type is used by the firmware itself; `transport_tests.cpp:135`
  expects the number and `frame_router_tests.cpp:120` the bits, each for its own module.
* `byte_stuffer_recv_byte` does not set `long_frame` for a block that follows a zero (`byte_stuffer.c:89-92`): a
  frame with a zero, 254 bytes without one and more data is taken for one with another zero, and
  dropped for its CRC. Frames of the firmware are shorter.
* An update of the light that comes before the slave has applied the one before replaces its flags; one that
  comes while the slave applies it is marked as applied (`transport.c:195`); and the master does not
  learn of a parity error at the slave. Each leaves the lights different until the next change.
* `rgblight_update_sync` applies the mode first, and the colour through `rgblight_sethsv_eeprom_helper`, which does nothing
  while the light is off (`rgblight.c:427`) and keeps the hue, or in breathing mode the value, of some modes
  (`rgblight.c:439-453`). When a change of the colour was not sent yet and the light is switched off, or set to such a
  mode, both arrive as one update and the slave drops the colour; the same at power on with the light off. Switching the light
  on again sends the mode only. So the halves show different colours although every transaction succeeded, where
  `RGBLIGHT_SPLIT` "enables synchronization of the RGB Light modes" (`docs/feature_split_keyboard.md:182`).
* The master looks the slave's copy of its last two reads of an encoder up once per poll (`encoder.c:108`): polls and
  copies that do not alternate count a step twice, or not at all, and an encoder turned back and forth while they do not
  drifts. The first copy may tell of a step that was never made, as `encoder_init` reads the pins once only.
* The I2C transport returns true whatever the bus says (`split_common/transport.c:82`): the other half is never
  taken for disconnected.
* `serial.c:356` and `:402` accept a transaction number equal to the size of the table.
* The magic number is the first byte that `eeconfig_init` writes: after a loss of power in the middle of it
  the remaining settings stay erased, and nothing initialises them.

## 7. Not modelled, and why

* In the modelled files: mouse, media, macro, function, backlight and swap-hands actions;
  `RETRO_TAPPING`, `ONESHOT_TIMEOUT`, `ONESHOT_TAP_TOGGLE`, locked one-shots,
  `STRICT_LAYER_RELEASE`, NKRO, `TAPPING_TERM_PER_KEY`; ghost detection and
  `QMK_KEYS_PER_SCAN` of `keyboard_task`; the user's hooks, taken to return true, but for
  dynamic macros and the leader dictionary, which are hooks.
* Of the features: tap dances with functions of the user, combos with actions, `FAUXCLICKY`, MIDI, steno,
  unicode, terminal, printer and music keys: I/O or strings of codes; tap keys in front of the chain.
* Of split keyboards: the I2C transport, whose calls have no state but the bus; the choice of hand and
  master; the bit timing of `serial.c`, which a model without real time cannot see.
* Of the settings: `bootmagic.c` and `command.c`, keys that set bytes; `dynamic_keymap.c`, a
  table in the EEPROM; the FlexRAM EEPROM of other Teensys, which is hardware.
* `dip_switch.c` compares an input with its last value; `mousekey.c` is tables of motion.
* Lighting other than its synchronization, audio, MIDI, the visualizer and haptics: no interaction with the keys.
* USB stacks, drivers, keyboards, layouts and users' keymaps, build tools: vendor code, register
  I/O and data. They are by far the most lines of the repository.

## 8. Plan

Done: the path from the matrix to the report, debouncing, the serial link from bytes to matrices,
the features in front of the action with dynamic macros, split keyboards over soft serial,
encoders, and settings in flash.

Left, most important first:

1. Proofs: ownership with one-shot layers and modifiers; that a recording of `DynamicMacro` stays within its part
   of the buffer, once it can be stated without a fold.
2. Models: `ONESHOT_TIMEOUT`, ghosting in `keyboard_task`, tap keys in front of the features.

Later components join the runs above where one instance can ask both questions.
