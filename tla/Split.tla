------------------------------- MODULE Split --------------------------------
(***************************************************************************)
(* The two halves of a split keyboard over the soft serial line           *)
(* (quantum/split_common: matrix.c, transport.c, serial.c with            *)
(* SERIAL_USE_MULTI_TRANSACTION, and the light synchronization of         *)
(* rgblight.c).                                                            *)
(*                                                                         *)
(* A transaction of the master runs with its interrupts off, and in one   *)
(* interrupt of the slave: it is one step, between any two steps of the   *)
(* slave's main loop.  A parity error or no answer ends it.               *)
(*                                                                         *)
(* A row of the slave's matrix is the number of its changes, where 0 also *)
(* is the row without keys.  It is what the processor copies at once: a   *)
(* row of up to eight columns, or a byte of a wider one.                   *)
(***************************************************************************)
EXTENDS Integers

CONSTANTS ROWS_PER_HAND,
          ERROR_DISCONNECT_COUNT,
          ErrorCountMax,           \* UINT8_MAX
          MaxChanges,              \* bound on the changes of a row
          Modes, Levels,           \* of the light
          Components,              \* those of a colour: hue, sat, val
          Ignored                  \* the components that do not count in a mode

ASSUME SplitAssumption ==
  /\ ROWS_PER_HAND \in Nat \ {0} /\ MaxChanges \in Nat
  /\ Ignored \in [Modes -> SUBSET Components] /\ "mode" \notin Components
  /\ ERROR_DISCONNECT_COUNT \in Nat /\ ErrorCountMax \in Nat
  /\ ERROR_DISCONNECT_COUNT < ErrorCountMax

Rows    == 1 .. ROWS_PER_HAND
Damaged == MaxChanges + 1                    \* what a row is after a parity error

Flags   == {"CHANGE_MODE", "CHANGE_HSVS"}    \* RGBLIGHT_STATUS_CHANGE_...
Lights  == [enable : BOOLEAN, mode : Modes, hsv : [Components -> Levels]]  \* rgblight_config
Updates == [light : Lights, flags : SUBSET Flags]                          \* rgblight_syncinfo

\* The parts of a light that an update with these flags sets.
Parts == {"mode"} \cup Components
PartsOf(flags) == (IF "CHANGE_MODE" \in flags THEN {"mode"} ELSE {})
                  \cup (IF "CHANGE_HSVS" \in flags THEN Components ELSE {})

VARIABLES
  \* of the master
  master_pc, matrix, error_count, master_buffer, master_light, change_flags,
  \* of the slave
  slave_pc, slave_row, slave_matrix, slave_buffer, slave_light, serial_rgblight, status_rgblight,
  \* for the properties: transactions that failed in a row, and the parts of
  \* the light whose last update the slave lost or dropped
  failed, missed

masterVars == <<master_pc, matrix, error_count, master_buffer, master_light, change_flags>>
slaveVars  == <<slave_pc, slave_row, slave_matrix, slave_buffer, slave_light,
                serial_rgblight, status_rgblight>>
splitVars  == <<masterVars, slaveVars, failed, missed>>

NoKeys == [i \in Rows |-> 0]

SplitInit ==
  /\ master_pc = "idle" /\ matrix = NoKeys /\ error_count = 0 /\ master_buffer = NoKeys
  /\ master_light \in Lights /\ change_flags = {"CHANGE_MODE", "CHANGE_HSVS"}
  /\ slave_pc = "scan" /\ slave_row = 1 /\ slave_matrix = NoKeys /\ slave_buffer = NoKeys
  /\ slave_light \in Lights
  /\ serial_rgblight = [light |-> slave_light, flags |-> {}] /\ status_rgblight = "NONE"
  /\ failed = 0 /\ missed = {}

-----------------------------------------------------------------------------
(* The light of either half (rgblight.c).                                  *)

\* rgblight_sethsv_eeprom_helper: nothing while the light is off, and some
\* modes keep a component as it was.
sethsv(light, hsv) ==
  IF light.enable
  THEN [light EXCEPT !.hsv = [x \in Components |->
                                IF x \in Ignored[light.mode] THEN light.hsv[x] ELSE hsv[x]]]
  ELSE light

\* rgblight_update_sync, its two parts.
UpdateMode(light, new) ==
  IF new.enable THEN [light EXCEPT !.enable = TRUE, !.mode = new.mode]
  ELSE [light EXCEPT !.enable = FALSE]
UpdateHsvs(light, new) == sethsv(light, new.hsv)

-----------------------------------------------------------------------------
(* The master.                                                             *)

Lit(light, flags) ==
  /\ master_pc = "idle"
  /\ master_light' = light /\ change_flags' = change_flags \cup flags
  /\ UNCHANGED <<master_pc, matrix, error_count, master_buffer, slaveVars, failed, missed>>

rgblight_toggle == Lit([master_light EXCEPT !.enable = ~@], {"CHANGE_MODE"})

rgblight_mode(mode) ==
  master_light.enable /\ Lit([master_light EXCEPT !.mode = mode], {"CHANGE_MODE"})

rgblight_sethsv(hsv) ==
  LET light == sethsv(master_light, hsv)
  IN  light # master_light /\ Lit(light, {"CHANGE_HSVS"})

rgblight_update_dword(light) == Lit(light, {"CHANGE_MODE", "CHANGE_HSVS"})

ChangeLight ==
  \/ rgblight_toggle
  \/ \E mode \in Modes : rgblight_mode(mode)
  \/ \E hsv \in [Components -> Levels] : rgblight_sethsv(hsv)
  \/ \E light \in Lights : rgblight_update_dword(light)

\* The slave is past the part of an update with flag f.
Passed(f) == slave_pc \in (IF f = "CHANGE_MODE" THEN {"hsvs", "end"} ELSE {"end"})

\* A part of the light that the slave has accepted and not yet applied.
Waits(f) == status_rgblight = "ACCEPTED" /\ f \in serial_rgblight.flags /\ ~Passed(f)

\* What an update with these flags keeps from the slave: what waited and is
\* not in it, and what it has for the steps that the slave is past.
LostBy(flags) ==
  PartsOf({f \in Flags \ flags : Waits(f)}) \cup PartsOf({f \in flags : Passed(f)})

\* Seeded fault: the flags are cleared without an answer of the slave.
PutLightForgets(outcome, damaged) ==
  /\ change_flags' = {}
  /\ IF outcome = "ACCEPTED"
     THEN /\ serial_rgblight' = [light |-> master_light, flags |-> change_flags]
          /\ status_rgblight' = "ACCEPTED"
          /\ missed' = missed \cup LostBy(change_flags)
     ELSE UNCHANGED <<serial_rgblight, status_rgblight, missed>>

\* The transaction PUT_RGBLIGHT.  The master does not learn that the slave
\* found a parity error, and the damaged update stays in the slave's buffer.
PutLight(outcome, damaged) ==
  /\ change_flags' = IF outcome = "NO_RESPONSE" THEN change_flags ELSE {}
  /\ \/ /\ outcome = "ACCEPTED" /\ status_rgblight' = "ACCEPTED"
        /\ serial_rgblight' = [light |-> master_light, flags |-> change_flags]
        /\ missed' = missed \cup LostBy(change_flags)
     \/ /\ outcome = "DATA_ERROR" /\ status_rgblight' = "DATA_ERROR"
        /\ serial_rgblight' = damaged
        /\ missed' = missed \cup LostBy({}) \cup PartsOf(change_flags)
     \/ outcome = "NO_RESPONSE" /\ UNCHANGED <<serial_rgblight, status_rgblight, missed>>

\* transport_rgblight_master.
MasterLight(outcome, damaged) ==
  /\ master_pc = "idle" /\ master_pc' = "rows"
  /\ IF change_flags # {} THEN PutLight(outcome, damaged)
     ELSE UNCHANGED <<change_flags, serial_rgblight, status_rgblight, missed>>
  /\ UNCHANGED <<matrix, error_count, master_buffer, master_light, slave_pc, slave_row, slave_matrix,
                 slave_buffer, slave_light, failed>>

MasterLights ==
  \/ \E outcome \in {"ACCEPTED", "NO_RESPONSE"} : MasterLight(outcome, serial_rgblight)
  \/ \E damaged \in Updates : MasterLight("DATA_ERROR", damaged)

\* Seeded fault: one failure more is waited for.
FailedLate(n) ==
  /\ error_count' = n
  /\ matrix' = IF n > ERROR_DISCONNECT_COUNT + 1 THEN NoKeys ELSE matrix
  /\ failed' = IF failed > ERROR_DISCONNECT_COUNT THEN failed ELSE failed + 1

\* matrix_scan after a transaction that failed.
Failed(n) ==
  /\ error_count' = n
  /\ matrix' = IF n > ERROR_DISCONNECT_COUNT THEN NoKeys ELSE matrix
  /\ failed' = IF failed > ERROR_DISCONNECT_COUNT THEN failed ELSE failed + 1

Received(outcome) ==
  CASE outcome = "END"         -> slave_buffer
    [] outcome = "DATA_ERROR"  -> [i \in Rows |-> Damaged]
    [] outcome = "NO_RESPONSE" -> master_buffer

\* Seeded fault: what was received is used whatever the outcome.
MasterRowsUnchecked(outcome) ==
  /\ master_pc = "rows" /\ master_pc' = "idle"
  /\ master_buffer' = Received(outcome)
  /\ matrix' = master_buffer' /\ error_count' = 0 /\ failed' = 0
  /\ UNCHANGED <<master_light, change_flags, slaveVars, missed>>

\* The transaction GET_SLAVE_MATRIX, and the rest of matrix_scan.
MasterRows(outcome) ==
  /\ master_pc = "rows" /\ master_pc' = "idle"
  /\ master_buffer' = Received(outcome)
  /\ IF outcome = "END" THEN matrix' = master_buffer' /\ error_count' = 0 /\ failed' = 0
     ELSE Failed((error_count + 1) % (ErrorCountMax + 1))
  /\ UNCHANGED <<master_light, change_flags, slaveVars, missed>>

Master ==
  \/ ChangeLight
  \/ MasterLights
  \/ \E outcome \in {"END", "DATA_ERROR", "NO_RESPONSE"} : MasterRows(outcome)

-----------------------------------------------------------------------------
(* The main loop of the slave: matrix_scan, transport_rgblight_slave with  *)
(* rgblight_update_sync, and the copy of the rows.                         *)

SlaveScan(changed) ==
  /\ slave_pc = "scan"
  /\ \A i \in changed : slave_matrix[i] < MaxChanges
  /\ slave_matrix' = [i \in Rows |-> IF i \in changed THEN slave_matrix[i] + 1 ELSE slave_matrix[i]]
  /\ slave_pc' = IF status_rgblight = "ACCEPTED" THEN "mode" ELSE "rows"
  /\ UNCHANGED <<masterVars, slave_row, slave_buffer, slave_light, serial_rgblight,
                 status_rgblight, failed, missed>>

\* rgblight_update_sync reads the flags and the light from the buffer that
\* the interrupt writes, one part after the other.  A part that is not
\* applied as it was sent is missed until the next update of it.
SlaveLight(pc, f, light, dropped, next) ==
  /\ slave_pc = pc /\ slave_pc' = next
  /\ IF f \notin serial_rgblight.flags THEN UNCHANGED <<slave_light, missed>>
     ELSE /\ slave_light' = light
          /\ missed' = IF status_rgblight = "ACCEPTED" THEN (missed \ PartsOf({f})) \cup dropped
                       ELSE missed \cup PartsOf({f})
  /\ UNCHANGED <<masterVars, slave_row, slave_matrix, slave_buffer, serial_rgblight,
                 status_rgblight, failed>>

SlaveMode ==
  SlaveLight("mode", "CHANGE_MODE", UpdateMode(slave_light, serial_rgblight.light), {}, "hsvs")

SlaveHsvs ==
  SlaveLight("hsvs", "CHANGE_HSVS", UpdateHsvs(slave_light, serial_rgblight.light),
             IF slave_light.enable THEN Ignored[slave_light.mode] ELSE Components, "end")

SlaveLightDone ==
  /\ slave_pc = "end" /\ slave_pc' = "rows"
  /\ status_rgblight' = "END"
  /\ UNCHANGED <<masterVars, slave_row, slave_matrix, slave_buffer, slave_light, serial_rgblight,
                 failed, missed>>

\* Seeded fault: the copy ends a row early.
SlaveRowShort ==
  /\ slave_pc = "rows"
  /\ slave_buffer' = [slave_buffer EXCEPT ![slave_row] = slave_matrix[slave_row]]
  /\ slave_row' = IF slave_row + 1 < ROWS_PER_HAND THEN slave_row + 1 ELSE 1
  /\ slave_pc' = IF slave_row + 1 < ROWS_PER_HAND THEN "rows" ELSE "scan"
  /\ UNCHANGED <<masterVars, slave_matrix, slave_light, serial_rgblight, status_rgblight,
                 failed, missed>>

\* One row of transport_slave's copy.
SlaveRow ==
  /\ slave_pc = "rows"
  /\ slave_buffer' = [slave_buffer EXCEPT ![slave_row] = slave_matrix[slave_row]]
  /\ slave_row' = (slave_row % ROWS_PER_HAND) + 1
  /\ slave_pc' = IF slave_row = ROWS_PER_HAND THEN "scan" ELSE "rows"
  /\ UNCHANGED <<masterVars, slave_matrix, slave_light, serial_rgblight, status_rgblight,
                 failed, missed>>

Slave ==
  \/ \E changed \in SUBSET Rows : SlaveScan(changed)
  \/ SlaveMode \/ SlaveHsvs \/ SlaveLightDone \/ SlaveRow

SplitNext == Master \/ Slave

SplitSpec == SplitInit /\ [][SplitNext]_splitVars

\* Both main loops run for ever, and the line does not damage every transaction.
SplitFairness ==
  /\ WF_splitVars(Slave)
  /\ WF_splitVars(MasterLights)
  /\ SF_splitVars(MasterRows("END"))

-----------------------------------------------------------------------------
(* Properties.                                                             *)

\* The master sees each row of the other half as it was, and never an older
\* one after a newer one, except that it takes the half for released when it
\* is disconnected: a transaction may come between the rows that the slave
\* copies, and may fail after some rows were received.
RowsNeverBack ==
  [][\A i \in Rows : \/ matrix[i] <= matrix'[i] /\ matrix'[i] <= slave_matrix[i]
                     \/ matrix'[i] = 0 /\ failed' > ERROR_DISCONNECT_COUNT]_matrix

\* "reset other half if disconnected" (matrix.c:321): no key of the other
\* half stays down once more than ERROR_DISCONNECT_COUNT transactions in a
\* row have failed, also when the eight bits of error_count wrap.
DisconnectedIsReleased == failed > ERROR_DISCONNECT_COUNT => matrix = NoKeys

\* Two lights agree on a part; that of a light that is off counts for nothing
\* of its mode.
SamePart(x, one, other) ==
  IF x = "mode"
  THEN one.enable = other.enable /\ (one.enable => one.mode = other.mode)
  ELSE one.hsv[x] = other.hsv[x]

\* The light of the slave follows the master's: once every change was sent
\* and dealt with, each part of it is the same, whatever failed or came in
\* between, unless the last update of that very part was lost (damaged, or
\* overtaken by one that came while the slave was at it) or dropped (the
\* slave's light was off, or in a mode that ignores the component).
LightsFollow ==
  change_flags = {} /\ status_rgblight # "ACCEPTED" =>
    \A x \in Parts \ missed : SamePart(x, slave_light, master_light)

\* Once the rows of the slave rest, the master has them again and again,
\* however often transactions fail.
RowsFollow ==
  \A i \in Rows, n \in 0 .. MaxChanges :
    <>[](slave_matrix[i] = n) => []<>(matrix[i] = n)

-----------------------------------------------------------------------------
(* The inductive invariant of SplitSpec, in named parts.                   *)

SplitTypeOK ==
  /\ matrix \in [Rows -> 0 .. MaxChanges] /\ error_count \in 0 .. ErrorCountMax
  /\ slave_matrix \in [Rows -> 0 .. MaxChanges] /\ slave_buffer \in [Rows -> 0 .. MaxChanges]
  /\ slave_row \in Rows /\ failed \in Nat /\ missed \subseteq Parts
  /\ master_light \in Lights /\ slave_light \in Lights
  /\ change_flags \subseteq Flags /\ serial_rgblight \in Updates

\* The transactions that failed are counted exactly until the half is taken
\* for disconnected, so error_count can wrap only after that.
CountInv ==
  /\ failed <= ERROR_DISCONNECT_COUNT => error_count = failed
  /\ DisconnectedIsReleased

\* A row goes from the slave's matrix through its buffer to the master.
RowsInv ==
  \A i \in Rows : matrix[i] <= slave_buffer[i] /\ slave_buffer[i] <= slave_matrix[i]

\* What waits in the slave's buffer is what the master has, unless it has a
\* newer one to send; and what neither waits nor is to be sent is the same in
\* both halves, unless it was missed.
LightInv ==
  \A f \in Flags \ change_flags : \A x \in PartsOf({f}) :
    /\ status_rgblight = "ACCEPTED" /\ f \in serial_rgblight.flags =>
         SamePart(x, serial_rgblight.light, master_light)
    /\ ~Waits(f) /\ x \notin missed => SamePart(x, slave_light, master_light)

SplitInv == SplitTypeOK /\ CountInv /\ RowsInv /\ LightInv
=============================================================================
