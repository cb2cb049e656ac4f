---------------------------- MODULE SplitProofs -----------------------------
(***************************************************************************)
(* Proofs about Split and Encoder, for any number of rows, changes and    *)
(* failures, any limit of the error count below its width, and any        *)
(* resolution of the encoder.                                              *)
(***************************************************************************)
EXTENDS Split, Encoder, TLAPS

-----------------------------------------------------------------------------
(* The rows of the other half.                                             *)

\* Each part of a light belongs to one flag.
LEMMA PartsOwner ==
  ASSUME NEW f \in Flags, NEW x \in PartsOf({f}), NEW flags \in SUBSET Flags
  PROVE  /\ x \in Parts /\ (x \in PartsOf(flags) <=> f \in flags)
         /\ (x = "mode" <=> f = "CHANGE_MODE") /\ (f = "CHANGE_HSVS" => x \in Components)
<1>1. "mode" \notin Components
  BY SplitAssumption
<1>2. CASE f = "CHANGE_MODE"
  BY <1>1, <1>2 DEF PartsOf, Parts
<1>3. CASE f = "CHANGE_HSVS"
  BY <1>1, <1>3 DEF PartsOf, Parts
<1> QED
  BY <1>2, <1>3 DEF Flags

LEMMA PartsAreParts == \A flags \in SUBSET Flags : PartsOf(flags) \subseteq Parts
BY DEF PartsOf, Parts

\* The operators on lights, and what of a light they leave.
LEMMA LightOps ==
  ASSUME NEW light \in Lights, NEW new \in Lights
  PROVE  /\ UpdateMode(light, new) \in Lights /\ SamePart("mode", UpdateMode(light, new), new)
         /\ UpdateMode(light, new).hsv = light.hsv
         /\ \A hsv \in [Components -> Levels] :
              /\ sethsv(light, hsv) \in Lights
              /\ sethsv(light, hsv).enable = light.enable /\ sethsv(light, hsv).mode = light.mode
         /\ \A x \in Components :
              light.enable /\ x \notin Ignored[light.mode] => UpdateHsvs(light, new).hsv[x] = new.hsv[x]
<1>1. light.hsv \in [Components -> Levels] /\ new.hsv \in [Components -> Levels]
  BY DEF Lights
<1>2. /\ UpdateMode(light, new) \in Lights /\ SamePart("mode", UpdateMode(light, new), new)
      /\ UpdateMode(light, new).hsv = light.hsv
  BY DEF Lights, UpdateMode, SamePart
<1>3. ASSUME NEW hsv \in [Components -> Levels]
      PROVE  /\ sethsv(light, hsv) \in Lights
             /\ sethsv(light, hsv).enable = light.enable /\ sethsv(light, hsv).mode = light.mode
             /\ \A x \in Components :
                  light.enable /\ x \notin Ignored[light.mode] => sethsv(light, hsv).hsv[x] = hsv[x]
  <2> DEFINE set == [x \in Components |->
                       IF x \in Ignored[light.mode] THEN light.hsv[x] ELSE hsv[x]]
  <2>1. set \in [Components -> Levels]
    BY <1>1
  <2>2. sethsv(light, hsv) = IF light.enable THEN [light EXCEPT !.hsv = set] ELSE light
    BY DEF sethsv
  <2>3. \A x \in Components : x \notin Ignored[light.mode] => set[x] = hsv[x]
    OBVIOUS
  <2> HIDE DEF set
  <2> QED
    BY <2>1, <2>2, <2>3 DEF Lights
<1> QED
  BY <1>1, <1>2, <1>3 DEF UpdateHsvs

LEMMA SplitInitInv == SplitInit => SplitInv
<1> SUFFICES ASSUME SplitInit
             PROVE  SplitInv
    OBVIOUS
<1> USE SplitAssumption DEF SplitInit, NoKeys
<1>1. SplitTypeOK
  <2>1. NoKeys \in [Rows -> 0 .. MaxChanges]
    OBVIOUS
  <2>2. 1 \in Rows /\ 0 \in 0 .. ErrorCountMax /\ change_flags \subseteq Flags /\ missed \subseteq Parts
    BY DEF Rows, Flags
  <2>3. serial_rgblight \in Updates
    BY DEF Updates
  <2> HIDE DEF NoKeys
  <2> QED
    BY <2>1, <2>2, <2>3 DEF SplitTypeOK
<1>2. CountInv
  BY DEF CountInv, DisconnectedIsReleased
<1>3. RowsInv
  BY DEF RowsInv, Rows
<1>4. LightInv
  BY DEF LightInv, Flags
<1> QED
  BY <1>1, <1>2, <1>3, <1>4 DEF SplitInv

\* What the master does to its light changes a part that it is then to send.
LEMMA LitKeeps ==
  ASSUME SplitInv, NEW light \in Lights, NEW flags \in SUBSET Flags, Lit(light, flags),
         "CHANGE_MODE" \notin flags => light.enable = master_light.enable /\ light.mode = master_light.mode,
         "CHANGE_HSVS" \notin flags => light.hsv = master_light.hsv
  PROVE  SplitInv'
<1> USE DEF SplitInv, Lit, slaveVars
<1>1. SplitTypeOK'
  BY DEF SplitTypeOK
<1>2. CountInv' /\ RowsInv'
  BY DEF CountInv, DisconnectedIsReleased, RowsInv
<1>3. LightInv'
  <2> SUFFICES ASSUME NEW f \in Flags \ change_flags', NEW x \in PartsOf({f})
               PROVE  /\ status_rgblight = "ACCEPTED" /\ f \in serial_rgblight.flags =>
                           SamePart(x, serial_rgblight.light, light)
                      /\ ~Waits(f) /\ x \notin missed => SamePart(x, slave_light, light)
    BY DEF LightInv, Waits, Passed, SamePart
  <2>1. f \in Flags \ change_flags /\ f \notin flags
    OBVIOUS
  <2>2. \A other : SamePart(x, other, light) <=> SamePart(x, other, master_light)
    BY <2>1, PartsOwner DEF SamePart, Flags
  <2> QED
    BY <2>1, <2>2 DEF LightInv
<1> QED
  BY <1>1, <1>2, <1>3

LEMMA ChangeLightKeeps ==
  ASSUME SplitInv, ChangeLight
  PROVE  SplitInv'
<1>1. master_light \in Lights
  BY DEF SplitInv, SplitTypeOK
<1>2. CASE rgblight_toggle
  <2>1. [master_light EXCEPT !.enable = ~@] \in Lights
    BY <1>1 DEF Lights
  <2> QED
    BY <1>1, <1>2, <2>1, LitKeeps DEF rgblight_toggle, Flags, Lights
<1>3. ASSUME NEW mode \in Modes, rgblight_mode(mode)
      PROVE  SplitInv'
  <2>1. [master_light EXCEPT !.mode = mode] \in Lights
    BY <1>1 DEF Lights
  <2> QED
    BY <1>1, <1>3, <2>1, LitKeeps DEF rgblight_mode, Flags, Lights
<1>4. ASSUME NEW hsv \in [Components -> Levels], rgblight_sethsv(hsv)
      PROVE  SplitInv'
  <2>1. /\ sethsv(master_light, hsv) \in Lights
        /\ sethsv(master_light, hsv).enable = master_light.enable
        /\ sethsv(master_light, hsv).mode = master_light.mode
    BY <1>1, LightOps
  <2> QED
    BY <1>4, <2>1, LitKeeps DEF rgblight_sethsv, Flags
<1>5. ASSUME NEW light \in Lights, rgblight_update_dword(light)
      PROVE  SplitInv'
  BY <1>5, LitKeeps DEF rgblight_update_dword, Flags
<1> QED
  BY <1>2, <1>3, <1>4, <1>5 DEF ChangeLight

\* No step of the rows writes what LightInv is about.
LEMMA LightKept ==
  ASSUME LightInv, UNCHANGED <<master_light, change_flags, slave_light, serial_rgblight,
                               status_rgblight, missed>>,
         \A f \in Flags : Passed(f)' <=> Passed(f)
  PROVE  LightInv'
<1>1. \A f \in Flags : Waits(f)' <=> Waits(f)
  BY DEF Waits
<1> QED
  BY <1>1 DEF LightInv, SamePart

LEMMA PutLightKeeps ==
  ASSUME SplitInv, NEW outcome \in {"ACCEPTED", "DATA_ERROR", "NO_RESPONSE"},
         NEW damaged \in Updates, PutLight(outcome, damaged),
         UNCHANGED <<slave_pc, slave_light, master_light>>
  PROVE  /\ change_flags' \subseteq Flags /\ missed' \subseteq Parts
         /\ serial_rgblight' \in Updates /\ LightInv'
<1>t. /\ change_flags \subseteq Flags /\ missed \subseteq Parts
      /\ master_light \in Lights /\ serial_rgblight \in Updates
  BY DEF SplitInv, SplitTypeOK
<1>p. \A f \in Flags : Passed(f)' <=> Passed(f)
  BY DEF Passed
<1>l. \A flags \in SUBSET Flags : LostBy(flags) \subseteq Parts
  BY PartsAreParts DEF LostBy
<1>1. CASE outcome = "NO_RESPONSE"
  <2>1. /\ change_flags' = change_flags /\ missed' = missed
        /\ serial_rgblight' = serial_rgblight /\ status_rgblight' = status_rgblight
    BY <1>1 DEF PutLight
  <2> QED
    BY <1>t, <1>p, <2>1, LightKept DEF SplitInv
<1>2. CASE outcome = "DATA_ERROR"
  <2>1. /\ change_flags' = {} /\ status_rgblight' = "DATA_ERROR" /\ serial_rgblight' = damaged
        /\ missed' = missed \cup LostBy({}) \cup PartsOf(change_flags)
    BY <1>2 DEF PutLight
  <2>2. missed' \subseteq Parts
    BY <1>t, <1>l, <2>1, PartsAreParts
  <2>3. ASSUME NEW f \in Flags, NEW x \in PartsOf({f}), x \notin missed'
        PROVE  SamePart(x, slave_light, master_light)
    <3>1. f \notin change_flags /\ x \notin missed
      BY <1>t, <2>1, <2>3, PartsOwner
    <3>2. ~Waits(f)
      <4>1. SUFFICES f \notin {g \in Flags \ {} : Waits(g)}
        OBVIOUS
      <4>2. {g \in Flags \ {} : Waits(g)} \in SUBSET Flags /\ x \notin PartsOf({g \in Flags \ {} : Waits(g)})
        BY <2>1, <2>3 DEF LostBy
      <4> QED
        BY <4>2, PartsOwner
    <3> QED
      BY <3>1, <3>2 DEF SplitInv, LightInv
  <2>4. LightInv'
    BY <2>1, <2>3 DEF LightInv, SamePart
  <2> QED
    BY <2>1, <2>2, <2>4
<1>3. CASE outcome = "ACCEPTED"
  <2>1. /\ change_flags' = {} /\ status_rgblight' = "ACCEPTED"
        /\ serial_rgblight' = [light |-> master_light, flags |-> change_flags]
        /\ missed' = missed \cup LostBy(change_flags)
    BY <1>3 DEF PutLight
  <2>2. missed' \subseteq Parts /\ serial_rgblight' \in Updates
    BY <1>t, <1>l, <2>1 DEF Updates
  <2>3. ASSUME NEW f \in Flags, NEW x \in PartsOf({f}), ~Waits(f)', x \notin missed'
        PROVE  SamePart(x, slave_light, master_light)
    <3> DEFINE Lost == {g \in Flags \ change_flags : Waits(g)}
               Late == {g \in change_flags : Passed(g)}
    <3>1. Lost \in SUBSET Flags /\ Late \in SUBSET Flags /\ x \notin PartsOf(Lost) \cup PartsOf(Late)
      BY <1>t, <2>1, <2>3 DEF LostBy
    <3>2. f \notin Lost /\ f \notin Late
      BY <3>1, PartsOwner
    <3>3. f \notin change_flags
      BY <1>p, <2>1, <2>3, <3>2 DEF Waits
    <3>4. ~Waits(f) /\ x \notin missed
      BY <2>1, <2>3, <3>2, <3>3
    <3> QED
      BY <3>3, <3>4 DEF SplitInv, LightInv
  <2>4. \A x \in Parts : SamePart(x, master_light, master_light)
    BY DEF SamePart
  <2>5. LightInv'
    <3> SUFFICES ASSUME NEW f \in Flags, NEW x \in PartsOf({f})
                 PROVE  /\ (status_rgblight = "ACCEPTED" /\ f \in serial_rgblight.flags)' =>
                              SamePart(x, serial_rgblight.light, master_light)'
                        /\ (~Waits(f))' /\ x \notin missed' => SamePart(x, slave_light, master_light)'
      BY DEF LightInv
    <3> QED
      BY <2>1, <2>3 DEF SamePart
  <2> QED
    BY <2>1, <2>2, <2>5
<1> QED
  BY <1>1, <1>2, <1>3

LEMMA MasterLightKeeps ==
  ASSUME SplitInv, NEW outcome \in {"ACCEPTED", "DATA_ERROR", "NO_RESPONSE"},
         NEW damaged \in Updates, MasterLight(outcome, damaged)
  PROVE  SplitInv'
<1>1. UNCHANGED <<matrix, error_count, master_buffer, master_light, slave_pc, slave_row,
                  slave_matrix, slave_buffer, slave_light, failed>>
  BY DEF MasterLight
<1>2. /\ change_flags' \subseteq Flags /\ missed' \subseteq Parts
      /\ serial_rgblight' \in Updates /\ LightInv'
  <2>1. CASE PutLight(outcome, damaged)
    BY <1>1, <2>1, PutLightKeeps
  <2>2. CASE UNCHANGED <<change_flags, serial_rgblight, status_rgblight, missed>>
    <3>1. LightInv'
      BY <1>1, <2>2, LightKept DEF SplitInv, Passed
    <3> QED
      BY <2>2, <3>1 DEF SplitInv, SplitTypeOK
  <2> QED
    BY <2>1, <2>2 DEF MasterLight
<1>3. SplitTypeOK'
  BY <1>1, <1>2 DEF SplitInv, SplitTypeOK
<1>4. CountInv' /\ RowsInv'
  BY <1>1 DEF SplitInv, CountInv, DisconnectedIsReleased, RowsInv
<1> QED
  BY <1>2, <1>3, <1>4 DEF SplitInv

\* A failed transaction leaves the rows as they are, or releases them all
\* when it is one too many.
LEMMA FailedKeeps ==
  ASSUME SplitTypeOK, CountInv, Failed((error_count + 1) % (ErrorCountMax + 1))
  PROVE  /\ error_count' \in 0 .. ErrorCountMax /\ failed' \in Nat /\ CountInv'
         /\ \/ matrix' = matrix
            \/ (matrix' = NoKeys /\ failed' > ERROR_DISCONNECT_COUNT)
<1> DEFINE n == (error_count + 1) % (ErrorCountMax + 1)
<1>1. /\ error_count \in 0 .. ErrorCountMax /\ failed \in Nat
      /\ ERROR_DISCONNECT_COUNT \in Nat /\ ErrorCountMax \in Nat
      /\ ERROR_DISCONNECT_COUNT < ErrorCountMax
  BY SplitAssumption DEF SplitTypeOK
<1>2. n \in 0 .. ErrorCountMax /\ (error_count < ErrorCountMax => n = error_count + 1)
  BY <1>1
<1>3. /\ error_count' = n
      /\ n > ERROR_DISCONNECT_COUNT => matrix' = NoKeys
      /\ ~(n > ERROR_DISCONNECT_COUNT) => matrix' = matrix
      /\ failed > ERROR_DISCONNECT_COUNT => failed' = failed
      /\ ~(failed > ERROR_DISCONNECT_COUNT) => failed' = failed + 1
  BY DEF Failed
<1> HIDE DEF n
<1>4. CASE failed > ERROR_DISCONNECT_COUNT
  <2>1. matrix = NoKeys
    BY <1>4 DEF CountInv, DisconnectedIsReleased
  <2> QED
    BY <1>1, <1>2, <1>3, <1>4, <2>1 DEF CountInv, DisconnectedIsReleased, NoKeys
<1>5. CASE ~(failed > ERROR_DISCONNECT_COUNT)
  <2>1. error_count = failed /\ n = failed + 1
    BY <1>1, <1>2, <1>5 DEF CountInv
  <2> QED
    BY <1>1, <1>2, <1>3, <1>5, <2>1 DEF CountInv, DisconnectedIsReleased, NoKeys
<1> QED
  BY <1>4, <1>5

LEMMA ReleasedRows == NoKeys \in [Rows -> 0 .. MaxChanges] /\ \A i \in Rows : NoKeys[i] = 0
BY SplitAssumption DEF NoKeys

LEMMA MasterRowsKeeps ==
  ASSUME SplitInv, NEW outcome \in {"END", "DATA_ERROR", "NO_RESPONSE"}, MasterRows(outcome)
  PROVE  SplitInv'
<1>1. UNCHANGED <<master_light, change_flags, slaveVars, missed>>
  BY DEF MasterRows
<1>2. LightInv'
  BY <1>1, LightKept DEF SplitInv, Passed, slaveVars
<1>3. CASE outcome = "END"
  <2>1. matrix' = slave_buffer /\ error_count' = 0 /\ failed' = 0
    BY <1>3 DEF MasterRows, Received
  <2>2. SplitTypeOK' /\ RowsInv'
    BY <1>1, <2>1, SplitAssumption DEF SplitInv, SplitTypeOK, RowsInv, slaveVars
  <2>3. CountInv'
    BY <2>1, SplitAssumption DEF CountInv, DisconnectedIsReleased
  <2> QED
    BY <1>2, <2>2, <2>3 DEF SplitInv
<1>4. CASE outcome # "END"
  <2>1. Failed((error_count + 1) % (ErrorCountMax + 1))
    BY <1>4 DEF MasterRows
  <2>2. /\ error_count' \in 0 .. ErrorCountMax /\ failed' \in Nat /\ CountInv'
        /\ (matrix' = matrix \/ matrix' = NoKeys)
    BY <2>1, FailedKeeps DEF SplitInv
  <2>3. SplitTypeOK'
    BY <1>1, <2>2, ReleasedRows DEF SplitInv, SplitTypeOK, slaveVars
  <2>4. RowsInv'
    BY <1>1, <2>2, ReleasedRows DEF SplitInv, SplitTypeOK, RowsInv, slaveVars
  <2> QED
    BY <1>2, <2>2, <2>3, <2>4 DEF SplitInv
<1> QED
  BY <1>3, <1>4

LEMMA SlaveScanKeeps ==
  ASSUME SplitInv, NEW changed \in SUBSET Rows, SlaveScan(changed)
  PROVE  SplitInv'
<1>1. /\ slave_pc = "scan"
      /\ slave_pc' = IF status_rgblight = "ACCEPTED" THEN "mode" ELSE "rows"
      /\ UNCHANGED <<masterVars, slave_row, slave_buffer, slave_light, serial_rgblight,
                     status_rgblight, failed, missed>>
  BY DEF SlaveScan
<1>2. /\ slave_matrix' \in [Rows -> 0 .. MaxChanges]
      /\ \A i \in Rows : slave_matrix[i] <= slave_matrix'[i]
  BY SplitAssumption DEF SlaveScan, SplitInv, SplitTypeOK
<1>3. SplitTypeOK' /\ CountInv'
  BY <1>1, <1>2 DEF SplitInv, SplitTypeOK, CountInv, DisconnectedIsReleased, masterVars
<1>4. RowsInv'
  BY <1>1, <1>2, SplitAssumption DEF SplitInv, SplitTypeOK, RowsInv, masterVars
<1>5. \A f \in Flags : Passed(f)' <=> Passed(f)
  BY <1>1 DEF Passed
<1>6. LightInv'
  BY <1>1, <1>5, LightKept DEF SplitInv, masterVars
<1> QED
  BY <1>3, <1>4, <1>6 DEF SplitInv

\* One half of rgblight_update_sync applies the part with flag f, and no
\* other; what it does not apply as it was sent is missed.
LEMMA SlaveLightKeeps ==
  ASSUME SplitInv, NEW f \in Flags, NEW light \in Lights, NEW dropped \in SUBSET PartsOf({f}),
         SlaveLight(IF f = "CHANGE_MODE" THEN "mode" ELSE "hsvs", f, light, dropped,
                    IF f = "CHANGE_MODE" THEN "hsvs" ELSE "end"),
         \A x \in PartsOf({f}) \ dropped : SamePart(x, light, serial_rgblight.light),
         \A g \in Flags \ {f} : \A x \in PartsOf({g}) :
           SamePart(x, light, master_light) <=> SamePart(x, slave_light, master_light)
  PROVE  SplitInv'
<1>1. /\ slave_pc = (IF f = "CHANGE_MODE" THEN "mode" ELSE "hsvs")
      /\ slave_pc' = (IF f = "CHANGE_MODE" THEN "hsvs" ELSE "end")
      /\ UNCHANGED <<masterVars, slave_row, slave_matrix, slave_buffer, serial_rgblight,
                     status_rgblight, failed>>
  BY DEF SlaveLight
<1>2. ~Passed(f) /\ Passed(f)' /\ \A g \in Flags \ {f} : Passed(g)' <=> Passed(g)
  BY <1>1 DEF Passed, Flags
<1>t. /\ slave_light \in Lights /\ missed \subseteq Parts /\ serial_rgblight \in Updates
      /\ master_light \in Lights /\ {f} \in SUBSET Flags
  BY DEF SplitInv, SplitTypeOK
<1>3. CASE f \notin serial_rgblight.flags
  <2>1. slave_light' = slave_light /\ missed' = missed
    BY <1>3 DEF SlaveLight
  <2>2. SplitTypeOK' /\ CountInv' /\ RowsInv'
    BY <1>1, <2>1
    DEF SplitInv, SplitTypeOK, CountInv, DisconnectedIsReleased, RowsInv, masterVars
  <2>3. \A g \in Flags : Waits(g)' <=> Waits(g)
    BY <1>1, <1>2, <1>3 DEF Waits
  <2>4. LightInv'
    BY <1>1, <2>1, <2>3 DEF SplitInv, LightInv, SamePart, masterVars
  <2> QED
    BY <2>2, <2>4 DEF SplitInv
<1>4. CASE f \in serial_rgblight.flags
  <2>1. /\ slave_light' = light
        /\ missed' = IF status_rgblight = "ACCEPTED" THEN (missed \ PartsOf({f})) \cup dropped
                     ELSE missed \cup PartsOf({f})
    BY <1>4 DEF SlaveLight
  <2>2. PartsOf({f}) \subseteq Parts
    BY <1>t, PartsAreParts
  <2>3. missed' \subseteq Parts
    BY <1>t, <2>1, <2>2
  <2>4. SplitTypeOK' /\ CountInv' /\ RowsInv'
    BY <1>1, <2>1, <2>3
    DEF SplitInv, SplitTypeOK, CountInv, DisconnectedIsReleased, RowsInv, masterVars
  <2>5. ASSUME NEW g \in Flags \ change_flags, NEW x \in PartsOf({g}), ~Waits(g)', x \notin missed'
        PROVE  SamePart(x, light, master_light)
    <3>1. CASE g = f
      <4>1. status_rgblight = "ACCEPTED" /\ x \notin dropped
        BY <2>1, <2>5, <3>1
      <4>2. SamePart(x, light, serial_rgblight.light) /\ SamePart(x, serial_rgblight.light, master_light)
        BY <1>4, <3>1, <4>1 DEF SplitInv, LightInv
      <4> QED
        BY <4>2 DEF SamePart
    <3>2. CASE g # f
      <4>1. x \notin PartsOf({f})
        BY <1>t, <3>2, PartsOwner
      <4>2. x \notin missed /\ ~Waits(g)
        BY <1>1, <1>2, <2>1, <2>5, <3>2, <4>1 DEF Waits
      <4>3. SamePart(x, slave_light, master_light)
        BY <4>2 DEF SplitInv, LightInv
      <4> QED
        BY <3>2, <4>3
    <3> QED
      BY <3>1, <3>2
  <2>6. LightInv'
    BY <1>1, <2>1, <2>5 DEF SplitInv, LightInv, SamePart, masterVars
  <2> QED
    BY <2>4, <2>6 DEF SplitInv
<1> QED
  BY <1>3, <1>4

LEMMA SlaveModeKeeps ==
  ASSUME SplitInv, SlaveMode
  PROVE  SplitInv'
<1> DEFINE f == "CHANGE_MODE"
           light == UpdateMode(slave_light, serial_rgblight.light)
<1>1. /\ slave_light \in Lights /\ master_light \in Lights /\ serial_rgblight \in Updates
      /\ serial_rgblight.light \in Lights
  BY DEF SplitInv, SplitTypeOK, Updates
<1>2. /\ light \in Lights /\ SamePart("mode", light, serial_rgblight.light)
      /\ light.hsv = slave_light.hsv
  BY <1>1, LightOps
<1>3. f \in Flags /\ PartsOf({f}) = {"mode"} /\ Flags \ {f} = {"CHANGE_HSVS"}
      /\ PartsOf({"CHANGE_HSVS"}) = Components /\ "mode" \notin Components
  BY SplitAssumption DEF Flags, PartsOf
<1> HIDE DEF light
<1>4. \A g \in Flags \ {f} : \A x \in PartsOf({g}) :
        SamePart(x, light, master_light) <=> SamePart(x, slave_light, master_light)
  BY <1>2, <1>3 DEF SamePart
<1>5. SlaveLight("mode", f, light, {}, "hsvs")
  BY DEF SlaveMode, light
<1> QED
  BY <1>2, <1>3, <1>4, <1>5, SlaveLightKeeps

LEMMA SlaveHsvsKeeps ==
  ASSUME SplitInv, SlaveHsvs
  PROVE  SplitInv'
<1> DEFINE f == "CHANGE_HSVS"
           light == UpdateHsvs(slave_light, serial_rgblight.light)
           dropped == IF slave_light.enable THEN Ignored[slave_light.mode] ELSE Components
<1>1. /\ slave_light \in Lights /\ master_light \in Lights
      /\ serial_rgblight.light \in Lights /\ serial_rgblight.light.hsv \in [Components -> Levels]
  BY DEF SplitInv, SplitTypeOK, Updates, Lights
<1>2. /\ light \in Lights /\ light.enable = slave_light.enable /\ light.mode = slave_light.mode
      /\ \A x \in Components : x \notin dropped => light.hsv[x] = serial_rgblight.light.hsv[x]
  BY <1>1, LightOps DEF UpdateHsvs
<1>3. f \in Flags /\ PartsOf({f}) = Components /\ Flags \ {f} = {"CHANGE_MODE"}
      /\ PartsOf({"CHANGE_MODE"}) = {"mode"} /\ "mode" \notin Components
  BY SplitAssumption DEF Flags, PartsOf
<1>4. dropped \in SUBSET Components
  BY <1>1, SplitAssumption DEF Lights
<1>5. SlaveLight("hsvs", f, light, dropped, "end")
  BY DEF SlaveHsvs
<1> HIDE DEF light, dropped
<1>6. \A g \in Flags \ {f} : \A x \in PartsOf({g}) :
        SamePart(x, light, master_light) <=> SamePart(x, slave_light, master_light)
  BY <1>2, <1>3 DEF SamePart
<1>7. \A x \in PartsOf({f}) \ dropped : SamePart(x, light, serial_rgblight.light)
  BY <1>2, <1>3 DEF SamePart
<1> QED
  BY <1>2, <1>3, <1>4, <1>5, <1>6, <1>7, SlaveLightKeeps

LEMMA SlaveLightDoneKeeps ==
  ASSUME SplitInv, SlaveLightDone
  PROVE  SplitInv'
<1>1. /\ slave_pc = "end" /\ slave_pc' = "rows" /\ status_rgblight' = "END"
      /\ UNCHANGED <<masterVars, slave_row, slave_matrix, slave_buffer, slave_light,
                     serial_rgblight, failed, missed>>
  BY DEF SlaveLightDone
<1>2. SplitTypeOK' /\ CountInv' /\ RowsInv'
  BY <1>1 DEF SplitInv, SplitTypeOK, CountInv, DisconnectedIsReleased, RowsInv, masterVars
<1>3. \A f \in Flags : ~Waits(f) /\ ~Waits(f)'
  BY <1>1 DEF Waits, Passed
<1>4. LightInv'
  BY <1>1, <1>3 DEF SplitInv, LightInv, SamePart, masterVars
<1> QED
  BY <1>2, <1>4 DEF SplitInv

LEMMA SlaveRowKeeps ==
  ASSUME SplitInv, SlaveRow
  PROVE  SplitInv'
<1>1. /\ slave_pc = "rows" /\ slave_pc' \in {"scan", "rows"}
      /\ slave_buffer' = [slave_buffer EXCEPT ![slave_row] = slave_matrix[slave_row]]
      /\ slave_row' = (slave_row % ROWS_PER_HAND) + 1
      /\ UNCHANGED <<masterVars, slave_matrix, slave_light, serial_rgblight, status_rgblight,
                     failed, missed>>
  BY DEF SlaveRow
<1>2. slave_row' \in Rows
  BY <1>1, SplitAssumption DEF SplitInv, SplitTypeOK, Rows
<1>3. SplitTypeOK' /\ CountInv'
  BY <1>1, <1>2 DEF SplitInv, SplitTypeOK, CountInv, DisconnectedIsReleased, masterVars
<1>4. RowsInv'
  BY <1>1, SplitAssumption DEF SplitInv, SplitTypeOK, RowsInv, masterVars
<1>5. \A f \in Flags : Passed(f)' <=> Passed(f)
  BY <1>1 DEF Passed
<1>6. LightInv'
  BY <1>1, <1>5, LightKept DEF SplitInv, masterVars
<1> QED
  BY <1>3, <1>4, <1>6 DEF SplitInv

LEMMA SplitNextInv == SplitInv /\ [SplitNext]_splitVars => SplitInv'
<1> SUFFICES ASSUME SplitInv, [SplitNext]_splitVars
             PROVE  SplitInv'
    OBVIOUS
<1>1. CASE Master
  <2>1. ASSUME MasterLights
        PROVE  SplitInv'
    <3>1. serial_rgblight \in Updates
      BY DEF SplitInv, SplitTypeOK
    <3> QED
      BY <2>1, <3>1, MasterLightKeeps DEF MasterLights
  <2> QED
    BY <1>1, <2>1, ChangeLightKeeps, MasterRowsKeeps DEF Master
<1>2. CASE Slave
  BY <1>2, SlaveScanKeeps, SlaveModeKeeps, SlaveHsvsKeeps, SlaveLightDoneKeeps, SlaveRowKeeps
  DEF Slave
<1>3. CASE UNCHANGED splitVars
  <2>1. LightInv'
    BY <1>3, LightKept DEF splitVars, masterVars, slaveVars, SplitInv, Passed
  <2> QED
    BY <1>3, <2>1 DEF splitVars, masterVars, slaveVars, SplitInv, SplitTypeOK, CountInv,
                      DisconnectedIsReleased, RowsInv
<1> QED
  BY <1>1, <1>2, <1>3 DEF SplitNext

\* The rows and each part of the light of the two halves stay related in every
\* reachable state of the two loops, whatever the line does to a transaction.
THEOREM SplitInvariance == SplitSpec => []SplitInv
<1> QED
  BY SplitInitInv, SplitNextInv, PTL DEF SplitSpec

\* No key of the other half stays down once more than ERROR_DISCONNECT_COUNT
\* transactions in a row have failed, although error_count wraps.
THEOREM Disconnection == SplitSpec => []DisconnectedIsReleased
<1>1. SplitInv => DisconnectedIsReleased
  BY DEF SplitInv, CountInv
<1> QED
  BY <1>1, SplitInvariance, PTL

\* When every change of the light was sent and dealt with, each part of the
\* slave's light is the master's, but those whose last update the slave lost
\* or dropped: for any modes, components and levels, any components that a
\* mode ignores, and any lights that the halves begin with.
THEOREM LightFollowing == SplitSpec => []LightsFollow
<1>1. SplitInv => LightsFollow
  <2> SUFFICES ASSUME SplitInv, change_flags = {}, status_rgblight # "ACCEPTED",
                      NEW x \in Parts \ missed
               PROVE  SamePart(x, slave_light, master_light)
    BY DEF LightsFollow
  <2>1. \A f \in Flags : ~Waits(f)
    BY DEF Waits
  <2>2. PICK f \in Flags : x \in PartsOf({f})
    BY DEF Parts, PartsOf, Flags
  <2> QED
    BY <2>1, <2>2 DEF SplitInv, LightInv
<1> QED
  BY <1>1, SplitInvariance, PTL

\* The master never takes an older row after a newer one, and none that the
\* slave has not had, but to release the rows of a half that is gone.
THEOREM RowOrder == SplitSpec => RowsNeverBack
<1> DEFINE RowsStep ==
      \A i \in Rows : \/ matrix[i] <= matrix'[i] /\ matrix'[i] <= slave_matrix[i]
                      \/ matrix'[i] = 0 /\ failed' > ERROR_DISCONNECT_COUNT
<1>1. SplitInv /\ [SplitNext]_splitVars => [RowsStep]_matrix
  <2> SUFFICES ASSUME SplitInv, [SplitNext]_splitVars, matrix' # matrix
               PROVE  RowsStep
    OBVIOUS
  <2>1. PICK outcome \in {"END", "DATA_ERROR", "NO_RESPONSE"} : MasterRows(outcome)
    <3>1. ~ChangeLight /\ ~MasterLights
      BY DEF ChangeLight, Lit, rgblight_toggle, rgblight_mode, rgblight_sethsv,
             rgblight_update_dword, MasterLights, MasterLight
    <3>2. ~Slave
      BY DEF Slave, SlaveScan, SlaveMode, SlaveHsvs, SlaveLight, SlaveLightDone, SlaveRow, masterVars
    <3> QED
      BY <3>1, <3>2 DEF SplitNext, Master, splitVars, masterVars
  <2>2. CASE outcome = "END"
    <3>1. matrix' = slave_buffer
      BY <2>1, <2>2 DEF MasterRows, Received
    <3> QED
      BY <3>1 DEF SplitInv, RowsInv
  <2>3. CASE outcome # "END"
    <3>1. Failed((error_count + 1) % (ErrorCountMax + 1))
      BY <2>1, <2>3 DEF MasterRows
    <3>2. matrix' = NoKeys /\ failed' > ERROR_DISCONNECT_COUNT
      BY <3>1, FailedKeeps DEF SplitInv
    <3> QED
      BY <3>2, ReleasedRows
  <2> QED
    BY <2>2, <2>3
<1> QED
  BY <1>1, SplitInvariance, PTL DEF SplitSpec, RowsNeverBack

-----------------------------------------------------------------------------
(* The steps of an encoder.                                                *)

\* Any two positions at most a step apart are told apart by the pins.
LEMMA StepOfPins ==
  ASSUME NEW p \in Int, NEW r \in Int, p - r \in {-1, 0, 1},
         NEW s \in 0 .. 15, s % 4 = Pins(r)
  PROVE  Step((s * 4 + Pins(p)) % 16) = p - r
<1>1. r % 4 \in 0 .. 3 /\ p % 4 \in 0 .. 3
  BY Z3
<1>2. /\ p - r = 0 => p % 4 = r % 4
      /\ p - r = 1 => p % 4 = (IF r % 4 = 3 THEN 0 ELSE (r % 4) + 1)
      /\ p - r = -1 => p % 4 = (IF r % 4 = 0 THEN 3 ELSE (r % 4) - 1)
  BY Z3
<1>3. /\ \A q \in {p, r} : q % 4 = 0 => Pins(q) = 0
      /\ \A q \in {p, r} : q % 4 = 1 => Pins(q) = 2
      /\ \A q \in {p, r} : q % 4 = 2 => Pins(q) = 3
      /\ \A q \in {p, r} : q % 4 = 3 => Pins(q) = 1
  BY DEF Pins
<1>4. \A c \in 0 .. 3 : (s * 4 + c) % 16 = (s % 4) * 4 + c
  OBVIOUS
<1>5. Pins(p) \in 0 .. 3 /\ (s * 4 + Pins(p)) % 16 = Pins(r) * 4 + Pins(p)
  BY <1>1, <1>3, <1>4
<1>6. /\ encoder_LUT[1] = 0 /\ encoder_LUT[2] = -1 /\ encoder_LUT[3] = 1 /\ encoder_LUT[4] = 0
      /\ encoder_LUT[5] = 1 /\ encoder_LUT[6] = 0 /\ encoder_LUT[7] = 0 /\ encoder_LUT[8] = -1
      /\ encoder_LUT[9] = -1 /\ encoder_LUT[10] = 0 /\ encoder_LUT[11] = 0 /\ encoder_LUT[12] = 1
      /\ encoder_LUT[13] = 0 /\ encoder_LUT[14] = 1 /\ encoder_LUT[15] = -1
      /\ encoder_LUT[16] = 0
  BY DEF encoder_LUT
<1>7. Step((s * 4 + Pins(p)) % 16) = encoder_LUT[Pins(r) * 4 + Pins(p) + 1]
  BY <1>5 DEF Step
<1>8. CASE r % 4 = 0
  BY <1>2, <1>3, <1>6, <1>7, <1>8
<1>9. CASE r % 4 = 1
  BY <1>2, <1>3, <1>6, <1>7, <1>9
<1>10. CASE r % 4 = 2
  BY <1>2, <1>3, <1>6, <1>7, <1>10
<1>11. CASE r % 4 = 3
  BY <1>2, <1>3, <1>6, <1>7, <1>11
<1> QED
  BY <1>1, <1>8, <1>9, <1>10, <1>11

LEMMA StepRange ==
  ASSUME NEW state \in 0 .. 15
  PROVE  Step(state) \in {-1, 0, 1}
BY DEF Step, encoder_LUT

\* A step keeps what encoder_update leaves below a detent, and one that
\* completes a detent leaves nothing.
LEMMA RemainderOfStep ==
  ASSUME NEW v \in (0 - ENCODER_RESOLUTION) .. ENCODER_RESOLUTION
  PROVE  /\ v = ENCODER_RESOLUTION => Remainder(v, ENCODER_RESOLUTION) = 0
         /\ v = 0 - ENCODER_RESOLUTION => Remainder(v, ENCODER_RESOLUTION) = 0
         /\ v \in Values => Remainder(v, ENCODER_RESOLUTION) = v
<1> DEFINE R == ENCODER_RESOLUTION
<1>1. R \in Nat \ {0}
  BY EncoderAssumption
<1>2. R % R = 0 /\ \A w \in 0 .. (R - 1) : w % R = w
  BY <1>1, Z3
<1>3. v \in Int /\ (v >= 0 \/ 0 - v >= 0)
  BY <1>1
<1> HIDE DEF R
<1>4. v = R => Remainder(v, R) = 0
  BY <1>1, <1>2 DEF Remainder
<1>5. v = 0 - R => Remainder(v, R) = 0
  <2> SUFFICES ASSUME v = 0 - R
               PROVE  Remainder(v, R) = 0
    OBVIOUS
  <2>1. ~(v >= 0) /\ 0 - v = R
    BY <1>1
  <2> QED
    BY <1>2, <2>1 DEF Remainder
<1>6. v \in Values => Remainder(v, R) = v
  <2> SUFFICES ASSUME v \in Int, 0 - R < v, v < R
               PROVE  Remainder(v, R) = v
    BY DEF Values, R
  <2>1. CASE v >= 0
    <3>1. v \in 0 .. (R - 1)
      BY <1>1, <2>1
    <3> QED
      BY <1>2, <2>1, <3>1 DEF Remainder
  <2>2. CASE ~(v >= 0)
    <3>1. 0 - v \in 0 .. (R - 1)
      BY <1>1, <2>2
    <3>2. (0 - v) % R = 0 - v
      BY <1>2, <3>1
    <3> QED
      BY <2>2, <3>2 DEF Remainder
  <2> QED
    BY <2>1, <2>2
<1> QED
  BY <1>4, <1>5, <1>6 DEF R

\* encoder_update counts the step, and keeps less than a detent.
LEMMA UpdateCounts ==
  ASSUME NEW e \in [value : Values, updates : Int], NEW state, Step(state) \in {-1, 0, 1}
  PROVE  /\ encoder_update(e, state) \in [value : Values, updates : Int]
         /\ Counted(encoder_update(e, state)) = Counted(e) + Step(state)
<1> DEFINE R == ENCODER_RESOLUTION
           v == e.value + Step(state)
           n == encoder_update(e, state)
<1>1. /\ R \in Nat \ {0} /\ e.value \in Int /\ 0 - R < e.value /\ e.value < R
      /\ e.updates \in Int /\ Step(state) \in Int
  BY EncoderAssumption DEF Values
<1>2. v \in (0 - R) .. R
  BY <1>1
<1>3. /\ n = [value |-> Remainder(v, R), updates |-> n.updates]
      /\ n.updates = e.updates + Detent(v)
  BY DEF encoder_update
<1>4. Counted(n) = n.updates * R + Remainder(v, R) /\ Counted(e) = e.updates * R + e.value
  BY <1>3 DEF Counted
<1>5. /\ v = R => Remainder(v, R) = 0
      /\ v = 0 - R => Remainder(v, R) = 0
      /\ v \in Values => Remainder(v, R) = v
  BY <1>2, RemainderOfStep DEF R
<1>6. 0 \in Values
  BY <1>1 DEF Values
<1> HIDE DEF R, n, v
<1>7. v = e.value + Step(state) /\ v \in Int
  BY <1>1 DEF v
<1>8. CASE v = R
  <2>1. n.updates = e.updates + 1 /\ Remainder(v, R) = 0
    BY <1>1, <1>3, <1>5, <1>8 DEF Detent, R
  <2>2. (e.updates + 1) * R = e.updates * R + R
    BY <1>1
  <2>3. Counted(n) = Counted(e) + Step(state)
    BY <1>1, <1>4, <1>7, <1>8, <2>1, <2>2
  <2>4. n \in [value : Values, updates : Int]
    BY <1>1, <1>3, <1>6, <2>1
  <2> QED
    BY <2>3, <2>4 DEF n
<1>9. CASE v = 0 - R
  <2>1. n.updates = e.updates - 1 /\ Remainder(v, R) = 0
    BY <1>1, <1>3, <1>5, <1>9 DEF Detent, R
  <2>2. (e.updates - 1) * R = e.updates * R - R
    BY <1>1
  <2>3. Counted(n) = Counted(e) + Step(state)
    BY <1>1, <1>4, <1>7, <1>9, <2>1, <2>2
  <2>4. n \in [value : Values, updates : Int]
    BY <1>1, <1>3, <1>6, <2>1
  <2> QED
    BY <2>3, <2>4 DEF n
<1>10. CASE 0 - R < v /\ v < R
  <2>1. v \in Values
    BY <1>7, <1>10 DEF Values, R
  <2>2. n.updates = e.updates /\ Remainder(v, R) = v
    BY <1>1, <1>3, <1>5, <1>7, <1>10, <2>1 DEF Detent, R
  <2>3. e.updates * R \in Int
    BY <1>1
  <2>4. Counted(n) = Counted(e) + Step(state)
    BY <1>1, <1>4, <1>7, <2>2, <2>3
  <2>5. n \in [value : Values, updates : Int]
    BY <1>1, <1>3, <2>1, <2>2
  <2> QED
    BY <2>4, <2>5 DEF n
<1> QED
  BY <1>1, <1>2, <1>7, <1>8, <1>9, <1>10

LEMMA PinsOfInt == \A p \in Int : Pins(p) \in 0 .. 3
<1> SUFFICES ASSUME NEW p \in Int
             PROVE  Pins(p) \in 0 .. 3
    OBVIOUS
<1>1. p % 4 \in 0 .. 3
  BY Z3
<1> QED
  BY <1>1 DEF Pins

LEMMA EncoderInitInv == EncoderInit => EncoderInv
<1> SUFFICES ASSUME EncoderInit
             PROVE  EncoderInv
    OBVIOUS
<1>1. start \in Int /\ encoder_state \in 0 .. 3 /\ encoder_state % 4 = Pins(read_at)
  BY PinsOfInt DEF EncoderInit
<1>2. Step(encoder_state) \in {-1, 0, 1} /\ Step(0) = 0
  BY <1>1, StepRange DEF Step, encoder_LUT
<1>3. [value |-> 0, updates |-> 0] \in [value : Values, updates : Int]
  BY EncoderAssumption DEF Values
<1>4. EncoderTypeOK
  BY <1>1, <1>2, <1>3 DEF EncoderInit, EncoderTypeOK
<1>5. Counted(here) = 0 /\ Counted(there) = 0
  BY EncoderAssumption DEF EncoderInit, Counted
<1>6. /\ position = start /\ read_at = start /\ polls = 1
      /\ sent_at = start - Step(encoder_state)
      /\ uneven = IF Step(encoder_state) = 0 THEN 0 ELSE 1
  BY DEF EncoderInit
<1>7. position - read_at = 0 /\ read_at - sent_at = Step(encoder_state)
      /\ Counted(here) = read_at - start
  BY <1>1, <1>2, <1>5, <1>6
<1>8. Counted(there) - (sent_at - start) + 0 = Step(encoder_state)
  BY <1>1, <1>2, <1>5, <1>6
<1>9. Step(encoder_state) \in (0 - uneven) .. uneven
  BY <1>2, <1>6
<1> QED
  BY <1>1, <1>4, <1>6, <1>7, <1>8, <1>9 DEF EncoderInv

LEMMA ReadKeeps ==
  ASSUME EncoderInv, encoder_read
  PROVE  EncoderInv'
<1> DEFINE state == (encoder_state * 4 + Pins(position)) % 16
<1>1. /\ start \in Int /\ position \in Int /\ read_at \in Int /\ sent_at \in Int
      /\ encoder_state \in 0 .. 15 /\ buffer \in 0 .. 15
      /\ here \in [value : Values, updates : Int] /\ there \in [value : Values, updates : Int]
      /\ polls \in {0, 1} /\ uneven \in Nat
  BY DEF EncoderInv, EncoderTypeOK
<1>2. /\ buffer' = encoder_state /\ encoder_state' = state /\ here' = encoder_update(here, state)
      /\ read_at' = position /\ sent_at' = read_at /\ polls' = 0
      /\ start' = start /\ position' = position /\ there' = there
      /\ uneven' = IF polls = 0 /\ Step(buffer) # 0 THEN uneven + 1 ELSE uneven
  BY DEF encoder_read, Uneven
<1>3. state \in 0 .. 15 /\ state % 4 = Pins(position)
  <2>1. \A s \in 0 .. 15, c \in 0 .. 3 :
          (s * 4 + c) % 16 \in 0 .. 15 /\ ((s * 4 + c) % 16) % 4 = c
    OBVIOUS
  <2> QED
    BY <1>1, <2>1, PinsOfInt
<1>4. Step(state) = position - read_at /\ Step(state) \in {-1, 0, 1}
  BY <1>1, StepOfPins DEF EncoderInv
<1> HIDE DEF state
<1>5. /\ here' \in [value : Values, updates : Int]
      /\ Counted(here') = Counted(here) + Step(state)
  BY <1>1, <1>2, <1>4, UpdateCounts
<1>6. uneven' \in Nat /\ EncoderTypeOK'
  BY <1>1, <1>2, <1>3, <1>5 DEF EncoderTypeOK
<1>7. Counted(here)' = read_at' - start'
  BY <1>1, <1>2, <1>4, <1>5 DEF EncoderInv, Counted
<1>8. Step(buffer) \in {-1, 0, 1} /\ Step(encoder_state) = read_at - sent_at
  BY <1>1, StepRange DEF EncoderInv
<1>9. Counted(there) \in Int
  BY <1>1, EncoderAssumption DEF Counted, Values
<1>10. LET off == Counted(there) - (read_at - start) + Step(encoder_state)
       IN  off \in (0 - uneven') .. uneven'
  <2> DEFINE was == Counted(there) - (sent_at - start)
                      + (IF polls = 1 THEN 0 ELSE Step(buffer))
  <2>1. was \in (0 - uneven) .. uneven
    BY DEF EncoderInv
  <2>2. CASE polls = 1
    BY <1>1, <1>2, <1>8, <1>9, <2>1, <2>2
  <2>3. CASE polls = 0
    BY <1>1, <1>2, <1>8, <1>9, <2>1, <2>3
  <2> QED
    BY <1>1, <2>2, <2>3
<1>11. Step(encoder_state)' = read_at' - sent_at' /\ Counted(there)' = Counted(there)
       /\ Step(buffer)' = Step(encoder_state)
  BY <1>2, <1>4 DEF Step, Counted
<1> QED
  BY <1>1, <1>2, <1>3, <1>6, <1>7, <1>10, <1>11 DEF EncoderInv, Pins

LEMMA PollKeeps ==
  ASSUME EncoderInv, encoder_update_raw
  PROVE  EncoderInv'
<1>1. /\ start \in Int /\ sent_at \in Int /\ buffer \in 0 .. 15
      /\ there \in [value : Values, updates : Int]
      /\ polls \in {0, 1} /\ uneven \in Nat
  BY DEF EncoderInv, EncoderTypeOK
<1>2. /\ there' = encoder_update(there, buffer) /\ polls' = 1
      /\ uneven' = IF polls = 1 /\ Step(buffer) # 0 THEN uneven + 1 ELSE uneven
      /\ UNCHANGED <<start, position, encoder_state, buffer, here, read_at, sent_at>>
  BY DEF encoder_update_raw, Uneven
<1>3. Step(buffer) \in {-1, 0, 1}
  BY <1>1, StepRange
<1>4. /\ there' \in [value : Values, updates : Int]
      /\ Counted(there') = Counted(there) + Step(buffer)
  BY <1>1, <1>2, <1>3, UpdateCounts
<1>5. EncoderTypeOK'
  BY <1>1, <1>2, <1>4 DEF EncoderInv, EncoderTypeOK
<1>6. Counted(there) \in Int
  BY <1>1, EncoderAssumption DEF Counted, Values
<1>7. Counted(there') - (sent_at - start) \in (0 - uneven') .. uneven'
  <2> DEFINE was == Counted(there) - (sent_at - start)
                      + (IF polls = 1 THEN 0 ELSE Step(buffer))
  <2>1. was \in (0 - uneven) .. uneven
    BY DEF EncoderInv
  <2>2. CASE polls = 1
    BY <1>1, <1>2, <1>3, <1>4, <1>6, <2>1, <2>2
  <2>3. CASE polls = 0
    BY <1>1, <1>2, <1>3, <1>4, <1>6, <2>1, <2>3
  <2> QED
    BY <1>1, <2>2, <2>3
<1>8. Counted(there)' - (sent_at' - start') + 0 \in (0 - uneven') .. uneven'
  BY <1>1, <1>2, <1>4, <1>6, <1>7 DEF Counted
<1> QED
  BY <1>2, <1>5, <1>8 DEF EncoderInv, Counted, Pins, Step

LEMMA EncoderNextInv == EncoderInv /\ [EncoderNext]_encoderVars => EncoderInv'
<1> SUFFICES ASSUME EncoderInv, [EncoderNext]_encoderVars
             PROVE  EncoderInv'
    OBVIOUS
<1>1. ASSUME NEW d \in {-1, 1}, Turn(d)
      PROVE  EncoderInv'
  <2>1. /\ position' = position + d /\ position + d - read_at \in {-1, 0, 1}
        /\ UNCHANGED <<start, encoder_state, buffer, here, there, read_at, sent_at, polls, uneven>>
    BY <1>1 DEF Turn
  <2>2. position \in Int /\ read_at \in Int
    BY DEF EncoderInv, EncoderTypeOK
  <2>3. position' \in Int /\ position' - read_at' \in {-1, 0, 1}
    BY <2>1, <2>2
  <2> QED
    BY <2>1, <2>3 DEF EncoderInv, EncoderTypeOK, Counted, Step, Pins
<1>2. CASE UNCHANGED encoderVars
  BY <1>2 DEF encoderVars, EncoderInv, EncoderTypeOK, Counted, Step, Pins
<1> QED
  BY <1>1, <1>2, ReadKeeps, PollKeeps DEF EncoderNext

\* The slave counts every step of a knob that it reads often enough, and the
\* master as many but one at most for each step it polled unevenly, however
\* the scans of the two halves interleave: for any resolution, any distance,
\* any position at the start, and any number of uneven polls.
THEOREM EncoderCounting == EncoderSpec => []StepsCounted
<1>1. EncoderInv => StepsCounted
  <2> SUFFICES ASSUME EncoderInv
               PROVE  StepsCounted
    OBVIOUS
  <2>1. /\ Step(buffer) \in {-1, 0, 1} /\ polls \in {0, 1} /\ uneven \in Nat
        /\ sent_at \in Int /\ start \in Int /\ Counted(there) \in Int
    BY StepRange, EncoderAssumption DEF EncoderInv, EncoderTypeOK, Counted, Values
  <2>2. CASE polls = 1
    BY <2>1, <2>2 DEF EncoderInv, StepsCounted
  <2>3. CASE polls = 0
    BY <2>1, <2>3 DEF EncoderInv, StepsCounted
  <2> QED
    BY <2>1, <2>2, <2>3
<1> QED
  BY <1>1, EncoderInitInv, EncoderNextInv, PTL DEF EncoderSpec
=============================================================================
