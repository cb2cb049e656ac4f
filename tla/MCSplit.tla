------------------------------ MODULE MCSplit -------------------------------
(***************************************************************************)
(* What is shared between the halves of a split keyboard, for model       *)
(* checking: in a behaviour either the keys move, or the lights change,   *)
(* or an encoder turns.                                                    *)
(***************************************************************************)
EXTENDS Split, Encoder

VARIABLE part

vars == <<splitVars, encoderVars, part>>

\* In a rainbow mode the hue of the configuration does not count.
RainbowIgnores == [mode \in Modes |-> IF mode = "rainbow" THEN {"hue"} ELSE {}]

\* The light on both halves of a keyboard whose keys or encoder move.
White == [enable |-> TRUE, mode |-> "static", hsv |-> [x \in Components |-> 0]]

MCInit ==
  /\ part \in {"keys", "lights", "encoder"}
  /\ SplitInit /\ (part # "lights" => master_light = White /\ slave_light = White)
  /\ EncoderInit /\ (part # "encoder" => start = 0)

\* The parts that are the same in both.
Loops ==
  \/ \E outcome \in {"ACCEPTED", "NO_RESPONSE"} : MasterLight(outcome, serial_rgblight)
  \/ MasterRows("END")
  \/ SlaveScan({})
  \/ SlaveMode \/ SlaveHsvs \/ SlaveLightDone \/ SlaveRow

\* A damaged update is read only by a slave that is applying one.
DamagedLights ==
  \E damaged \in IF slave_pc \in {"mode", "hsvs"} THEN Updates ELSE {serial_rgblight} :
    MasterLight("DATA_ERROR", damaged)

MCNext ==
  \/ part # "encoder" /\ Loops /\ UNCHANGED <<encoderVars, part>>
  \/ part = "keys" /\ UNCHANGED <<encoderVars, part>>
     /\ \/ \E changed \in SUBSET Rows \ {{}} : SlaveScan(changed)
        \/ \E outcome \in {"DATA_ERROR", "NO_RESPONSE"} : MasterRows(outcome)
  \/ part = "lights" /\ UNCHANGED <<encoderVars, part>> /\ (ChangeLight \/ DamagedLights)
  \/ part = "encoder" /\ EncoderNext /\ UNCHANGED <<splitVars, part>>

\* SplitFairness, for this next-state relation.
MCFairness ==
  /\ WF_vars(part # "encoder" /\ Slave /\ UNCHANGED <<encoderVars, part>>)
  /\ WF_vars(part # "encoder" /\ MasterLights /\ UNCHANGED <<encoderVars, part>>)
  /\ SF_vars(part # "encoder" /\ MasterRows("END") /\ UNCHANGED <<encoderVars, part>>)

MCSpec == MCInit /\ [][MCNext]_vars /\ MCFairness
=============================================================================
