------------------------------ MODULE MCEeprom ------------------------------
(* A keyboard on either of two chips for model checking: an STM32 that     *)
(* keeps its settings in pages of flash (Eeconfig), or a Teensy LC whose   *)
(* EEPROM is a log (FlashLog).  In Eeconfig the magic number shares its    *)
(* page with one of three settings.                                        *)
EXTENDS Eeconfig, FlashLog

VARIABLE chip

MCLayout == <<0, 1, 2, 3>>
MCInit == chip \in {"STM32", "KL2x"} /\ Init /\ LogInit
MCNext ==
  \/ chip = "STM32" /\ Next /\ UNCHANGED <<chip, logVars>>
  \/ chip = "KL2x" /\ LogNext /\ UNCHANGED <<chip, vars>>
MCSpec == MCInit /\ [][MCNext]_<<chip, vars, logVars>>
=============================================================================
