---------------------------- MODULE MCSerialLink ----------------------------
(* The serial link for model checking.  A behaviour is that of a chain, a  *)
(* master and one or two slaves, where the keys of the first slave move,   *)
(* or of the two threads on one triple buffered object.                    *)
EXTENDS SerialLink, TripleBuffer

CONSTANT Systems     \* those of "chain" and "object" that a run has

VARIABLE system

LinkTypes == [o \in {0, 1} |-> IF o = 0 THEN "MASTER_TO_ALL_SLAVES" ELSE "SLAVE_TO_MASTER"]

LinkContents == 0 .. MaxChanges

allVars == <<vars, bufferVars, system>>

ChainNext ==
  \/ SeeUsb
  \/ MatrixChanges(1)
  \/ \E i \in Keyboards :
       \/ \E due \in BOOLEAN : Update(i, due)
       \/ ReadMatrix(i)
       \/ \E lost \in BOOLEAN : Serial(i, lost)

MCInit == system \in Systems /\ Init /\ BufferInit

MCNext ==
  \/ system = "chain" /\ ChainNext /\ UNCHANGED <<bufferVars, system>>
  \/ system = "object" /\ BufferNext /\ UNCHANGED <<vars, system>>

MCSpec     == MCInit /\ [][MCNext]_allVars
MCFairSpec == MCSpec /\ Fairness
=============================================================================
