----------------------------- MODULE SerialLink -----------------------------
(***************************************************************************)
(* The split keyboard over the serial link (quantum/serial_link/system/   *)
(* serial_link.c): the main thread of each keyboard calls                 *)
(* serial_link_update for ever, and shares with the serial thread of      *)
(* Transport the mailboxes only.                                          *)
(*                                                                         *)
(* A matrix is the number of changes its keyboard has seen: each state of *)
(* the matrix is told from the earlier ones.                              *)
(***************************************************************************)
EXTENDS Transport

CONSTANTS CONNECTED, MATRIX,   \* the two remote objects
          MaxChanges           \* bound on the changes of a matrix

ASSUME SerialLinkAssumption ==
  /\ Objects = {CONNECTED, MATRIX} /\ CONNECTED # MATRIX
  /\ ObjectType[CONNECTED] = "MASTER_TO_ALL_SLAVES"
  /\ ObjectType[MATRIX] = "SLAVE_TO_MASTER"
  /\ MaxChanges \in Nat /\ Contents = 0 .. MaxChanges /\ NumSlaves > 0

VARIABLES matrix, last_matrix,
          serial_link_connected,
          matrix_remote            \* last argument of matrix_set_remote

mainVars == <<matrix, last_matrix, serial_link_connected, matrix_remote>>
vars     == <<transportVars, mainVars>>

Init ==
  /\ TransportInit
  /\ matrix = [i \in Keyboards |-> 0] /\ last_matrix = [i \in Keyboards |-> 0]
  /\ serial_link_connected = [i \in Keyboards |-> FALSE]
  /\ matrix_remote = [i \in Keyboards |-> {}]

MatrixChanges(i) ==
  /\ matrix[i] < MaxChanges
  /\ matrix' = [matrix EXCEPT ![i] = @ + 1]
  /\ UNCHANGED <<transportVars, last_matrix, serial_link_connected, matrix_remote>>

\* Seeded fault: the matrix is written only when it has changed.
WritesOnChange(i, due) == matrix[i] # last_matrix[i]

\* The matrix has changed, or the last write was more than 5 ms ago (due).
Writes(i, due) == matrix[i] # last_matrix[i] \/ due

\* serial_link_update but for its last lines.  The serial thread may run
\* between the two writes; as one of the two objects is never sent, it
\* cannot tell.
Update(i, due) ==
  /\ serial_link_connected' = [serial_link_connected EXCEPT ![i] =
                                 @ \/ remote[i][CONNECTED][0] # {}]
  /\ remote' = Taken(remote, i, CONNECTED, 0)
  /\ IF Writes(i, due)
     THEN /\ local' = Written(Written(local, i, MATRIX, 0, matrix[i]), i, CONNECTED, 0, 0)
          /\ last_matrix' = [last_matrix EXCEPT ![i] = matrix[i]]
     ELSE UNCHANGED <<local, last_matrix>>
  /\ UNCHANGED <<is_master, up, down, matrix, matrix_remote>>

\* The last lines of serial_link_update: only the matrix of the first
\* slave is read.
ReadMatrix(i) ==
  /\ Read(i, MATRIX, 1)
  /\ matrix_remote' = IF remote[i][MATRIX][1] = {} THEN matrix_remote
                      ELSE [matrix_remote EXCEPT ![i] = remote[i][MATRIX][1]]
  /\ UNCHANGED <<matrix, last_matrix, serial_link_connected>>

\* The serial thread of keyboard 0 finds the USB active.  It stays master
\* even if the USB goes into sleep mode.
SeeUsb == BecomeMaster(0) /\ UNCHANGED mainVars

Serial(i, lost) ==
  /\ \/ \E o \in Objects, j \in Slots : UpdateTransport(i, o, j, lost)
     \/ RouteFromBelow(i, lost) \/ RouteFromAbove(i, lost)
  /\ UNCHANGED mainVars

Main(i) == MatrixChanges(i) \/ (\E due \in BOOLEAN : Update(i, due)) \/ ReadMatrix(i)

Next ==
  \/ SeeUsb
  \/ \E i \in Keyboards : Main(i) \/ \E lost \in BOOLEAN : Serial(i, lost)

Spec == Init /\ [][Next]_vars

\* Both threads run for ever, so that the last write is 5 ms old again and
\* again; and a line does not damage every frame of an object.
Fairness ==
  \A i \in Keyboards :
    /\ WF_vars(Update(i, TRUE)) /\ WF_vars(ReadMatrix(i))
    /\ \A o \in Objects : SF_vars(UpdateTransport(i, o, 0, FALSE) /\ UNCHANGED mainVars)
    /\ SF_vars(RouteFromBelow(i, FALSE) /\ UNCHANGED mainVars)
    /\ SF_vars(RouteFromAbove(i, FALSE) /\ UNCHANGED mainVars)

FairSpec == Spec /\ Fairness

-----------------------------------------------------------------------------
(* Properties.                                                             *)

\* A keyboard that believes to be connected (and leaves the USB to others)
\* has a master above it.
ConnectedHasMaster ==
  \A i \in Keyboards : serial_link_connected[i] => is_master[0] /\ i # 0

\* The master takes the matrix of the first slave for that of the other
\* half, never that of a slave further down.
RemoteIsFirstSlave ==
  \A i \in Keyboards : \A v \in matrix_remote[i] : i = 0 /\ v.writer = 1

\* The inductive invariant: keyboard 0 is the only master, and so the one
\* whose objects the others read.
LinkTypeOK ==
  /\ matrix \in [Keyboards -> 0 .. MaxChanges] /\ last_matrix \in [Keyboards -> 0 .. MaxChanges]
  /\ serial_link_connected \in [Keyboards -> BOOLEAN]
  /\ matrix_remote \in [Keyboards -> SUBSET Values]

OnlyMaster == \A i \in Keyboards : is_master[i] => i = 0

LinkIInv == TransportIInv /\ LinkTypeOK /\ OnlyMaster /\ ConnectedHasMaster /\ RemoteIsFirstSlave

\* The master never goes back to an older matrix: it follows the changes
\* of the slave in their order, although it may miss some.
NeverBack ==
  [][\A v \in matrix_remote[0], w \in matrix_remote'[0] :
       v.content <= w.content /\ w.content <= matrix[1]]_vars

\* Once the keys of the first slave rest, the master has its matrix, also
\* when the frame of the last change was lost.
Follows ==
  \A m \in Contents :
    <>[](is_master[0] /\ matrix[1] = m) =>
      <>[](\E v \in matrix_remote[0] : v.content = m)

\* The matrices of the first slave that are on their way, the oldest first:
\* shown by the master, arrived there, sent among the frames of a line, and
\* ready to be sent; the last is the matrix as it is.
NotNewer(V, W) == \A v \in V, w \in W : v.content <= w.content
From1(frames)  == {k \in DOMAIN frames : frames[k].value.writer = 1}

Ordered(shown, arrived, frames, ready, last) ==
  LET sent == {frames[k].value : k \in From1(frames)}
  IN  /\ NotNewer(shown, shown) /\ NotNewer(arrived, arrived)
      /\ NotNewer(shown, arrived)
      /\ NotNewer(shown \cup arrived, sent)
      /\ \A k, l \in From1(frames) : k <= l => frames[k].value.content <= frames[l].value.content
      /\ NotNewer(shown \cup arrived \cup sent, ready)
      /\ \A v \in shown \cup arrived \cup sent \cup ready : v.content <= last

InOrder ==
  Ordered(matrix_remote[0], remote[0][MATRIX][1], up[1], local[1][MATRIX][0], matrix[1])

\* LinkIInv with the order of the matrices, if there is a slave.
OrderIInv == LinkIInv /\ (1 \in Keyboards => InOrder)
=============================================================================
