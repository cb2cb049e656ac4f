------------------------------ MODULE Transport ------------------------------
(***************************************************************************)
(* The serial link between keyboards in a chain: objects that one         *)
(* keyboard writes and others read (quantum/serial_link/protocol,         *)
(* transport.c and frame_router.c), as each keyboard's serial thread      *)
(* carries them.  Keyboard 0 is the one with the USB cable; the UP_LINK   *)
(* of keyboard i leads to i - 1, its DOWN_LINK to i + 1.                  *)
(*                                                                         *)
(* A triple buffered object is a mailbox (LatestValue, which TripleBuffer *)
(* implements): a set of at most one value.  A line is the sequence of    *)
(* frames on it; sdWrite waits until there is room.  A frame that arrives *)
(* damaged does not pass the CRC of frame_validator.c, and a receiver     *)
(* that does not keep up loses bytes: either way the router never sees    *)
(* the frame (it is lost), and sees the others in the order they were     *)
(* sent.                                                                  *)
(***************************************************************************)
EXTENDS Integers, Sequences

CONSTANTS N,            \* keyboards below the master
          NumSlaves,    \* NUM_SLAVES
          Objects,      \* the remote objects, by id
          ObjectType,
          Contents,     \* what is written to an object
          LineSize      \* frames a line holds

ObjectTypes == {"MASTER_TO_ALL_SLAVES", "MASTER_TO_SINGLE_SLAVE", "SLAVE_TO_MASTER"}

ASSUME TransportAssumption ==
  /\ N \in Nat /\ NumSlaves \in Nat /\ N <= NumSlaves /\ NumSlaves < 256
  /\ ObjectType \in [Objects -> ObjectTypes]
  /\ LineSize \in Nat

Keyboards == 0 .. N
Slots     == 0 .. NumSlaves

\* A value carries its history: the keyboard that wrote it, and the slave
\* it was written for, if any.
Values == [writer : Keyboards, to : Slots, content : Contents]
Frame  == [id : Objects, value : Values, byte : 0 .. 255]

VARIABLES is_master, local, remote, up, down

transportVars == <<is_master, local, remote, up, down>>

Empty == [i \in Keyboards |-> [o \in Objects |-> [j \in Slots |-> {}]]]

TransportInit ==
  /\ is_master = [i \in Keyboards |-> FALSE]
  /\ local = Empty /\ remote = Empty
  /\ up = [i \in Keyboards |-> << >>] /\ down = [i \in Keyboards |-> << >>]

-----------------------------------------------------------------------------
(* The application's side: end_write_<object> and read_<object>.           *)

\* The mailboxes of an object: one, or one for each slave.
LocalSlots(o)  == IF ObjectType[o] = "MASTER_TO_SINGLE_SLAVE" THEN 1 .. NumSlaves ELSE {0}
RemoteSlots(o) == IF ObjectType[o] = "SLAVE_TO_MASTER" THEN 1 .. NumSlaves ELSE {0}

Put(boxes, i, o, j, V) == [boxes EXCEPT ![i][o][j] = V]

Written(boxes, i, o, j, c) == Put(boxes, i, o, j, {[writer |-> i, to |-> j, content |-> c]})
Taken(boxes, i, o, j)      == Put(boxes, i, o, j, {})

Write(i, o, j, c) ==
  /\ j \in LocalSlots(o)
  /\ local' = Written(local, i, o, j, c)
  /\ UNCHANGED <<is_master, remote, up, down>>

Read(i, o, j) ==
  /\ j \in RemoteSlots(o)
  /\ remote' = Taken(remote, i, o, j)
  /\ UNCHANGED <<is_master, local, up, down>>

-----------------------------------------------------------------------------
(* The serial thread.                                                      *)

\* A frame is sent when there is room for it.  What the wires at the two
\* ends of the chain carry, nobody hears.
SendUp(lines, i, f, lost) ==
  IF i = 0 THEN up' = lines
  ELSE /\ Len(lines[i]) < LineSize
       /\ up' = IF lost THEN lines ELSE [lines EXCEPT ![i] = Append(@, f)]
SendDown(lines, i, f, lost) ==
  IF i = N THEN down' = lines
  ELSE /\ Len(lines[i]) < LineSize
       /\ down' = IF lost THEN lines ELSE [lines EXCEPT ![i] = Append(@, f)]

BecomeMaster(i) ==
  /\ is_master' = [is_master EXCEPT ![i] = TRUE]
  /\ UNCHANGED <<local, remote, up, down>>

\* The destination update_transport asks for.
Destination(o, j) ==
  CASE ObjectType[o] = "MASTER_TO_ALL_SLAVES"   -> 255
    [] ObjectType[o] = "MASTER_TO_SINGLE_SLAVE" -> j
    [] ObjectType[o] = "SLAVE_TO_MASTER"        -> 0

\* Seeded fault: a slave sends to the others as if it were the master.
MaySendByAnyone(i, dest) == TRUE

\* Only slaves send to the master, and only the master to slaves.
MaySend(i, dest) == is_master[i] = (dest # 0)

\* router_send_frame.  The last byte of a frame is the destinations, one
\* bit for each slave, or the number of hops it came up.
RouterSendFrame(i, dest, o, v, lost) ==
  LET f == [id |-> o, value |-> v, byte |-> IF dest = 0 THEN 1 ELSE dest]
  IN  IF ~MaySend(i, dest) THEN UNCHANGED <<up, down>>
      ELSE IF dest = 0 THEN SendUp(up, i, f, lost) /\ UNCHANGED down
                       ELSE SendDown(down, i, f, lost) /\ UNCHANGED up

\* One round of the loops of update_transport.
UpdateTransport(i, o, j, lost) ==
  /\ j \in LocalSlots(o)
  /\ \E v \in local[i][o][j] : RouterSendFrame(i, Destination(o, j), o, v, lost)
  /\ local' = Taken(local, i, o, j)
  /\ UNCHANGED <<is_master, remote>>

\* transport_recv_frame: the mailbox it writes to.
RecvFrame(i, from, f) ==
  Put(remote, i, f.id, IF ObjectType[f.id] = "SLAVE_TO_MASTER" THEN from ELSE 0, {f.value})

\* Seeded fault: a frame that passes through is not counted.
HopUncounted(f) == f

Hop(f) == [f EXCEPT !.byte = (@ + 1) % 256]

\* route_incoming_frame on DOWN_LINK.
RouteFromBelow(i, lost) ==
  /\ i + 1 \in Keyboards /\ up[i + 1] # << >>
  /\ LET f    == Head(up[i + 1])
         rest == [up EXCEPT ![i + 1] = Tail(@)]
     IN  IF is_master[i]
         THEN up' = rest /\ remote' = RecvFrame(i, f.byte, f)
         ELSE SendUp(rest, i, Hop(f), lost) /\ UNCHANGED remote
  /\ UNCHANGED <<is_master, local, down>>

PassedOn(f) == [f EXCEPT !.byte = f.byte \div 2]

\* route_incoming_frame on UP_LINK.
RouteFromAbove(i, lost) ==
  /\ i - 1 \in Keyboards /\ down[i - 1] # << >>
  /\ LET f    == Head(down[i - 1])
         rest == [down EXCEPT ![i - 1] = Tail(@)]
     IN  IF is_master[i] THEN down' = rest /\ UNCHANGED remote
         ELSE /\ remote' = IF f.byte % 2 = 1 THEN RecvFrame(i, 0, f) ELSE remote
              /\ SendDown(rest, i, PassedOn(f), lost)
  /\ UNCHANGED <<is_master, local, up>>

TransportNext ==
  \E i \in Keyboards :
    \/ BecomeMaster(i)
    \/ \E o \in Objects, j \in Slots :
         \/ Read(i, o, j)
         \/ \E c \in Contents : Write(i, o, j, c)
         \/ \E lost \in BOOLEAN : UpdateTransport(i, o, j, lost)
    \/ \E lost \in BOOLEAN : RouteFromBelow(i, lost) \/ RouteFromAbove(i, lost)

TransportSpec == TransportInit /\ [][TransportNext]_transportVars

-----------------------------------------------------------------------------
(* Properties.                                                             *)

Boxes == [Keyboards -> [Objects -> [Slots -> SUBSET Values]]]

TransportTypeOK ==
  /\ is_master \in [Keyboards -> BOOLEAN]
  /\ local \in Boxes /\ remote \in Boxes
  /\ up \in [Keyboards -> Seq(Frame)] /\ down \in [Keyboards -> Seq(Frame)]

\* The master finds in the mailbox of slave j what slave j wrote, whatever
\* was lost and however the frames of the slaves mixed on their way up.
FromItsSlave ==
  \A i \in Keyboards, o \in Objects, j \in Slots :
    ObjectType[o] = "SLAVE_TO_MASTER" =>
      \A v \in remote[i][o][j] : is_master[i] /\ v.writer = i + j /\ j > 0

\* What a slave reads of the master's objects was written by the master:
\* the objects of the same name that the slaves write reach nobody.
FromTheMaster ==
  \A i \in Keyboards, o \in Objects :
    ObjectType[o] # "SLAVE_TO_MASTER" =>
      \A v \in remote[i][o][0] : v.writer < i /\ is_master[v.writer]

\* The inductive invariant.  A frame on its way up has made byte - 1 hops,
\* so that it was written that many keyboards further down; one on its way
\* down was written by a master above.
UpFrames(i) ==
  {f \in Frame : /\ ObjectType[f.id] = "SLAVE_TO_MASTER"
                 /\ f.byte > 0 /\ f.value.writer = i + f.byte - 1}
DownFrames(i) ==
  {f \in Frame : /\ ObjectType[f.id] # "SLAVE_TO_MASTER"
                 /\ f.value.writer <= i /\ is_master[f.value.writer]}

OnTheWay ==
  \A i \in Keyboards : up[i] \in Seq(UpFrames(i)) /\ down[i] \in Seq(DownFrames(i))

OwnWritings ==
  \A i \in Keyboards, o \in Objects, j \in Slots : \A v \in local[i][o][j] : v.writer = i

TransportIInv == TransportTypeOK /\ OwnWritings /\ OnTheWay /\ FromItsSlave /\ FromTheMaster
=============================================================================
