-------------------------- MODULE SerialLinkProofs --------------------------
(***************************************************************************)
(* Proofs about Transport and SerialLink, for a chain of any length: what *)
(* a keyboard finds in a mailbox was written by the keyboard it is read   *)
(* as, only keyboards below a master believe to be connected, the master  *)
(* takes the matrix of its first slave for that of the other half, and    *)
(* what it reads never goes back.  And about TripleBuffer, for any parts  *)
(* and any data: the threads never use the same slot, and an object is a  *)
(* mailbox, which is what Transport takes it for.                          *)
(***************************************************************************)
EXTENDS SerialLink, TripleBuffer, SequenceTheorems, TLAPS

-----------------------------------------------------------------------------
(* Mailboxes and lines.                                                    *)

LEMMA PutInBox ==
  ASSUME NEW boxes \in Boxes, NEW i \in Keyboards, NEW o \in Objects, NEW j \in Slots,
         NEW V \in SUBSET Values
  PROVE  /\ Put(boxes, i, o, j, V) \in Boxes
         /\ \A k \in Keyboards, p \in Objects, l \in Slots :
              Put(boxes, i, o, j, V)[k][p][l] =
                IF k = i /\ p = o /\ l = j THEN V ELSE boxes[k][p][l]
<1> DEFINE b == Put(boxes, i, o, j, V)
<1>1. boxes[i] \in [Objects -> [Slots -> SUBSET Values]]
  BY DEF Boxes
<1>2. boxes[i][o] \in [Slots -> SUBSET Values]
  BY <1>1
<1>3. [boxes[i][o] EXCEPT ![j] = V] \in [Slots -> SUBSET Values]
  BY <1>2
<1>4. [boxes[i] EXCEPT ![o] = [boxes[i][o] EXCEPT ![j] = V]] \in [Objects -> [Slots -> SUBSET Values]]
  BY <1>1, <1>3
<1>5. b = [boxes EXCEPT ![i] = [boxes[i] EXCEPT ![o] = [boxes[i][o] EXCEPT ![j] = V]]]
  BY DEF Put
<1> HIDE DEF b
<1>6. b \in Boxes
  BY <1>4, <1>5 DEF Boxes
<1>7. ASSUME NEW k \in Keyboards, NEW p \in Objects, NEW l \in Slots
      PROVE  b[k][p][l] = IF k = i /\ p = o /\ l = j THEN V ELSE boxes[k][p][l]
  <2>1. CASE k # i
    BY <2>1, <1>5 DEF Boxes
  <2>2. CASE k = i /\ p # o
    BY <2>2, <1>1, <1>5 DEF Boxes
  <2>3. CASE k = i /\ p = o
    BY <2>3, <1>1, <1>2, <1>5 DEF Boxes
  <2> QED
    BY <2>1, <2>2, <2>3
<1> QED
  BY <1>6, <1>7 DEF b

\* A frame that keyboard i may send up leaves all lines in order.
LEMMA SendUpKeeps ==
  ASSUME NEW lines \in [Keyboards -> Seq(Frame)],
         \A k \in Keyboards : lines[k] \in Seq(UpFrames(k)),
         NEW i \in Keyboards, NEW f, i # 0 => f \in UpFrames(i), NEW lost,
         SendUp(lines, i, f, lost)
  PROVE  /\ up' \in [Keyboards -> Seq(Frame)]
         /\ \A k \in Keyboards : up'[k] \in Seq(UpFrames(k))
<1>1. CASE up' = lines
  BY <1>1
<1>2. CASE i # 0 /\ up' = [lines EXCEPT ![i] = Append(@, f)]
  <2>1. f \in UpFrames(i) /\ f \in Frame
    BY <1>2 DEF UpFrames
  <2>2. Append(lines[i], f) \in Seq(UpFrames(i))
    BY <2>1, AppendProperties
  <2>3. Append(lines[i], f) \in Seq(Frame)
    BY <2>1, AppendProperties
  <2> QED
    BY <1>2, <2>2, <2>3
<1> QED
  BY <1>1, <1>2 DEF SendUp

LEMMA SendDownKeeps ==
  ASSUME NEW lines \in [Keyboards -> Seq(Frame)],
         \A k \in Keyboards : lines[k] \in Seq(DownFrames(k)),
         NEW i \in Keyboards, NEW f, i # N => f \in DownFrames(i), NEW lost,
         SendDown(lines, i, f, lost)
  PROVE  /\ down' \in [Keyboards -> Seq(Frame)]
         /\ \A k \in Keyboards : down'[k] \in Seq(DownFrames(k))
<1>1. CASE down' = lines
  BY <1>1
<1>2. CASE i # N /\ down' = [lines EXCEPT ![i] = Append(@, f)]
  <2>1. f \in DownFrames(i) /\ f \in Frame
    BY <1>2 DEF DownFrames
  <2>2. Append(lines[i], f) \in Seq(DownFrames(i))
    BY <2>1, AppendProperties
  <2>3. Append(lines[i], f) \in Seq(Frame)
    BY <2>1, AppendProperties
  <2> QED
    BY <1>2, <2>2, <2>3
<1> QED
  BY <1>1, <1>2 DEF SendDown

\* What is on its way down stays there in order while the masters stay.
LEMMA DownFramesGrow ==
  ASSUME TransportTypeOK, NEW k \in Keyboards,
         \A w \in Keyboards : is_master[w] => is_master'[w]
  PROVE  DownFrames(k) \subseteq DownFrames(k)'
BY DEF DownFrames, Frame, Values

-----------------------------------------------------------------------------
(* Every action keeps the invariant.                                       *)

LEMMA TransportInitInv == TransportInit => TransportIInv
<1> SUFFICES ASSUME TransportInit
             PROVE  TransportIInv
    OBVIOUS
<1>1. Empty \in Boxes /\ \A i \in Keyboards, o \in Objects, j \in Slots : Empty[i][o][j] = {}
  BY DEF Empty, Boxes
<1>2. << >> \in Seq(Frame) /\ \A i \in Keyboards : << >> \in Seq(UpFrames(i)) /\ << >> \in Seq(DownFrames(i))
  BY EmptySeq
<1>3. TransportTypeOK
  BY <1>1, <1>2 DEF TransportInit, TransportTypeOK
<1>4. OnTheWay
  BY <1>2 DEF TransportInit, OnTheWay
<1>5. OwnWritings /\ FromItsSlave /\ FromTheMaster
  <2>1. 0 \in Slots
    BY TransportAssumption DEF Slots
  <2> QED
    BY <1>1, <2>1 DEF TransportInit, OwnWritings, FromItsSlave, FromTheMaster
<1> QED
  BY <1>3, <1>4, <1>5 DEF TransportIInv

LEMMA BecomeMasterInv ==
  ASSUME TransportIInv, NEW i \in Keyboards, BecomeMaster(i)
  PROVE  TransportIInv'
<1> USE DEF TransportIInv
<1>1. is_master' \in [Keyboards -> BOOLEAN] /\ \A w \in Keyboards : is_master[w] => is_master'[w]
  BY DEF BecomeMaster, TransportTypeOK
<1>2. TransportTypeOK'
  BY <1>1 DEF BecomeMaster, TransportTypeOK
<1>3. OnTheWay'
  <2> SUFFICES ASSUME NEW k \in Keyboards
               PROVE  up[k] \in Seq(UpFrames(k)) /\ down[k] \in Seq(DownFrames(k)')
    BY DEF OnTheWay, BecomeMaster, UpFrames
  <2>1. DownFrames(k) \subseteq DownFrames(k)'
    BY <1>1, DownFramesGrow
  <2> QED
    BY <2>1, SeqMonotonic DEF OnTheWay
<1>4. OwnWritings'
  BY DEF OwnWritings, BecomeMaster
<1>5. FromItsSlave'
  BY <1>1 DEF FromItsSlave, BecomeMaster
<1>6. FromTheMaster'
  <2> SUFFICES ASSUME NEW k \in Keyboards, NEW o \in Objects,
                      ObjectType[o] # "SLAVE_TO_MASTER", NEW v \in remote[k][o][0]
               PROVE  v.writer < k /\ is_master'[v.writer]
    BY DEF FromTheMaster, BecomeMaster
  <2>1. 0 \in Slots
    BY TransportAssumption DEF Slots
  <2>2. v \in Values
    BY <2>1 DEF TransportTypeOK, Boxes
  <2> QED
    BY <1>1, <2>2 DEF FromTheMaster, Values
<1> QED
  BY <1>2, <1>3, <1>4, <1>5, <1>6

\* What may be put into a remote mailbox.
LEMMA ReceiveKeeps ==
  ASSUME TransportIInv, is_master' = is_master,
         NEW i \in Keyboards, NEW o \in Objects, NEW j \in Slots, NEW V \in SUBSET Values,
         remote' = Put(remote, i, o, j, V),
         ObjectType[o] = "SLAVE_TO_MASTER" =>
           \A v \in V : is_master[i] /\ v.writer = i + j /\ j > 0,
         ObjectType[o] # "SLAVE_TO_MASTER" =>
           \A v \in V : v.writer < i /\ is_master[v.writer]
  PROVE  remote' \in Boxes /\ FromItsSlave' /\ FromTheMaster'
<1> USE DEF TransportIInv
<1>0. remote \in Boxes
  BY DEF TransportTypeOK
<1>1. remote' \in Boxes
  BY <1>0, PutInBox
<1>2. ASSUME NEW k \in Keyboards, NEW p \in Objects, NEW l \in Slots
      PROVE  remote'[k][p][l] = IF k = i /\ p = o /\ l = j THEN V ELSE remote[k][p][l]
  <2>1. Put(remote, i, o, j, V)[k][p][l] =
          IF k = i /\ p = o /\ l = j THEN V ELSE remote[k][p][l]
    BY <1>0, PutInBox
  <2> QED
    BY <2>1
<1>3. FromItsSlave'
  <2> SUFFICES ASSUME NEW k \in Keyboards, NEW p \in Objects, NEW l \in Slots,
                      ObjectType[p] = "SLAVE_TO_MASTER", NEW v \in remote'[k][p][l]
               PROVE  is_master'[k] /\ v.writer = k + l /\ l > 0
    BY Zenon DEF FromItsSlave
  <2>1. CASE k = i /\ p = o /\ l = j
    BY <1>2, <2>1
  <2>2. CASE ~(k = i /\ p = o /\ l = j)
    BY <1>2, <2>2 DEF FromItsSlave
  <2> QED
    BY <2>1, <2>2
<1>4. FromTheMaster'
  <2>1. 0 \in Slots
    BY TransportAssumption DEF Slots
  <2> QED
    BY <1>2, <2>1 DEF FromTheMaster
<1> QED
  BY <1>1, <1>3, <1>4

LEMMA RemoteUnchanged ==
  ASSUME TransportIInv, is_master' = is_master, remote' = remote
  PROVE  remote' \in Boxes /\ FromItsSlave' /\ FromTheMaster'
<1>1. remote' \in Boxes
  BY DEF TransportIInv, TransportTypeOK
<1>2. FromItsSlave'
  BY DEF TransportIInv, FromItsSlave
<1>3. FromTheMaster'
  BY DEF TransportIInv, FromTheMaster
<1> QED
  BY <1>1, <1>2, <1>3

\* What may be put into a local mailbox.
LEMMA WriteKeeps ==
  ASSUME NEW boxes \in Boxes, NEW i \in Keyboards, NEW o \in Objects, NEW j \in Slots,
         NEW V \in SUBSET Values, \A v \in V : v.writer = i,
         \A k \in Keyboards, p \in Objects, l \in Slots : \A v \in boxes[k][p][l] : v.writer = k
  PROVE  /\ Put(boxes, i, o, j, V) \in Boxes
         /\ \A k \in Keyboards, p \in Objects, l \in Slots :
              \A v \in Put(boxes, i, o, j, V)[k][p][l] : v.writer = k
<1> DEFINE b == Put(boxes, i, o, j, V)
<1>1. \A k \in Keyboards, p \in Objects, l \in Slots :
        b[k][p][l] = IF k = i /\ p = o /\ l = j THEN V ELSE boxes[k][p][l]
  BY PutInBox
<1>2. b \in Boxes
  BY PutInBox
<1> HIDE DEF b
<1>3. \A k \in Keyboards, p \in Objects, l \in Slots : \A v \in b[k][p][l] : v.writer = k
  BY <1>1
<1> QED
  BY <1>2, <1>3 DEF b

LEMMA SlotsOfObject ==
  ASSUME NEW o \in Objects
  PROVE  LocalSlots(o) \subseteq Slots /\ RemoteSlots(o) \subseteq Slots
BY TransportAssumption DEF LocalSlots, RemoteSlots, Slots

LEMMA WriteInv ==
  ASSUME TransportIInv, NEW i \in Keyboards, NEW o \in Objects, NEW j, NEW c \in Contents,
         Write(i, o, j, c)
  PROVE  TransportIInv'
<1> DEFINE V == {[writer |-> i, to |-> j, content |-> c]}
<1> USE DEF TransportIInv
<1>1. j \in Slots
  BY SlotsOfObject DEF Write
<1>2. V \in SUBSET Values /\ \A v \in V : v.writer = i
  BY <1>1 DEF Values
<1>3. local' = Put(local, i, o, j, V)
  BY DEF Write, Written
<1> HIDE DEF V
<1>4. local' \in Boxes /\ OwnWritings'
  BY <1>1, <1>2, <1>3, WriteKeeps DEF OwnWritings, TransportTypeOK
<1>5. TransportTypeOK'
  BY <1>4 DEF Write, TransportTypeOK
<1>6. OnTheWay' /\ FromItsSlave' /\ FromTheMaster'
  BY DEF Write, OnTheWay, FromItsSlave, FromTheMaster, UpFrames, DownFrames
<1> QED
  BY <1>4, <1>5, <1>6

LEMMA ReadInv ==
  ASSUME TransportIInv, NEW i \in Keyboards, NEW o \in Objects, NEW j, Read(i, o, j)
  PROVE  TransportIInv'
<1> USE DEF TransportIInv
<1>1. j \in Slots
  BY SlotsOfObject DEF Read
<1>2. remote' \in Boxes /\ FromItsSlave' /\ FromTheMaster'
  BY <1>1, ReceiveKeeps DEF Read, Taken
<1>3. TransportTypeOK'
  BY <1>2 DEF Read, TransportTypeOK
<1>4. OnTheWay' /\ OwnWritings'
  BY DEF Read, OnTheWay, OwnWritings, UpFrames, DownFrames
<1> QED
  BY <1>2, <1>3, <1>4

-----------------------------------------------------------------------------
LEMMA UpdateTransportInv ==
  ASSUME TransportIInv, NEW i \in Keyboards, NEW o \in Objects, NEW j, NEW lost,
         UpdateTransport(i, o, j, lost)
  PROVE  TransportIInv'
<1> USE DEF TransportIInv
<1>1. j \in Slots /\ j \in LocalSlots(o)
  BY SlotsOfObject DEF UpdateTransport
<1>2. local' \in Boxes /\ OwnWritings'
  BY <1>1, WriteKeeps DEF UpdateTransport, Taken, OwnWritings, TransportTypeOK
<1>3. PICK v \in local[i][o][j] : RouterSendFrame(i, Destination(o, j), o, v, lost)
  BY DEF UpdateTransport
<1>4. v \in Values /\ v.writer = i
  BY <1>1 DEF OwnWritings, TransportTypeOK, Boxes
<1> DEFINE dest == Destination(o, j)
           f    == [id |-> o, value |-> v, byte |-> IF dest = 0 THEN 1 ELSE dest]
<1>5. dest \in 0 .. 255 /\ (dest = 0 <=> ObjectType[o] = "SLAVE_TO_MASTER")
  BY <1>1, TransportAssumption DEF Destination, LocalSlots, ObjectTypes
<1>6. f \in Frame
  BY <1>4, <1>5 DEF Frame
<1>7. is_master' = is_master /\ remote' = remote
  BY DEF UpdateTransport
<1>8. /\ up' \in [Keyboards -> Seq(Frame)]
      /\ \A k \in Keyboards : up'[k] \in Seq(UpFrames(k))
  <2>1. CASE up' = up
    BY <2>1 DEF OnTheWay, TransportTypeOK
  <2>2. CASE dest = 0 /\ SendUp(up, i, f, lost)
    <3>1. f \in UpFrames(i)
      BY <1>4, <1>5, <1>6, <2>2 DEF UpFrames, Keyboards
    <3> HIDE DEF f
    <3> QED
      BY <2>2, <3>1, SendUpKeeps DEF OnTheWay, TransportTypeOK
  <2> QED
    BY <1>3, <2>1, <2>2 DEF RouterSendFrame
<1>9. /\ down' \in [Keyboards -> Seq(Frame)]
      /\ \A k \in Keyboards : down'[k] \in Seq(DownFrames(k))
  <2>1. CASE down' = down
    BY <2>1 DEF OnTheWay, TransportTypeOK
  <2>2. CASE dest # 0 /\ MaySend(i, dest) /\ SendDown(down, i, f, lost)
    <3>1. is_master[i]
      BY <2>2 DEF MaySend, TransportTypeOK
    <3>2. f \in DownFrames(i)
      BY <1>4, <1>5, <1>6, <2>2, <3>1 DEF DownFrames, Keyboards
    <3> HIDE DEF f
    <3> QED
      BY <2>2, <3>2, SendDownKeeps DEF OnTheWay, TransportTypeOK
  <2> QED
    BY <1>3, <2>1, <2>2 DEF RouterSendFrame
<1> HIDE DEF dest, f
<1>10. OnTheWay'
  BY <1>7, <1>8, <1>9 DEF OnTheWay, UpFrames, DownFrames
<1>11. TransportTypeOK'
  BY <1>2, <1>7, <1>8, <1>9 DEF TransportTypeOK
<1>12. FromItsSlave' /\ FromTheMaster'
  BY <1>7 DEF FromItsSlave, FromTheMaster
<1> QED
  BY <1>2, <1>10, <1>11, <1>12
LEMMA RouteFromBelowInv ==
  ASSUME TransportIInv, NEW i \in Keyboards, NEW lost, RouteFromBelow(i, lost)
  PROVE  TransportIInv'
<1> DEFINE f    == Head(up[i + 1])
           rest == [up EXCEPT ![i + 1] = Tail(@)]
<1> USE DEF TransportIInv
<1>1. i + 1 \in Keyboards /\ i \in Nat /\ is_master' = is_master /\ local' = local /\ down' = down
  BY TransportAssumption DEF RouteFromBelow, Keyboards
<1>2. up[i + 1] \in Seq(UpFrames(i + 1)) /\ up[i + 1] \in Seq(Frame) /\ up[i + 1] # << >>
  BY <1>1 DEF RouteFromBelow, OnTheWay, TransportTypeOK
<1>3. f \in UpFrames(i + 1) /\ f \in Frame
  BY <1>2, HeadTailProperties
<1>4. Tail(up[i + 1]) \in Seq(UpFrames(i + 1)) /\ Tail(up[i + 1]) \in Seq(Frame)
  BY <1>2, HeadTailProperties
<1>5. /\ rest \in [Keyboards -> Seq(Frame)]
      /\ \A k \in Keyboards : rest[k] \in Seq(UpFrames(k))
  BY <1>1, <1>4 DEF OnTheWay, TransportTypeOK
\* As it was written by a keyboard of the chain, its hops are counted.
<1>6. /\ f.id \in Objects /\ ObjectType[f.id] = "SLAVE_TO_MASTER" /\ f.value \in Values
      /\ f.byte \in 1 .. N /\ f.value.writer = i + f.byte /\ i + f.byte <= N
  BY <1>1, <1>3, TransportAssumption DEF UpFrames, Frame, Values, Keyboards
<1>7. (is_master[i] /\ up' = rest /\ remote' = RecvFrame(i, f.byte, f))
      \/ (SendUp(rest, i, Hop(f), lost) /\ remote' = remote)
  BY DEF RouteFromBelow
<1>8. OwnWritings' /\ \A k \in Keyboards : down'[k] \in Seq(DownFrames(k)')
  BY <1>1 DEF OwnWritings, OnTheWay, DownFrames
<1>9. CASE is_master[i] /\ up' = rest /\ remote' = RecvFrame(i, f.byte, f)
  <2>1. f.byte \in Slots /\ {f.value} \in SUBSET Values
    BY <1>6, TransportAssumption DEF Slots
  <2>2. remote' = Put(remote, i, f.id, f.byte, {f.value})
    BY <1>6, <1>9 DEF RecvFrame
  <2>3. \A v \in {f.value} : is_master[i] /\ v.writer = i + f.byte /\ f.byte > 0
    BY <1>6, <1>9
  <2> HIDE DEF f, rest
  <2>4. remote' \in Boxes /\ FromItsSlave' /\ FromTheMaster'
    BY <1>1, <1>6, <2>1, <2>2, <2>3, ReceiveKeeps
  <2>5. TransportTypeOK' /\ OnTheWay'
    BY <1>1, <1>5, <1>8, <1>9, <2>4 DEF TransportTypeOK, OnTheWay, UpFrames
  <2> QED
    BY <1>8, <2>4, <2>5
<1>10. CASE SendUp(rest, i, Hop(f), lost) /\ remote' = remote
  <2>1. i # 0 => Hop(f) \in UpFrames(i)
    <3> SUFFICES ASSUME i # 0
                 PROVE  Hop(f) \in UpFrames(i)
        OBVIOUS
    <3>1. f.byte + 1 \in 1 .. 255
      BY <1>1, <1>6, TransportAssumption
    <3>2. Hop(f) = [id |-> f.id, value |-> f.value, byte |-> f.byte + 1]
      BY <1>3, <3>1 DEF Hop, Frame
    <3> QED
      BY <1>1, <1>6, <3>1, <3>2 DEF UpFrames, Frame
  <2> HIDE DEF f, rest
  <2>2. /\ up' \in [Keyboards -> Seq(Frame)]
        /\ \A k \in Keyboards : up'[k] \in Seq(UpFrames(k))
    BY <1>5, <1>10, <2>1, SendUpKeeps
  <2>3. TransportTypeOK' /\ OnTheWay'
    BY <1>1, <1>8, <1>10, <2>2 DEF TransportTypeOK, OnTheWay, UpFrames
  <2> QED
    BY <1>1, <1>8, <1>10, <2>3 DEF FromItsSlave, FromTheMaster
<1> QED
  BY <1>7, <1>9, <1>10

LEMMA RouteFromAboveInv ==
  ASSUME TransportIInv, NEW i \in Keyboards, NEW lost, RouteFromAbove(i, lost)
  PROVE  TransportIInv'
<1> DEFINE f    == Head(down[i - 1])
           rest == [down EXCEPT ![i - 1] = Tail(@)]
<1> USE DEF TransportIInv
<1>1. i - 1 \in Keyboards /\ i \in Nat /\ is_master' = is_master /\ local' = local /\ up' = up
  BY TransportAssumption DEF RouteFromAbove, Keyboards
<1>2. down[i - 1] \in Seq(DownFrames(i - 1)) /\ down[i - 1] \in Seq(Frame) /\ down[i - 1] # << >>
  BY <1>1 DEF RouteFromAbove, OnTheWay, TransportTypeOK
<1>3. f \in DownFrames(i - 1) /\ f \in Frame
  BY <1>2, HeadTailProperties
<1>4. Tail(down[i - 1]) \in Seq(DownFrames(i - 1)) /\ Tail(down[i - 1]) \in Seq(Frame)
  BY <1>2, HeadTailProperties
<1>5. /\ rest \in [Keyboards -> Seq(Frame)]
      /\ \A k \in Keyboards : rest[k] \in Seq(DownFrames(k))
  BY <1>1, <1>4 DEF OnTheWay, TransportTypeOK
<1>6. /\ f.id \in Objects /\ ObjectType[f.id] # "SLAVE_TO_MASTER" /\ f.value \in Values
      /\ f.byte \in 0 .. 255 /\ f.value.writer < i /\ is_master[f.value.writer]
  BY <1>1, <1>3 DEF DownFrames, Frame, Values, Keyboards
<1>7. (down' = rest /\ remote' = remote)
      \/ (/\ remote' = RecvFrame(i, 0, f) \/ remote' = remote
          /\ SendDown(rest, i, PassedOn(f), lost))
  BY DEF RouteFromAbove
<1>8. /\ down' \in [Keyboards -> Seq(Frame)]
      /\ \A k \in Keyboards : down'[k] \in Seq(DownFrames(k))
  <2>1. CASE down' = rest
    BY <1>5, <2>1
  <2>2. CASE SendDown(rest, i, PassedOn(f), lost)
    <3>1. f.byte \div 2 \in 0 .. 255
      BY <1>6
    <3>2. PassedOn(f) = [id |-> f.id, value |-> f.value, byte |-> f.byte \div 2]
      BY <1>3 DEF PassedOn, Frame
    <3>3. f.value.writer <= i
      BY <1>1, <1>6 DEF Values, Keyboards
    <3>4. PassedOn(f) \in DownFrames(i)
      BY <1>6, <3>1, <3>2, <3>3 DEF DownFrames, Frame
    <3> HIDE DEF f, rest
    <3> QED
      BY <1>5, <2>2, <3>4, SendDownKeeps
  <2> QED
    BY <1>7, <2>1, <2>2
<1>9. remote' \in Boxes /\ FromItsSlave' /\ FromTheMaster'
  <2>1. CASE remote' = remote
    BY <1>1, <2>1, RemoteUnchanged
  <2>2. CASE remote' = RecvFrame(i, 0, f)
    <3>1. 0 \in Slots /\ {f.value} \in SUBSET Values
      BY <1>6, TransportAssumption DEF Slots
    <3>2. remote' = Put(remote, i, f.id, 0, {f.value})
      BY <1>6, <2>2 DEF RecvFrame
    <3>3. \A v \in {f.value} : v.writer < i /\ is_master[v.writer]
      BY <1>6
    <3> HIDE DEF f, rest
    <3> QED
      BY <1>1, <1>6, <3>1, <3>2, <3>3, ReceiveKeeps
  <2> QED
    BY <1>7, <2>1, <2>2
<1>10. TransportTypeOK' /\ OnTheWay' /\ OwnWritings'
  BY <1>1, <1>8, <1>9 DEF TransportTypeOK, OnTheWay, OwnWritings, UpFrames, DownFrames
<1> QED
  BY <1>9, <1>10

-----------------------------------------------------------------------------
LEMMA TransportUnchangedInv == TransportIInv /\ UNCHANGED transportVars => TransportIInv'
<1> SUFFICES ASSUME TransportIInv, UNCHANGED transportVars
             PROVE  TransportIInv'
    OBVIOUS
<1> USE DEF TransportIInv, transportVars
<1>1. remote' \in Boxes /\ FromItsSlave' /\ FromTheMaster'
  BY RemoteUnchanged
<1>2. TransportTypeOK'
  BY <1>1 DEF TransportTypeOK
<1>3. OnTheWay'
  BY DEF OnTheWay, UpFrames, DownFrames
<1>4. OwnWritings'
  BY DEF OwnWritings
<1> QED
  BY <1>1, <1>2, <1>3, <1>4

LEMMA TransportNextInv == TransportIInv /\ [TransportNext]_transportVars => TransportIInv'
BY BecomeMasterInv, WriteInv, ReadInv, UpdateTransportInv, RouteFromBelowInv, RouteFromAboveInv,
   TransportUnchangedInv DEF TransportNext

\* Whichever keyboards become masters, and whatever frames are lost: the mailbox
\* of slave j of a master holds what the keyboard j below it wrote, and what a
\* keyboard reads of the master's objects was written by a master above it.
THEOREM TransportCorrect == TransportSpec => [](FromItsSlave /\ FromTheMaster)
<1>1. TransportIInv => FromItsSlave /\ FromTheMaster
  BY DEF TransportIInv
<1> QED
  BY <1>1, TransportInitInv, TransportNextInv, PTL DEF TransportSpec

-----------------------------------------------------------------------------
(* The serial link on top of the transport.                                *)

LEMMA SlotsUsed == 0 \in Slots /\ 1 \in Slots /\ 0 \in Keyboards
BY TransportAssumption, SerialLinkAssumption DEF Slots, Keyboards

LEMMA ObjectsUsed ==
  /\ CONNECTED \in Objects /\ MATRIX \in Objects
  /\ ObjectType[CONNECTED] # "SLAVE_TO_MASTER" /\ ObjectType[MATRIX] = "SLAVE_TO_MASTER"
BY SerialLinkAssumption

LEMMA LinkInitInv == Init => LinkIInv
<1> SUFFICES ASSUME Init
             PROVE  LinkIInv
    OBVIOUS
<1>1. TransportIInv
  BY TransportInitInv DEF Init
<1>2. LinkTypeOK
  BY SerialLinkAssumption DEF Init, LinkTypeOK
<1>3. OnlyMaster /\ ConnectedHasMaster /\ RemoteIsFirstSlave
  BY DEF Init, TransportInit, OnlyMaster, ConnectedHasMaster, RemoteIsFirstSlave
<1> QED
  BY <1>1, <1>2, <1>3 DEF LinkIInv

\* The steps of the serial thread, which change the mailboxes only.
LEMMA MainUnchangedInv ==
  ASSUME LinkIInv, TransportIInv', UNCHANGED mainVars,
         is_master' = is_master \/ is_master' = [is_master EXCEPT ![0] = TRUE]
  PROVE  LinkIInv'
<1> USE DEF LinkIInv, mainVars
<1>1. is_master \in [Keyboards -> BOOLEAN]
  BY DEF TransportIInv, TransportTypeOK
<1>2. LinkTypeOK' /\ RemoteIsFirstSlave'
  BY DEF LinkTypeOK, RemoteIsFirstSlave
<1>3. OnlyMaster'
  BY <1>1 DEF OnlyMaster
<1>4. ConnectedHasMaster'
  BY <1>1, SlotsUsed DEF ConnectedHasMaster
<1> QED
  BY <1>2, <1>3, <1>4

LEMMA MatrixChangesInv ==
  ASSUME LinkIInv, NEW i \in Keyboards, MatrixChanges(i)
  PROVE  LinkIInv'
<1> USE DEF LinkIInv
<1>1. TransportIInv'
  BY TransportUnchangedInv DEF MatrixChanges
<1>2. LinkTypeOK'
  BY SerialLinkAssumption DEF MatrixChanges, LinkTypeOK
<1>3. OnlyMaster' /\ ConnectedHasMaster' /\ RemoteIsFirstSlave'
  BY DEF MatrixChanges, transportVars, OnlyMaster, ConnectedHasMaster, RemoteIsFirstSlave
<1> QED
  BY <1>1, <1>2, <1>3

LEMMA UpdateInv ==
  ASSUME LinkIInv, NEW i \in Keyboards, NEW due \in BOOLEAN, Update(i, due)
  PROVE  LinkIInv'
<1> USE DEF LinkIInv
<1>1. is_master' = is_master /\ up' = up /\ down' = down /\ matrix' = matrix
      /\ matrix_remote' = matrix_remote
  BY DEF Update
<1>2. remote' \in Boxes /\ FromItsSlave' /\ FromTheMaster'
  BY <1>1, SlotsUsed, ObjectsUsed, ReceiveKeeps DEF Update, Taken
<1>3. local' \in Boxes /\ OwnWritings'
  <2>1. CASE local' = local
    BY <2>1 DEF TransportIInv, TransportTypeOK, OwnWritings
  <2>2. CASE local' = Written(Written(local, i, MATRIX, 0, matrix[i]), i, CONNECTED, 0, 0)
    <3> DEFINE first  == Written(local, i, MATRIX, 0, matrix[i])
               V      == {[writer |-> i, to |-> 0, content |-> matrix[i]]}
               W      == {[writer |-> i, to |-> 0, content |-> 0]}
    <3>1. matrix[i] \in Contents /\ 0 \in Contents
      BY SerialLinkAssumption DEF LinkTypeOK
    <3>2. V \in SUBSET Values /\ W \in SUBSET Values
      BY <3>1, SlotsUsed DEF Values
    <3>3. (\A v \in V : v.writer = i) /\ \A v \in W : v.writer = i
      OBVIOUS
    <3>4. first = Put(local, i, MATRIX, 0, V) /\ local' = Put(first, i, CONNECTED, 0, W)
      BY <2>2 DEF Written
    <3> HIDE DEF first, V, W
    <3>5. /\ first \in Boxes
          /\ \A k \in Keyboards, p \in Objects, l \in Slots : \A v \in first[k][p][l] : v.writer = k
      <4>1. /\ local \in Boxes
            /\ \A k \in Keyboards, p \in Objects, l \in Slots : \A v \in local[k][p][l] : v.writer = k
        BY DEF TransportIInv, TransportTypeOK, OwnWritings
      <4> QED
        BY <3>2, <3>3, <3>4, <4>1, SlotsUsed, ObjectsUsed, WriteKeeps
    <3>6. /\ local' \in Boxes
          /\ \A k \in Keyboards, p \in Objects, l \in Slots : \A v \in local'[k][p][l] : v.writer = k
      BY <3>2, <3>3, <3>4, <3>5, SlotsUsed, ObjectsUsed, WriteKeeps
    <3> QED
      BY <3>6 DEF OwnWritings
  <2> QED
    BY <2>1, <2>2 DEF Update
<1>4. TransportIInv'
  <2>1. TransportTypeOK'
    BY <1>1, <1>2, <1>3 DEF TransportIInv, TransportTypeOK
  <2>2. OnTheWay'
    BY <1>1 DEF TransportIInv, OnTheWay, UpFrames, DownFrames
  <2> QED
    BY <1>2, <1>3, <2>1, <2>2 DEF TransportIInv
<1>5. LinkTypeOK'
  BY <1>1 DEF Update, LinkTypeOK
<1>6. OnlyMaster' /\ RemoteIsFirstSlave'
  BY <1>1 DEF OnlyMaster, RemoteIsFirstSlave
\* What has arrived was written by a master above, and keyboard 0 is the only one.
<1>7. ConnectedHasMaster'
  <2>1. ASSUME remote[i][CONNECTED][0] # {}
        PROVE  is_master[0] /\ i # 0
    <3>1. PICK v \in remote[i][CONNECTED][0] : TRUE
      BY <2>1
    <3>2. v \in Values
      BY SlotsUsed, ObjectsUsed DEF TransportIInv, TransportTypeOK, Boxes
    <3>3. v.writer < i /\ is_master[v.writer] /\ v.writer \in Keyboards
      BY <3>2, ObjectsUsed DEF TransportIInv, FromTheMaster, Values
    <3> QED
      BY <3>3, TransportAssumption DEF OnlyMaster, Keyboards
  <2> QED
    BY <1>1, <2>1 DEF Update, ConnectedHasMaster, LinkTypeOK
<1> QED
  BY <1>4, <1>5, <1>6, <1>7

LEMMA ReadMatrixInv ==
  ASSUME LinkIInv, NEW i \in Keyboards, ReadMatrix(i)
  PROVE  LinkIInv'
<1> USE DEF LinkIInv
<1>1. TransportIInv'
  BY ObjectsUsed, ReadInv DEF ReadMatrix
<1>2. remote[i][MATRIX][1] \in SUBSET Values
  BY SlotsUsed, ObjectsUsed DEF TransportIInv, TransportTypeOK, Boxes
<1>3. \A v \in remote[i][MATRIX][1] : i = 0 /\ v.writer = 1
  BY SlotsUsed, ObjectsUsed DEF TransportIInv, FromItsSlave, OnlyMaster
<1>4. LinkTypeOK'
  BY <1>2 DEF ReadMatrix, LinkTypeOK
<1>5. RemoteIsFirstSlave'
  BY <1>3 DEF ReadMatrix, RemoteIsFirstSlave, LinkTypeOK
<1>6. OnlyMaster' /\ ConnectedHasMaster'
  BY DEF ReadMatrix, Read, OnlyMaster, ConnectedHasMaster
<1> QED
  BY <1>1, <1>4, <1>5, <1>6

LEMMA SerialInv ==
  ASSUME LinkIInv, NEW i \in Keyboards, NEW lost, Serial(i, lost)
  PROVE  LinkIInv'
<1>1. TransportIInv' /\ is_master' = is_master
  <2>1. ASSUME NEW o \in Objects, NEW j \in Slots, UpdateTransport(i, o, j, lost)
        PROVE  TransportIInv' /\ is_master' = is_master
    BY <2>1, UpdateTransportInv DEF UpdateTransport, LinkIInv
  <2>2. CASE RouteFromBelow(i, lost)
    BY <2>2, RouteFromBelowInv DEF RouteFromBelow, LinkIInv
  <2>3. CASE RouteFromAbove(i, lost)
    BY <2>3, RouteFromAboveInv DEF RouteFromAbove, LinkIInv
  <2> QED
    BY <2>1, <2>2, <2>3 DEF Serial
<1> QED
  BY <1>1, MainUnchangedInv DEF Serial

LEMMA LinkNextInv == LinkIInv /\ [Next]_vars => LinkIInv'
<1> SUFFICES ASSUME LinkIInv, [Next]_vars
             PROVE  LinkIInv'
    OBVIOUS
<1>1. CASE SeeUsb
  <2>1. TransportIInv'
    BY <1>1, SlotsUsed, BecomeMasterInv DEF SeeUsb, LinkIInv
  <2> QED
    BY <1>1, <2>1, MainUnchangedInv DEF SeeUsb, BecomeMaster
<1>2. ASSUME NEW i \in Keyboards, Main(i)
      PROVE  LinkIInv'
  BY <1>2, MatrixChangesInv, UpdateInv, ReadMatrixInv DEF Main
<1>3. ASSUME NEW i \in Keyboards, NEW lost \in BOOLEAN, Serial(i, lost)
      PROVE  LinkIInv'
  BY <1>3, SerialInv
<1>4. CASE UNCHANGED vars
  <2>1. TransportIInv'
    BY <1>4, TransportUnchangedInv DEF vars, LinkIInv
  <2> QED
    BY <1>4, <2>1, MainUnchangedInv DEF vars, transportVars
<1> QED
  BY <1>1, <1>2, <1>3, <1>4 DEF Next

\* In a chain of any length, with any frames lost: a keyboard believes to be
\* connected only below a master, and what the master takes for the matrix of the
\* other half was written by the first slave.
THEOREM LinkCorrect == Spec => [](ConnectedHasMaster /\ RemoteIsFirstSlave)
<1>1. LinkIInv => ConnectedHasMaster /\ RemoteIsFirstSlave
  BY DEF LinkIInv
<1> QED
  BY <1>1, LinkInitInv, LinkNextInv, PTL DEF Spec

\* On the link, mailboxes hold what the keyboard that they are read as wrote.
THEOREM LinkMailboxes == Spec => [](FromItsSlave /\ FromTheMaster)
<1>1. LinkIInv => FromItsSlave /\ FromTheMaster
  BY DEF LinkIInv, TransportIInv
<1> QED
  BY <1>1, LinkInitInv, LinkNextInv, PTL DEF Spec

-----------------------------------------------------------------------------
(* The matrices of the first slave pass the link in the order of its      *)
(* changes.                                                                *)

LEMMA SomeTaken ==
  ASSUME NEW S, NEW A, NEW s, NEW R, NEW m, Ordered(S, A, s, R, m)
  PROVE  Ordered(S, {}, s, R, m) /\ Ordered(A, {}, s, R, m) /\ Ordered(S, A, s, {}, m)
BY DEF Ordered, NotNewer, From1

LEMMA NewlyReady ==
  ASSUME NEW S, NEW A, NEW s, NEW R, NEW m, Ordered(S, A, s, R, m),
         NEW v, v.content = m, m <= m
  PROVE  Ordered(S, A, s, {v}, m)
BY DEF Ordered, NotNewer, From1

LEMMA MatrixChanged ==
  ASSUME NEW S \in SUBSET Values, NEW A \in SUBSET Values, NEW s \in Seq(Frame),
         NEW R \in SUBSET Values, NEW m \in Int, Ordered(S, A, s, R, m)
  PROVE  Ordered(S, A, s, R, m + 1)
<1> DEFINE sent == {s[k].value : k \in From1(s)}
<1>1. sent \subseteq Values
  <2>1. \A k \in DOMAIN s : s[k] \in Frame
    OBVIOUS
  <2>2. \A f \in Frame : f.value \in Values
    BY DEF Frame
  <2> QED
    BY <2>1, <2>2 DEF From1
<1>2. \A v \in Values : v.content \in Int
  BY SerialLinkAssumption DEF Values
<1>3. \A v \in S \cup A \cup sent \cup R : v.content <= m + 1
  BY <1>1, <1>2 DEF Ordered
<1> QED
  BY <1>3 DEF Ordered

LEMMA FrameSent ==
  ASSUME NEW S, NEW A, NEW s \in Seq(Frame), NEW R \in SUBSET Values, NEW m,
         Ordered(S, A, s, R, m),
         NEW f \in Frame, f.value.writer = 1 => f.value \in R
  PROVE  Ordered(S, A, Append(s, f), {}, m)
         /\ (f.value.writer # 1 => Ordered(S, A, Append(s, f), R, m))
<1> DEFINE t     == Append(s, f)
           sentS == {s[k].value : k \in From1(s)}
           sentT == {t[k].value : k \in From1(t)}
<1>1. /\ DOMAIN s = 1 .. Len(s) /\ DOMAIN t = 1 .. Len(s) + 1 /\ Len(s) \in Nat
      /\ t[Len(s) + 1] = f /\ \A k \in 1 .. Len(s) : t[k] = s[k]
  OBVIOUS
<1> HIDE DEF t
<1>2. CASE f.value.writer # 1
  <2>1. From1(t) = From1(s)
    BY <1>1, <1>2 DEF From1
  <2>2. sentT = sentS /\ \A k \in From1(t) : t[k] = s[k]
    BY <1>1, <2>1 DEF From1
  <2>3. Ordered(S, A, t, R, m)
    BY <2>1, <2>2 DEF Ordered
  <2> QED
    BY <2>3, SomeTaken DEF t
<1>3. CASE f.value.writer = 1
  <2>1. From1(t) = From1(s) \cup {Len(s) + 1} /\ From1(s) \subseteq 1 .. Len(s)
    BY <1>1, <1>3 DEF From1
  <2>2. sentT = sentS \cup {f.value} /\ \A k \in From1(s) : t[k] = s[k]
    BY <1>1, <2>1
  <2>3. f.value \in R /\ f.value.content \in Int
    BY <1>3, SerialLinkAssumption DEF Frame, Values
  <2>4. /\ NotNewer(S \cup A, sentT)
        /\ NotNewer(S \cup A \cup sentT, {})
        /\ \A v \in S \cup A \cup sentT \cup {} : v.content <= m
    BY <2>2, <2>3 DEF Ordered, NotNewer
  <2>5. ASSUME NEW k \in From1(t), NEW l \in From1(t), k <= l
        PROVE  t[k].value.content <= t[l].value.content
    <3>1. CASE l \in From1(s)
      <4>1. k \in From1(s)
        BY <1>1, <2>1, <2>5, <3>1
      <4> QED
        BY <2>2, <2>5, <3>1, <4>1 DEF Ordered
    <3>2. CASE l = Len(s) + 1 /\ k \in From1(s)
      <4>1. t[l].value \in R /\ t[k].value \in sentS
        BY <1>1, <2>2, <2>3, <3>2
      <4> QED
        BY <4>1 DEF Ordered, NotNewer
    <3>3. CASE l = Len(s) + 1 /\ k = Len(s) + 1
      BY <1>1, <2>3, <3>3
    <3> QED
      BY <2>1, <3>1, <3>2, <3>3
  <2>6. Ordered(S, A, t, {}, m)
    BY <2>4, <2>5 DEF Ordered
  <2> QED
    BY <1>3, <2>6 DEF t
<1> QED
  BY <1>2, <1>3

LEMMA FrameReceived ==
  ASSUME NEW S, NEW A, NEW s \in Seq(Frame), s # << >>, NEW R, NEW m, Ordered(S, A, s, R, m)
  PROVE  /\ Ordered(S, A, Tail(s), R, m)
         /\ Head(s).value.writer = 1 => Ordered(S, {Head(s).value}, Tail(s), R, m)
<1> DEFINE t     == Tail(s)
           sentS == {s[k].value : k \in From1(s)}
           sentT == {t[k].value : k \in From1(t)}
<1>1. /\ DOMAIN s = 1 .. Len(s) /\ DOMAIN t = 1 .. Len(s) - 1 /\ Len(s) \in Nat \ {0}
      /\ Head(s) = s[1] /\ \A k \in 1 .. Len(s) - 1 : t[k] = s[k + 1]
      /\ Head(s) \in Frame
  OBVIOUS
<1> HIDE DEF t
<1>2. \A k \in From1(t) : k \in Int /\ k >= 1 /\ k + 1 \in From1(s) /\ t[k] = s[k + 1]
  BY <1>1 DEF From1
<1>3. sentT \subseteq sentS
  BY <1>2
<1>4. ASSUME NEW k \in From1(t), NEW l \in From1(t), k <= l
      PROVE  t[k].value.content <= t[l].value.content
  <2>1. k + 1 <= l + 1
    BY <1>2, <1>4
  <2> QED
    BY <1>2, <2>1 DEF Ordered
<1>5. Ordered(S, A, t, R, m)
  BY <1>3, <1>4 DEF Ordered, NotNewer
<1>6. ASSUME Head(s).value.writer = 1
      PROVE  Ordered(S, {Head(s).value}, t, R, m)
  <2>1. 1 \in From1(s) /\ s[1].value = Head(s).value /\ Head(s).value \in sentS
    BY <1>1, <1>6 DEF From1
  <2>2. Head(s).value.content \in Int
    BY <1>1, SerialLinkAssumption DEF Frame, Values
  <2>3. NotNewer({Head(s).value}, {Head(s).value}) /\ NotNewer(S, {Head(s).value})
    BY <2>1, <2>2 DEF Ordered, NotNewer
  <2>4. \A k \in From1(t) : s[1].value.content <= s[k + 1].value.content
    <3> SUFFICES ASSUME NEW k \in From1(t)
                 PROVE  s[1].value.content <= s[k + 1].value.content
        OBVIOUS
    <3>1. k + 1 \in From1(s) /\ 1 <= k + 1
      BY <1>2
    <3> QED
      BY <2>1, <3>1 DEF Ordered
  <2>5. NotNewer(S \cup {Head(s).value}, sentT)
    BY <1>2, <1>3, <2>1, <2>4 DEF Ordered, NotNewer
  <2>6. /\ NotNewer(S \cup {Head(s).value} \cup sentT, R)
        /\ \A v \in S \cup {Head(s).value} \cup sentT \cup R : v.content <= m
    BY <1>3, <2>1 DEF Ordered, NotNewer
  <2> QED
    BY <1>4, <2>3, <2>5, <2>6 DEF Ordered
<1> QED
  BY <1>5, <1>6 DEF t

\* What InOrder reads, at the first slave and the master.
LEMMA OrderTypes ==
  ASSUME LinkIInv, 1 \in Keyboards
  PROVE  /\ matrix_remote[0] \in SUBSET Values /\ remote[0][MATRIX][1] \in SUBSET Values
         /\ up[1] \in Seq(Frame) /\ local[1][MATRIX][0] \in SUBSET Values /\ matrix[1] \in Int
BY SlotsUsed, ObjectsUsed, SerialLinkAssumption
DEF LinkIInv, LinkTypeOK, TransportIInv, TransportTypeOK, Boxes

LEMMA MatrixChangesOrder ==
  ASSUME LinkIInv, 1 \in Keyboards, InOrder, NEW i \in Keyboards, MatrixChanges(i)
  PROVE  InOrder'
<1>1. matrix'[1] = matrix[1] \/ matrix'[1] = matrix[1] + 1
  BY DEF MatrixChanges, LinkIInv, LinkTypeOK
<1>2. Ordered(matrix_remote[0], remote[0][MATRIX][1], up[1], local[1][MATRIX][0], matrix'[1])
  BY <1>1, OrderTypes, MatrixChanged DEF InOrder
<1> QED
  BY <1>2 DEF MatrixChanges, transportVars, InOrder

LEMMA UpdateOrder ==
  ASSUME LinkIInv, 1 \in Keyboards, InOrder, NEW i \in Keyboards, NEW due \in BOOLEAN,
         Update(i, due)
  PROVE  InOrder'
<1>1. /\ up' = up /\ matrix' = matrix /\ matrix_remote' = matrix_remote
      /\ remote' = Put(remote, i, CONNECTED, 0, {})
  BY DEF Update, Taken
<1>2. remote \in Boxes /\ local \in Boxes
  BY DEF LinkIInv, TransportIInv, TransportTypeOK
<1>3. remote'[0][MATRIX][1] = remote[0][MATRIX][1]
  BY <1>1, <1>2, PutInBox, SlotsUsed, ObjectsUsed, SerialLinkAssumption
<1>4. CASE local' = local
  BY <1>1, <1>3, <1>4 DEF InOrder
<1>5. CASE local' = Written(Written(local, i, MATRIX, 0, matrix[i]), i, CONNECTED, 0, 0)
  <2> DEFINE V     == {[writer |-> i, to |-> 0, content |-> matrix[i]]}
             W     == {[writer |-> i, to |-> 0, content |-> 0]}
             first == Put(local, i, MATRIX, 0, V)
  <2>1. local' = Put(first, i, CONNECTED, 0, W)
    BY <1>5 DEF Written
  <2>2. V \in SUBSET Values /\ W \in SUBSET Values
    BY SlotsUsed, SerialLinkAssumption DEF Values, LinkIInv, LinkTypeOK
  <2> HIDE DEF V, W
  <2>3. first \in Boxes /\ first[1][MATRIX][0] = IF i = 1 THEN V ELSE local[1][MATRIX][0]
    BY <1>2, <2>2, PutInBox, SlotsUsed, ObjectsUsed
  <2> HIDE DEF first
  <2>4. local'[1][MATRIX][0] = IF i = 1 THEN V ELSE local[1][MATRIX][0]
    BY <2>1, <2>2, <2>3, PutInBox, SlotsUsed, ObjectsUsed, SerialLinkAssumption
  <2>5. CASE i = 1
    <3>1. V = {[writer |-> 1, to |-> 0, content |-> matrix[1]]} /\ matrix[1] <= matrix[1]
      BY <2>5, OrderTypes DEF V
    <3>2. Ordered(matrix_remote[0], remote[0][MATRIX][1], up[1], V, matrix[1])
      BY <3>1, NewlyReady DEF InOrder
    <3> QED
      BY <1>1, <1>3, <2>4, <2>5, <3>2 DEF InOrder
  <2>6. CASE i # 1
    BY <1>1, <1>3, <2>4, <2>6 DEF InOrder
  <2> QED
    BY <2>5, <2>6
<1> QED
  BY <1>4, <1>5 DEF Update

LEMMA ReadMatrixOrder ==
  ASSUME LinkIInv, 1 \in Keyboards, InOrder, NEW i \in Keyboards, ReadMatrix(i)
  PROVE  InOrder'
<1>1. /\ up' = up /\ matrix' = matrix /\ local' = local
      /\ remote' = Put(remote, i, MATRIX, 1, {})
  BY DEF ReadMatrix, Read, Taken
<1>2. remote \in Boxes
  BY DEF LinkIInv, TransportIInv, TransportTypeOK
<1>3. remote'[0][MATRIX][1] = IF i = 0 THEN {} ELSE remote[0][MATRIX][1]
  BY <1>1, <1>2, PutInBox, SlotsUsed, ObjectsUsed
<1>4. matrix_remote'[0] = IF i = 0 /\ remote[0][MATRIX][1] # {} THEN remote[0][MATRIX][1]
                          ELSE matrix_remote[0]
  BY SlotsUsed DEF ReadMatrix, LinkIInv, LinkTypeOK
<1>5. Ordered(matrix_remote'[0], remote'[0][MATRIX][1], up[1], local[1][MATRIX][0], matrix[1])
  BY <1>3, <1>4, SomeTaken DEF InOrder
<1> QED
  BY <1>1, <1>5 DEF InOrder

LEMMA UpdateTransportOrder ==
  ASSUME LinkIInv, 1 \in Keyboards, InOrder, NEW i \in Keyboards, NEW o \in Objects,
         NEW j \in Slots, NEW lost, UpdateTransport(i, o, j, lost),
         UNCHANGED mainVars
  PROVE  InOrder'
<1>1. /\ remote' = remote /\ matrix' = matrix /\ matrix_remote' = matrix_remote
      /\ local' = Put(local, i, o, j, {})
  BY DEF UpdateTransport, Taken, mainVars
<1>2. local \in Boxes /\ up \in [Keyboards -> Seq(Frame)] /\ 1 # 0
  BY DEF LinkIInv, TransportIInv, TransportTypeOK
<1>3. local'[1][MATRIX][0] = IF i = 1 /\ o = MATRIX /\ j = 0 THEN {} ELSE local[1][MATRIX][0]
  BY <1>1, <1>2, PutInBox, SlotsUsed, ObjectsUsed
<1>4. PICK v \in local[i][o][j] : RouterSendFrame(i, Destination(o, j), o, v, lost)
  BY DEF UpdateTransport
<1> DEFINE dest == Destination(o, j)
           f    == [id |-> o, value |-> v, byte |-> IF dest = 0 THEN 1 ELSE dest]
<1>5. \/ up' = up
      \/ dest = 0 /\ MaySend(i, dest) /\ SendUp(up, i, f, lost)
  BY <1>4 DEF RouterSendFrame
<1>6. CASE up'[1] = up[1]
  <2>1. Ordered(matrix_remote[0], remote[0][MATRIX][1], up[1], local'[1][MATRIX][0], matrix[1])
    BY <1>3, SomeTaken DEF InOrder
  <2> QED
    BY <1>1, <1>6, <2>1 DEF InOrder
<1>7. CASE up'[1] # up[1]
  <2>1. i = 1 /\ dest = 0 /\ up'[1] = Append(up[1], f)
    BY <1>2, <1>5, <1>7 DEF SendUp
  <2>2. o = MATRIX /\ j = 0
    BY <2>1, ObjectsUsed, SerialLinkAssumption
    DEF Destination, UpdateTransport, LocalSlots
  <2>3. v \in local[1][MATRIX][0] /\ v \in Values
    BY <1>4, <2>1, <2>2, OrderTypes
  <2>4. f \in Frame /\ f.value = v
    BY <2>1, <2>3 DEF Frame
  <2> HIDE DEF f, dest
  <2>5. Ordered(matrix_remote[0], remote[0][MATRIX][1], Append(up[1], f), {}, matrix[1])
    BY <2>3, <2>4, OrderTypes, FrameSent DEF InOrder
  <2> QED
    BY <1>1, <1>3, <2>1, <2>2, <2>5 DEF InOrder
<1> QED
  BY <1>6, <1>7

\* The hops of a frame tell how far down it was written.
LEMMA FrameOfSlave ==
  ASSUME NEW i \in Nat, NEW f \in UpFrames(i + 1)
  PROVE  /\ f.id = MATRIX /\ f.value \in Values /\ f \in Frame
         /\ (i = 0 => (f.byte = 1 <=> f.value.writer = 1))
         /\ (i = 1 => f.value.writer # 1)
         /\ Hop(f) \in Frame /\ Hop(f).value = f.value
<1>1. /\ f \in Frame /\ ObjectType[f.id] = "SLAVE_TO_MASTER" /\ f.byte > 0
      /\ f.value.writer = i + 1 + f.byte - 1
  BY DEF UpFrames
<1>2. f.id \in Objects /\ f.value \in Values /\ f.byte \in 0 .. 255
  BY <1>1 DEF Frame
<1>3. f.id = MATRIX
  BY <1>1, <1>2, SerialLinkAssumption
<1>4. f.value.writer = i + f.byte
  BY <1>1, <1>2
<1>5. (i = 0 => (f.byte = 1 <=> f.value.writer = 1)) /\ (i = 1 => f.value.writer # 1)
  BY <1>1, <1>2, <1>4
<1>6. Hop(f) \in Frame /\ Hop(f).value = f.value
  BY <1>1, <1>2 DEF Frame, Hop
<1> QED
  BY <1>1, <1>2, <1>3, <1>5, <1>6

LEMMA OtherKeyboard ==
  ASSUME NEW boxes \in Boxes, NEW i \in Keyboards, NEW o, NEW j, NEW V,
         NEW k \in Keyboards, k # i
  PROVE  Put(boxes, i, o, j, V)[k] = boxes[k]
BY DEF Put, Boxes

LEMMA RouteFromBelowOrder ==
  ASSUME LinkIInv, 1 \in Keyboards, InOrder, NEW i \in Keyboards, NEW lost,
         RouteFromBelow(i, lost), UNCHANGED mainVars
  PROVE  InOrder'
<1> DEFINE f    == Head(up[i + 1])
           rest == [up EXCEPT ![i + 1] = Tail(@)]
<1>1. /\ i + 1 \in Keyboards /\ i \in Nat /\ local' = local
      /\ matrix' = matrix /\ matrix_remote' = matrix_remote
  BY TransportAssumption DEF RouteFromBelow, Keyboards, mainVars
<1>2. /\ up[i + 1] \in Seq(UpFrames(i + 1)) /\ up[i + 1] \in Seq(Frame) /\ up[i + 1] # << >>
      /\ up \in [Keyboards -> Seq(Frame)] /\ remote \in Boxes
  BY <1>1 DEF RouteFromBelow, LinkIInv, TransportIInv, TransportTypeOK, OnTheWay
<1>3. f \in UpFrames(i + 1) /\ f \in Frame
  BY <1>2
<1>4. CASE i = 0
  <2>1. up[1] # << >> /\ f = Head(up[1]) /\ f \in UpFrames(1)
    BY <1>2, <1>3, <1>4
  <2>2. f.id = MATRIX /\ f.value \in Values /\ (f.byte = 1 <=> f.value.writer = 1)
    BY <1>1, <1>3, <1>4, FrameOfSlave
  <2>3. up'[1] = Tail(up[1])
    BY <1>2, <1>4 DEF RouteFromBelow, SendUp
  <2>4. remote' = remote \/ remote' = Put(remote, 0, MATRIX, f.byte, {f.value})
    BY <1>4, <2>2, ObjectsUsed DEF RouteFromBelow, RecvFrame
  <2>5. \/ remote'[0][MATRIX][1] = remote[0][MATRIX][1]
        \/ f.byte = 1 /\ remote'[0][MATRIX][1] = {f.value}
    <3>1. CASE remote' = remote
      BY <3>1
    <3>2. CASE remote' = Put(remote, 0, MATRIX, f.byte, {f.value}) /\ f.byte = 1
      BY <1>2, <2>2, <3>2, PutInBox, SlotsUsed, ObjectsUsed
    <3>3. CASE remote' = Put(remote, 0, MATRIX, f.byte, {f.value}) /\ f.byte # 1
      BY <1>2, <3>3, SlotsUsed, ObjectsUsed DEF Put, Boxes
    <3> QED
      BY <2>4, <3>1, <3>2, <3>3
  <2>6. Ordered(matrix_remote[0], remote'[0][MATRIX][1], Tail(up[1]), local[1][MATRIX][0],
                matrix[1])
    <3> HIDE DEF f
    <3>1. /\ Ordered(matrix_remote[0], remote[0][MATRIX][1], Tail(up[1]), local[1][MATRIX][0],
                     matrix[1])
          /\ (f.value.writer = 1 =>
                Ordered(matrix_remote[0], {f.value}, Tail(up[1]), local[1][MATRIX][0], matrix[1]))
      BY <2>1, OrderTypes, FrameReceived DEF InOrder
    <3> QED
      BY <2>2, <2>5, <3>1
  <2> QED
    BY <1>1, <2>3, <2>6 DEF InOrder
<1>5. CASE i # 0
  <2>1. ~is_master[i]
    BY <1>5 DEF LinkIInv, OnlyMaster
  <2>2. remote' = remote /\ SendUp(rest, i, Hop(f), lost)
    BY <2>1 DEF RouteFromBelow
  <2>3. rest[1] = up[1] /\ rest \in [Keyboards -> Seq(Frame)]
    BY <1>1, <1>2, <1>5
  <2> HIDE DEF rest
  <2>4. up'[1] = up[1] \/ (i = 1 /\ up'[1] = Append(up[1], Hop(f)))
    BY <1>5, <2>2, <2>3 DEF SendUp
  <2>5. CASE up'[1] = up[1]
    BY <1>1, <2>2, <2>5 DEF InOrder
  <2>6. CASE i = 1 /\ up'[1] = Append(up[1], Hop(f))
    <3>1. f.value.writer # 1 /\ Hop(f) \in Frame /\ Hop(f).value = f.value
      BY <1>1, <1>3, <2>6, FrameOfSlave
    <3>2. Ordered(matrix_remote[0], remote[0][MATRIX][1], Append(up[1], Hop(f)),
                  local[1][MATRIX][0], matrix[1])
      BY <3>1, OrderTypes, FrameSent DEF InOrder
    <3> QED
      BY <1>1, <2>2, <2>6, <3>2 DEF InOrder
  <2> QED
    BY <2>4, <2>5, <2>6
<1> QED
  BY <1>4, <1>5

LEMMA RouteFromAboveOrder ==
  ASSUME LinkIInv, 1 \in Keyboards, InOrder, NEW i \in Keyboards, NEW lost,
         RouteFromAbove(i, lost), UNCHANGED mainVars
  PROVE  InOrder'
<1> DEFINE f == Head(down[i - 1])
<1>1. /\ i # 0 /\ up' = up /\ local' = local
      /\ matrix' = matrix /\ matrix_remote' = matrix_remote
  BY TransportAssumption DEF RouteFromAbove, Keyboards, mainVars
<1>2. remote' = remote \/ remote' = RecvFrame(i, 0, f)
  BY DEF RouteFromAbove
<1>3. remote'[0] = remote[0]
  <2>1. remote \in Boxes
    BY DEF LinkIInv, TransportIInv, TransportTypeOK
  <2>2. CASE remote' = RecvFrame(i, 0, f)
    <3> HIDE DEF f
    <3>1. PICK j : remote' = Put(remote, i, f.id, j, {f.value})
      BY <2>2 DEF RecvFrame
    <3> QED
      BY <1>1, <2>1, <3>1, SlotsUsed, OtherKeyboard
  <2> QED
    BY <1>2, <2>2
<1> QED
  BY <1>1, <1>3 DEF InOrder

LEMMA OrderInitInv == Init => OrderIInv
<1> SUFFICES ASSUME Init, 1 \in Keyboards
             PROVE  InOrder
  BY LinkInitInv DEF OrderIInv
<1>1. /\ matrix_remote[0] = {} /\ remote[0][MATRIX][1] = {} /\ up[1] = << >>
      /\ local[1][MATRIX][0] = {}
  BY SlotsUsed, ObjectsUsed DEF Init, TransportInit, Empty
<1> QED
  BY <1>1 DEF InOrder, Ordered, NotNewer, From1

LEMMA OrderNextInv == OrderIInv /\ [Next]_vars => OrderIInv'
<1> SUFFICES ASSUME LinkIInv, 1 \in Keyboards, InOrder, [Next]_vars
             PROVE  InOrder'
  BY LinkNextInv DEF OrderIInv, Keyboards
<1>1. CASE SeeUsb
  BY <1>1 DEF SeeUsb, BecomeMaster, mainVars, InOrder
<1>2. ASSUME NEW i \in Keyboards, Main(i)
      PROVE  InOrder'
  BY <1>2, MatrixChangesOrder, UpdateOrder, ReadMatrixOrder DEF Main
<1>3. ASSUME NEW i \in Keyboards, NEW lost \in BOOLEAN, Serial(i, lost)
      PROVE  InOrder'
  BY <1>3, UpdateTransportOrder, RouteFromBelowOrder, RouteFromAboveOrder DEF Serial
<1>4. CASE UNCHANGED vars
  BY <1>4 DEF vars, transportVars, mainVars, InOrder
<1> QED
  BY <1>1, <1>2, <1>3, <1>4 DEF Next

\* In a chain of any length, with any frames lost, the master takes the
\* matrices of the first slave in the order of its changes.
THEOREM LinkOrder == Spec => NeverBack
<1> DEFINE Forward == \A v \in matrix_remote[0], w \in matrix_remote'[0] :
                        v.content <= w.content /\ w.content <= matrix[1]
<1>1. OrderIInv /\ [Next]_vars => [Forward]_vars
  <2> SUFFICES ASSUME OrderIInv, [Next]_vars,
                      NEW v \in matrix_remote[0], NEW w \in matrix_remote'[0]
               PROVE  v.content <= w.content /\ w.content <= matrix[1]
      OBVIOUS
  <2>1. v.writer = 1 /\ v \in Values
    BY SlotsUsed DEF OrderIInv, LinkIInv, LinkTypeOK, RemoteIsFirstSlave
  <2>2. 1 \in Keyboards /\ InOrder
    BY <2>1 DEF OrderIInv, Values
  <2>3. w \in matrix_remote[0] \cup remote[0][MATRIX][1]
    BY SlotsUsed
    DEF Next, SeeUsb, Main, Serial, MatrixChanges, Update, ReadMatrix, mainVars, vars,
        OrderIInv, LinkIInv, LinkTypeOK
  <2> QED
    BY <2>2, <2>3 DEF InOrder, Ordered, NotNewer
<1> QED
  BY <1>1, OrderInitInv, OrderNextInv, PTL DEF Spec, NeverBack

-----------------------------------------------------------------------------
(* A triple buffered object.                                               *)

\* No object is not an object: an object has a part.
LEMMA NoneIsNoObject == None \notin BufferObjects
BY PartsAssumption DEF None, BufferObjects

LEMMA NullIsNoSlot == NULL \notin BufferSlots
BY DEF NULL, BufferSlots

-----------------------------------------------------------------------------
LEMMA BufferInitInv == BufferInit => IInv
<1> SUFFICES ASSUME BufferInit
             PROVE  IInv
    OBVIOUS
<1>1. [p \in Parts |-> Zero] \in BufferObjects
  BY DataAssumption DEF BufferObjects
<1>2. buffer \in [BufferSlots -> BufferObjects]
  BY <1>1 DEF BufferInit
<1>3. /\ read_index \in BufferSlots /\ write_index \in BufferSlots /\ shared_index \in BufferSlots
      /\ read_index # write_index /\ write_index # shared_index
      /\ read_index # shared_index
  BY DEF BufferInit, BufferSlots
<1>4. data_available \in BOOLEAN
  BY DEF BufferInit
<1> QED
  BY <1>2, <1>3, <1>4 DEF BufferInit, IInv, TypeOK

\* Every call of a thread, and every word it writes, keeps the invariant.
LEMMA BufferNextInv == IInv /\ [BufferNext]_bufferVars => IInv'
<1> SUFFICES ASSUME IInv, [BufferNext]_bufferVars
             PROVE  IInv'
    OBVIOUS
<1> USE DEF IInv, TypeOK, indices, writer
<1>1. CASE BeginWrite
  BY <1>1, NullIsNoSlot DEF BeginWrite
<1>2. ASSUME NEW p \in Parts, WritePart(p)
      PROVE  IInv'
  <2>1. wptr \in BufferSlots /\ object \in BufferObjects
    BY <1>2 DEF WritePart
  <2>2. object[p] \in Data
    BY <2>1, <1>2 DEF BufferObjects
  <2>3. buffer' = [buffer EXCEPT ![wptr] = [buffer[wptr] EXCEPT ![p] = object[p]]]
    BY <1>2 DEF WritePart
  <2>4. [buffer[wptr] EXCEPT ![p] = object[p]] \in BufferObjects
    BY <2>1, <2>2 DEF BufferObjects
  <2>5. buffer' \in [BufferSlots -> BufferObjects]
    BY <2>1, <2>3, <2>4
  <2>6. \A q \in Parts \ unwritten' : buffer'[wptr][q] = object[q]
    BY <1>2, <2>1, <2>3 DEF WritePart, BufferObjects
  <2> QED
    BY <1>2, <2>5, <2>6 DEF WritePart
<1>3. CASE EndWrite
  BY <1>3 DEF EndWrite
<1>4. CASE ReadBuffer
  BY <1>4, NullIsNoSlot DEF ReadBuffer
<1>5. CASE ReadNothing
  BY <1>5 DEF ReadNothing, bufferVars
<1>6. CASE Release
  BY <1>6 DEF Release
<1>7. CASE UNCHANGED bufferVars
  BY <1>7 DEF bufferVars
<1> QED
  BY <1>1, <1>2, <1>3, <1>4, <1>5, <1>6, <1>7 DEF BufferNext

\* The indices stay a permutation of the slots, and each thread's pointer
\* stays its own index, in every reachable state.
THEOREM BufferInvariance == BufferSpec => []IInv
<1>1. BufferInit => IInv
  BY BufferInitInv
<1>2. IInv /\ [BufferNext]_bufferVars => IInv'
  BY BufferNextInv
<1> QED
  BY <1>1, <1>2, PTL DEF BufferSpec

LEMMA NoRaceOfInv == IInv => NoRace
BY NullIsNoSlot DEF IInv, TypeOK, NoRace

\* No access to a slot by one thread races with the other thread's
\* (NoRace), however the calls interleave.
THEOREM RaceFreedom == BufferSpec => []NoRace
BY BufferInvariance, NoRaceOfInv, PTL

-----------------------------------------------------------------------------
(* The refinement.                                                         *)

LEMMA BufferInitRefines == BufferInit => Mailbox!Init
BY DEF BufferInit, Mailbox!Init

\* Every step is a step of the mailbox or leaves it as it is.
LEMMA BufferNextRefines == IInv /\ [BufferNext]_bufferVars => [Mailbox!Next]_Mailbox!vars
<1> SUFFICES ASSUME IInv, [BufferNext]_bufferVars
             PROVE  [Mailbox!Next]_Mailbox!vars
    OBVIOUS
<1> USE DEF IInv, TypeOK, indices, writer, Mailbox!vars
<1>1. CASE BeginWrite
  BY <1>1 DEF BeginWrite, Mailbox!Next, Mailbox!Prepare
<1>2. ASSUME NEW p \in Parts, WritePart(p)
      PROVE  UNCHANGED Mailbox!vars
  \* The writer's slot is neither the shared one nor the reader's.
  <2>1. wptr \in BufferSlots /\ wptr # shared_index /\ (rptr # NULL => rptr # wptr)
    BY <1>2 DEF WritePart
  <2>2. buffer'[shared_index] = buffer[shared_index]
    BY <1>2, <2>1 DEF WritePart
  <2>3. rptr # NULL => buffer'[rptr] = buffer[rptr]
    BY <1>2, <2>1 DEF WritePart
  <2> QED
    BY <1>2, <2>2, <2>3 DEF WritePart
<1>3. CASE EndWrite
  \* All the parts are written: the slot holds the writer's object.
  <2>1. buffer[write_index] = object
    BY <1>3 DEF EndWrite, BufferObjects
  <2>2. object # None
    BY <1>3, NoneIsNoObject DEF EndWrite
  <2> QED
    BY <1>3, <2>1, <2>2 DEF EndWrite, Mailbox!Next, Mailbox!Publish
<1>4. CASE ReadBuffer
  <2>1. buffer[shared_index] # None
    BY NoneIsNoObject
  <2> QED
    BY <1>4, <2>1, NullIsNoSlot DEF ReadBuffer, Mailbox!Next, Mailbox!Take
<1>5. CASE ReadNothing
  BY <1>5 DEF ReadNothing, bufferVars
<1>6. CASE Release
  <2>1. buffer[rptr] # None
    BY <1>6, NoneIsNoObject DEF Release
  <2> QED
    BY <1>6, <2>1 DEF Release, Mailbox!Next, Mailbox!Release
<1>7. CASE UNCHANGED bufferVars
  BY <1>7 DEF bufferVars
<1> QED
  BY <1>1, <1>2, <1>3, <1>4, <1>5, <1>6, <1>7 DEF BufferNext

\* A triple buffered object is a mailbox of the latest value (IsMailbox):
\* the reader gets whole objects, each at most once, the latest first, and
\* an object does not change while it is held.
THEOREM Refinement == BufferSpec => IsMailbox
<1>1. BufferInit => Mailbox!Init
  BY BufferInitRefines
<1>2. IInv /\ [BufferNext]_bufferVars => [Mailbox!Next]_Mailbox!vars
  BY BufferNextRefines
<1> QED
  BY <1>1, <1>2, BufferInvariance, PTL DEF BufferSpec, IsMailbox, Mailbox!Spec

=============================================================================
