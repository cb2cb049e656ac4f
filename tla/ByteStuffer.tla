---------------------------- MODULE ByteStuffer -----------------------------
(***************************************************************************)
(* The framing of the serial link: consistent overhead byte stuffing      *)
(* (quantum/serial_link/protocol/byte_stuffer.c) and the checksum         *)
(* (frame_validator.c), over a line that loses, alters and invents bytes. *)
(*                                                                         *)
(* A frame is stuffed into blocks: a count and that many bytes less one,  *)
(* none of them zero.  A block that is not a full one stands for its      *)
(* bytes and a zero; a zero byte ends the frame.                          *)
(*                                                                         *)
(* The CRC-32 is the set of the byte strings it accepts.  One link, one   *)
(* direction.                                                              *)
(***************************************************************************)
EXTENDS Naturals, Sequences, FiniteSetsExt

CONSTANTS MaxByte,          \* 0xFF, the count of a full block
          MAX_FRAME_SIZE,   \* of the receive buffer
          CrcSize,          \* 4
          Checked,          \* byte strings that end in the CRC of the rest
          MaxFrames, MaxFaults    \* bounds on the environment

Bytes == 0 .. MaxByte

ASSUME StufferAssumption ==
  /\ MaxByte \in Nat \ {0, 1} /\ MAX_FRAME_SIZE \in Nat \ {0} /\ CrcSize \in Nat
  /\ Checked \subseteq Seq(Bytes)
  /\ MaxFrames \in Nat /\ MaxFaults \in Nat

-----------------------------------------------------------------------------
(* Sending.                                                                *)

\* send_block: the bytes from start up to, not including, end, after their
\* count, a uint8_t.
SendBlock(data, start, end) ==
  <<(end - start + 1) % (MaxByte + 1)>> \o SubSeq(data, start, end - 1)

\* Seeded fault: a full block is not cut off.
BlockEndUncut(data, s) ==
  Min({i \in s .. Len(data) + 1 : i > Len(data) \/ data[i] = 0})

\* Where the loop ends the block that begins at s: at the end of the frame,
\* when num_non_zero is MaxByte, or at a zero.
BlockEnd(data, s) ==
  Min({i \in s .. Len(data) + 1 : i > Len(data) \/ i - s + 1 = MaxByte \/ data[i] = 0})

\* byte_stuffer_send_frame: the bytes that go to the line from the block on
\* that begins at s.  A full block is looked at before the zero after it.
Blocks(data) ==
  LET blocks[s \in 1 .. Len(data) + 1] ==
        LET e == BlockEnd(data, s)
        IN  SendBlock(data, s, e)
              \o IF e > Len(data) THEN <<0>>
                 ELSE IF e - s + 1 = MaxByte THEN blocks[e]
                 ELSE blocks[e + 1]
  IN  blocks

Stuffed(data) == IF data = << >> THEN << >> ELSE Blocks(data)[1]

-----------------------------------------------------------------------------
(* Receiving: byte_stuffer_state_t, where data is the first data_pos       *)
(* bytes of the buffer.                                                    *)

StufferState == [next_zero : Bytes, long_frame : BOOLEAN, data : Seq(Bytes)]
InitState    == [next_zero |-> 0, long_frame |-> FALSE, data |-> << >>]
NewFrame(b)  == [next_zero |-> b, long_frame |-> b = MaxByte, data |-> << >>]

\* Seeded fault: the size of the buffer is not checked.
InsideUnchecked(rx, b) ==
  CASE rx.next_zero > 1 -> [rx EXCEPT !.next_zero = @ - 1, !.data = Append(@, b)]
    [] rx.next_zero = 1 /\ rx.long_frame -> [rx EXCEPT !.next_zero = b, !.long_frame = b = MaxByte]
    [] rx.next_zero <= 1 /\ ~rx.long_frame -> [rx EXCEPT !.next_zero = b, !.data = Append(@, 0)]

\* A byte other than zero inside a frame.  When a block that stands for a
\* zero is over, long_frame keeps its value, also if the next is full.
Inside(rx, b) ==
  CASE Len(rx.data) = MAX_FRAME_SIZE -> NewFrame(b)
    [] Len(rx.data) # MAX_FRAME_SIZE /\ rx.next_zero > 1 ->
         [rx EXCEPT !.next_zero = @ - 1, !.data = Append(@, b)]
    [] Len(rx.data) # MAX_FRAME_SIZE /\ rx.next_zero <= 1 /\ rx.long_frame ->
         [rx EXCEPT !.next_zero = b, !.long_frame = b = MaxByte]
    [] Len(rx.data) # MAX_FRAME_SIZE /\ rx.next_zero <= 1 /\ ~rx.long_frame ->
         [rx EXCEPT !.next_zero = b, !.data = Append(@, 0)]

\* Seeded fault: a zero in the wrong place does not reset the receiver.
RecvByteNoReset(rx, b) ==
  CASE rx.next_zero = 0 -> NewFrame(b)
    [] rx.next_zero # 0 /\ b = 0 -> [rx EXCEPT !.next_zero = @ - 1]
    [] rx.next_zero # 0 /\ b # 0 -> Inside(rx, b)

\* byte_stuffer_recv_byte: the state it leaves.
RecvByte(rx, b) ==
  CASE rx.next_zero = 0 -> NewFrame(b)
    [] rx.next_zero = 1 /\ b = 0 -> [rx EXCEPT !.next_zero = 0]
    [] rx.next_zero > 1 /\ b = 0 -> InitState
    [] rx.next_zero # 0 /\ b # 0 -> Inside(rx, b)

\* Seeded fault: every frame is accepted.
AcceptsAll(rx, b) == rx.next_zero = 1 /\ b = 0 /\ rx.data # << >>

\* The byte completes a frame, and validator_recv_frame passes it on.
Accepts(rx, b) ==
  /\ rx.next_zero = 1 /\ b = 0
  /\ Len(rx.data) > CrcSize /\ rx.data \in Checked

-----------------------------------------------------------------------------
(* The line.                                                               *)

VARIABLES rx,
          line,       \* bytes of the frame under way that have not arrived
          received,   \* frames the validator accepted
          frame,      \* history: the frame sent last
          last,       \* history: the byte received last
          intact,     \* history: the bytes of the frame arrived so far, and
                      \* nothing else since the zero byte before it
          underway,   \* history: frames sent since the last one accepted
          frames, faults   \* frames sent and bytes damaged so far

vars == <<rx, line, received, frame, last, intact, underway, frames, faults>>

Init ==
  /\ rx = InitState
  /\ line = << >> /\ received = << >>
  /\ frame = << >> /\ last = 0 /\ intact = FALSE /\ underway = << >>
  /\ frames = 0 /\ faults = 0

\* The serial thread sends a whole frame before it does anything else.
SendFrame(f) ==
  /\ line = << >> /\ frames < MaxFrames
  /\ line' = Stuffed(f)
  /\ frame' = f /\ intact' = TRUE /\ underway' = Append(underway, f)
  /\ frames' = frames + 1
  /\ UNCHANGED <<rx, received, last, faults>>

\* The frames that may still arrive once f has.
After(f) ==
  LET at == {i \in DOMAIN underway : underway[i] = f}
  IN  IF at = {} THEN << >> ELSE SubSeq(underway, Min(at) + 1, Len(underway))

Receive(b) ==
  /\ rx' = RecvByte(rx, b)
  /\ IF Accepts(rx, b)
     THEN received' = Append(received, rx.data) /\ underway' = After(rx.data)
     ELSE UNCHANGED <<received, underway>>
  /\ last' = b

AtFirstByte == line = Stuffed(frame)

ByteArrives ==
  /\ line # << >>
  /\ Receive(Head(line))
  /\ line' = Tail(line)
  /\ intact' = (intact /\ (AtFirstByte => last = 0))
  /\ UNCHANGED <<frame, frames, faults>>

Damage == faults < MaxFaults /\ faults' = faults + 1 /\ UNCHANGED <<frame, frames>>

ByteLost ==
  /\ Damage /\ line # << >>
  /\ line' = Tail(line) /\ intact' = FALSE
  /\ UNCHANGED <<rx, received, last, underway>>

ByteAltered(b) ==
  /\ Damage /\ line # << >> /\ b # Head(line)
  /\ Receive(b)
  /\ line' = Tail(line) /\ intact' = FALSE

\* A byte nobody sent, within a frame or between two.
ByteInvented(b) ==
  /\ Damage
  /\ Receive(b)
  /\ intact' = (intact /\ AtFirstByte)
  /\ UNCHANGED line

Next ==
  \/ \E f \in Checked : SendFrame(f)
  \/ ByteArrives
  \/ ByteLost
  \/ \E b \in Bytes : ByteAltered(b) \/ ByteInvented(b)

Spec == Init /\ [][Next]_vars

-----------------------------------------------------------------------------
(* Properties.                                                             *)

\* Whatever arrives, what is received fits the buffer of MAX_FRAME_SIZE
\* bytes (states[link].data), and counts are bytes.
NoOverrun ==
  /\ rx \in StufferState
  /\ Len(rx.data) <= MAX_FRAME_SIZE

\* The receiver expects the first byte of a frame exactly after a zero byte:
\* whatever was damaged before, the next zero puts it in step again.
InStep == rx.next_zero = 0 <=> last = 0

\* A full block right after a zero, with more data behind it.  Such a frame
\* is lost: recv_byte does not set long_frame for a block that follows a zero
\* and takes its end for another zero (see the README).
FullBlockAfterZero(f) ==
  \E i \in DOMAIN f : /\ f[i] = 0 /\ i + MaxByte <= Len(f)
                      /\ \A j \in i + 1 .. i + MaxByte - 1 : f[j] # 0

\* The frames the receiver can hand on.
Deliverable(f) == Len(f) \in CrcSize + 1 .. MAX_FRAME_SIZE /\ ~FullBlockAfterZero(f)

\* Damage costs no frame but the one it hits, and the next one if it hits
\* the zero between the two: a frame that fits the buffer and arrives intact
\* after a zero byte is handed on, byte by byte what was sent.
OnlyDamageCosts ==
  [][intact /\ intact' /\ line # << >> /\ line' = << >> /\ Deliverable(frame)
     => received' = Append(received, frame)]_vars

\* The bytes that follow the block that begins at s.
AfterBlock(f, s) ==
  LET e == BlockEnd(f, s)
  IN  IF e > Len(f) THEN <<0>>
      ELSE IF e - s + 1 = MaxByte THEN Blocks(f)[e] ELSE Blocks(f)[e + 1]

\* A receiver r has all of f before byte i, which is in the block that begins
\* at s or ends it, and the rest, l, is on the line.  Whether the block is a
\* full one matters as long as more follows.
Midway(r, l, f, s, i) ==
  LET e == BlockEnd(f, s)
  IN  /\ r.next_zero = e - i + 1
      /\ r.data = SubSeq(f, 1, i - 1)
      /\ e <= Len(f) => (r.long_frame <=> e - s + 1 = MaxByte)
      /\ l = SubSeq(f, i, e - 1) \o AfterBlock(f, s)

\* What an intact frame that is arriving looks like.
Arriving ==
  \/ AtFirstByte
  \/ /\ Len(line) < Len(Stuffed(frame))
     /\ \E s \in 1 .. Len(frame) + 1  :
          \E i \in s .. BlockEnd(frame, s) : Midway(rx, line, frame, s, i)

\* The invariant the proofs rest on.
IInv ==
  /\ NoOverrun /\ InStep
  /\ last \in Bytes /\ line \in Seq(Bytes) /\ intact \in BOOLEAN
  /\ frame \in Checked \cup {<< >>}
  /\ intact /\ line # << >> /\ Deliverable(frame) => Arriving

\* The line with its framing is a LossyLine: what is handed on are frames that
\* were sent, each at most once, and in order.
Line == INSTANCE LossyLine WITH Frames <- Checked, inFlight <- underway
IsLossyLine == Line!Spec
=============================================================================
