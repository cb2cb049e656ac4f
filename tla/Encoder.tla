------------------------------ MODULE Encoder -------------------------------
(***************************************************************************)
(* A rotary encoder (quantum/encoder.c): its two pins are read in every   *)
(* scan, and a table turns the transition between two reads into a step.  *)
(* On the slave of a split keyboard the last reads but one are copied to  *)
(* the buffer of the serial line in every scan; the master fetches the    *)
(* buffer in its own scans and looks them up a second time.               *)
(*                                                                         *)
(* The scans keep up with the knob: it moves a step at most between two.  *)
(***************************************************************************)
EXTENDS Integers, Sequences

CONSTANTS ENCODER_RESOLUTION,
          MaxPosition, MaxUneven   \* bounds on the turns of the knob, and on uneven

ASSUME EncoderAssumption ==
  ENCODER_RESOLUTION \in Nat \ {0} /\ MaxPosition \in Nat /\ MaxUneven \in Nat

VARIABLES start, position, \* of the knob, in steps
          encoder_state,   \* the pins at the last two reads (the code keeps four)
          buffer,          \* encoder_state in serial_s2m_buffer
          here, there,     \* encoder_value and the updates, here and at the master
          \* for the properties:
          read_at,         \* the position at the last read
          sent_at,         \* the position at the read before, which the buffer ends with
          polls,           \* whether the master has polled this buffer
          uneven           \* steps that were polled again, or never, or never made

encoderVars == <<start, position, encoder_state, buffer, here, there, read_at, sent_at, polls, uneven>>

\* The pins, B and A as two bits, at a position.
Pins(p) == <<0, 2, 3, 1>>[(p % 4) + 1]

encoder_LUT == <<0, -1, 1, 0, 1, 0, 0, -1, -1, 0, 0, 1, 0, 1, -1, 0>>

Step(state) == encoder_LUT[state + 1]

\* The remainder of C keeps the sign.
Remainder(v, n) == IF v >= 0 THEN v % n ELSE 0 - ((0 - v) % n)

\* encoder_init reads the pins once, so that the state may begin with a step
\* from the pins at 0 that was never made.
EncoderInit ==
  /\ start \in 0 .. 3 /\ position = start /\ read_at = start
  /\ encoder_state = Pins(start) /\ buffer = 0
  /\ here = [value |-> 0, updates |-> 0] /\ there = [value |-> 0, updates |-> 0]
  /\ sent_at = start - Step(encoder_state) /\ polls = 1
  /\ uneven = IF Step(encoder_state) = 0 THEN 0 ELSE 1

\* What encoder_update_kb is told, a clockwise detent counting as -1.
Detent(v) ==
  IF v >= ENCODER_RESOLUTION THEN 1 ELSE IF v <= 0 - ENCODER_RESOLUTION THEN -1 ELSE 0

\* Seeded fault: the value starts again from 0 after an update only.
UpdateNoRemainder(e, state) ==
  LET v == e.value + Step(state)
  IN  [value   |-> v,
       updates |-> e.updates + Detent(v)]

\* encoder_update.  updates is the sum of what encoder_update_kb was told.
encoder_update(e, state) ==
  LET v == e.value + Step(state)
  IN  [value   |-> Remainder(v, ENCODER_RESOLUTION),
       updates |-> e.updates + Detent(v)]

Turn(d) ==
  /\ position + d - read_at \in {-1, 0, 1}
  /\ position + d - start \in (0 - MaxPosition) .. MaxPosition
  /\ position' = position + d
  /\ UNCHANGED <<start, encoder_state, buffer, here, there, read_at, sent_at, polls, uneven>>

\* The step of the buffer is polled unevenly when it is replaced before it was
\* polled (0), and when it is polled again (1).
Uneven(when) ==
  /\ uneven' = IF polls = when /\ Step(buffer) # 0 THEN uneven + 1 ELSE uneven
  /\ uneven' <= MaxUneven

\* The scan of the slave: encoder_state_raw, then encoder_read.
encoder_read ==
  LET state == (encoder_state * 4 + Pins(position)) % 16
  IN  /\ buffer' = encoder_state
      /\ encoder_state' = state
      /\ here' = encoder_update(here, state)
      /\ read_at' = position /\ sent_at' = read_at /\ polls' = 0
      /\ Uneven(0)
      /\ UNCHANGED <<start, position, there>>

\* The scan of the master, after a transaction that did not fail.
encoder_update_raw ==
  /\ there' = encoder_update(there, buffer)
  /\ polls' = 1
  /\ Uneven(1)
  /\ UNCHANGED <<start, position, encoder_state, buffer, here, read_at, sent_at>>

EncoderNext == (\E d \in {-1, 1} : Turn(d)) \/ encoder_read \/ encoder_update_raw

EncoderSpec == EncoderInit /\ [][EncoderNext]_encoderVars

-----------------------------------------------------------------------------
Counted(e) == e.updates * ENCODER_RESOLUTION + e.value

\* The slave counts the position of its last read, in either direction and at
\* each turn of the direction.  The master counts that of the read before,
\* once it has polled it, but for one step at most for each step that was
\* polled unevenly: what a poll too many or too few costs does not grow.
StepsCounted ==
  LET off == Counted(there) - (sent_at - start)
      may == uneven + (1 - polls)
  IN  Counted(here) = read_at - start /\ off \in (0 - may) .. may

-----------------------------------------------------------------------------
(* The inductive invariant of EncoderSpec.                                 *)

\* What encoder_update leaves is less than a detent.
Values == {v \in Int : 0 - ENCODER_RESOLUTION < v /\ v < ENCODER_RESOLUTION}

EncoderTypeOK ==
  /\ start \in Int /\ position \in Int /\ read_at \in Int /\ sent_at \in Int
  /\ encoder_state \in 0 .. 15 /\ buffer \in 0 .. 15
  /\ here \in [value : Values, updates : Int] /\ there \in [value : Values, updates : Int]
  /\ polls \in {0, 1} /\ uneven \in Nat

\* The last two bits of the state are the pins at the last read, and its step
\* is the way there from the read before; the master is to have counted the
\* read of the buffer without its step until it has polled it.
EncoderInv ==
  /\ EncoderTypeOK
  /\ encoder_state % 4 = Pins(read_at) /\ position - read_at \in {-1, 0, 1}
  /\ Step(encoder_state) = read_at - sent_at
  /\ Counted(here) = read_at - start
  /\ LET off == Counted(there) - (sent_at - start) + (IF polls = 1 THEN 0 ELSE Step(buffer))
     IN  off \in (0 - uneven) .. uneven
=============================================================================
