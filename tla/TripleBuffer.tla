---------------------------- MODULE TripleBuffer ----------------------------
(***************************************************************************)
(* quantum/serial_link/protocol/triple_buffered_object.c: one object      *)
(* shared by the main thread and the serial thread of the firmware.  One  *)
(* of them writes it and the other reads it.                              *)
(*                                                                         *)
(* The section between serial_link_lock and serial_link_unlock            *)
(* (chSysLock, chSysUnlock) is one step.  The object itself is written    *)
(* outside the lock, through the pointer begin_write returned, one part   *)
(* at a time; the reader uses the slot it was given until it is done with *)
(* it (Release).  The packed byte of indices is four variables.           *)
(***************************************************************************)
EXTENDS Naturals

CONSTANTS Parts,     \* the words an object is written in
          Data,      \* values of a word
          Zero       \* what static memory holds at first

ASSUME DataAssumption == Zero \in Data

BufferSlots   == 0 .. 2
BufferObjects == [Parts -> Data]
None    == [p \in {} |-> Zero]      \* no object
NULL    == 3                        \* no slot

ASSUME PartsAssumption == Parts # {}

VARIABLES read_index, write_index, shared_index, data_available,
          buffer,     \* the three slots
          wptr,       \* the slot begin_write returned, or NULL
          object,     \* what the writer is writing there
          unwritten,  \* the parts it has yet to write
          rptr        \* the slot the reader uses, or NULL

indices    == <<read_index, write_index, shared_index, data_available>>
writer     == <<wptr, object, unwritten>>
bufferVars == <<indices, buffer, writer, rptr>>

\* triple_buffer_init, on an object in zeroed memory.
BufferInit ==
  /\ write_index = 0 /\ read_index = 1 /\ shared_index = 2
  /\ data_available = FALSE
  /\ buffer = [i \in BufferSlots |-> [p \in Parts |-> Zero]]
  /\ wptr = NULL /\ object = None /\ unwritten = {}
  /\ rptr = NULL

-----------------------------------------------------------------------------
(* The writer.                                                             *)

BeginWrite ==
  /\ wptr = NULL
  /\ wptr' = write_index
  /\ object' \in BufferObjects
  /\ unwritten' = Parts
  /\ UNCHANGED <<indices, buffer, rptr>>

WritePart(p) ==
  /\ wptr # NULL /\ p \in unwritten
  /\ buffer' = [buffer EXCEPT ![wptr][p] = object[p]]
  /\ unwritten' = unwritten \ {p}
  /\ UNCHANGED <<indices, wptr, object, rptr>>

\* Seeded fault: the indices are not swapped.
EndWriteInPlace ==
  /\ wptr # NULL /\ unwritten = {}
  /\ shared_index' = write_index
  /\ data_available' = TRUE
  /\ wptr' = NULL /\ object' = None
  /\ UNCHANGED <<read_index, write_index, buffer, unwritten, rptr>>

EndWrite ==
  /\ wptr # NULL /\ unwritten = {}
  /\ shared_index' = write_index
  /\ write_index' = shared_index
  /\ data_available' = TRUE
  /\ wptr' = NULL /\ object' = None
  /\ UNCHANGED <<read_index, buffer, unwritten, rptr>>

-----------------------------------------------------------------------------
(* The reader.                                                             *)

\* Seeded fault: the data stays available.
ReadAgain ==
  /\ rptr = NULL
  /\ data_available
  /\ read_index' = shared_index
  /\ shared_index' = read_index
  /\ rptr' = shared_index
  /\ UNCHANGED <<write_index, data_available, buffer, writer>>

ReadBuffer ==
  /\ rptr = NULL
  /\ data_available
  /\ read_index' = shared_index
  /\ shared_index' = read_index
  /\ data_available' = FALSE
  /\ rptr' = shared_index
  /\ UNCHANGED <<write_index, buffer, writer>>

\* read returned NULL: nothing changes.
ReadNothing ==
  /\ rptr = NULL
  /\ ~data_available
  /\ UNCHANGED bufferVars

Release ==
  /\ rptr # NULL
  /\ rptr' = NULL
  /\ UNCHANGED <<indices, buffer, writer>>

BufferNext ==
  \/ BeginWrite \/ (\E p \in Parts : WritePart(p)) \/ EndWrite
  \/ ReadBuffer \/ ReadNothing \/ Release

BufferSpec == BufferInit /\ [][BufferNext]_bufferVars

-----------------------------------------------------------------------------
(* Properties.                                                             *)

TypeOK ==
  /\ read_index \in BufferSlots /\ write_index \in BufferSlots /\ shared_index \in BufferSlots
  /\ data_available \in BOOLEAN
  /\ buffer \in [BufferSlots -> BufferObjects]
  /\ wptr \in BufferSlots \cup {NULL} /\ object \in BufferObjects \cup {None}
  /\ unwritten \in SUBSET Parts
  /\ rptr \in BufferSlots \cup {NULL}

\* The writer and the reader never use the same slot, and neither uses the
\* slot that the other's next call would give away: no access to an object
\* races with another, although all of them are outside the lock.
NoRace ==
  /\ wptr # NULL => wptr # rptr /\ wptr # shared_index
  /\ rptr # NULL => rptr # shared_index

\* The strengthening that makes NoRace inductive: the three indices are a
\* permutation of the slots, each thread's pointer is its own index, and
\* the parts written so far are those of the writer's object.
IInv ==
  /\ TypeOK
  /\ read_index # write_index /\ write_index # shared_index
  /\ read_index # shared_index
  /\ wptr # NULL => /\ wptr = write_index /\ object \in BufferObjects
                    /\ \A p \in Parts \ unwritten : buffer[wptr][p] = object[p]
  /\ wptr = NULL => object = None
  /\ rptr # NULL => rptr = read_index

\* The object is a mailbox of the latest value: what the reader takes is
\* the last object that was written, whole; it never changes under the
\* reader, and it is taken once.
Mailbox == INSTANCE LatestValue WITH
  Objects <- BufferObjects,
  draft <- object,
  mail  <- IF data_available THEN buffer[shared_index] ELSE None,
  held  <- IF rptr = NULL THEN None ELSE buffer[rptr]

IsMailbox == Mailbox!Spec
=============================================================================
