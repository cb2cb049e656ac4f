----------------------------- MODULE ByteStore ------------------------------
(***************************************************************************)
(* What eeprom_write_byte and eeprom_read_byte promise: bytes that keep    *)
(* what was written last, also without power ("retained even after power  *)
(* loss", docs/custom_quantum_functions.md).                               *)
(*                                                                         *)
(* A change takes time.  When the power fails meanwhile, each byte has its *)
(* old or its new value, and those that must be erased together with what *)
(* is changed may be blank.                                                *)
(***************************************************************************)
EXTENDS Naturals

CONSTANTS Addresses, Bytes, Blank,
          Together(_)     \* the bytes erased together with one

VARIABLES mem,        \* what a read returns
          pending,    \* the change under way: what mem becomes, and the
                      \* bytes it puts at risk
          failures    \* how often the power failed
vars == <<mem, pending, failures>>

Change(m, r) == [new |-> m, risk |-> r]
AllBlank     == [a \in Addresses |-> Blank]
Resting      == Change(AllBlank, {})      \* no change is under way

Init == mem = AllBlank /\ pending = Resting /\ failures = 0

\* A byte that is not blank may have to be erased first, with its neighbours.
BeginWrite(a, b) ==
  /\ \E r \in {{}, Together(a)} : pending' = Change([mem EXCEPT ![a] = b], r)
  /\ UNCHANGED <<mem, failures>>

BeginErase ==
  /\ pending' = Change(AllBlank, Addresses)
  /\ UNCHANGED <<mem, failures>>

Done ==
  /\ mem' = pending.new /\ pending' = Resting
  /\ UNCHANGED failures

\* What a byte may be when the power fails.
Outcomes(a) ==
  IF pending = Resting THEN {mem[a]}
  ELSE {mem[a], pending.new[a]} \cup {Blank : b \in pending.risk \cap {a}}

PowerFails ==
  /\ mem' \in [Addresses -> Bytes]
  /\ \A a \in Addresses : mem'[a] \in Outcomes(a)
  /\ pending' = Resting /\ failures' = failures + 1

Next ==
  \/ pending = Resting /\ (BeginErase \/ \E a \in Addresses, b \in Bytes : BeginWrite(a, b))
  \/ pending # Resting /\ Done
  \/ PowerFails

Spec == Init /\ [][Next]_vars
=============================================================================
