----------------------------- MODULE LatestValue -----------------------------
(***************************************************************************)
(* What a triple buffered object of the serial link promises its two      *)
(* threads: a mailbox for one object.  The writer prepares an object and  *)
(* publishes it, replacing the one in the mailbox; the reader takes the   *)
(* object out and holds it, unchanged, for as long as it likes.  Neither  *)
(* waits for the other.                                                   *)
(***************************************************************************)
CONSTANTS Objects,   \* the values that are sent
          None       \* no object, not one of them

VARIABLES draft,   \* the object the writer prepares, or None
          mail,    \* the object in the mailbox, or None
          held     \* the object the reader holds, or None

vars == <<draft, mail, held>>

Init == draft = None /\ mail = None /\ held = None

Prepare ==
  /\ draft = None
  /\ draft' \in Objects
  /\ UNCHANGED <<mail, held>>

Publish ==
  /\ draft # None
  /\ mail' = draft /\ draft' = None
  /\ UNCHANGED held

Take ==
  /\ held = None /\ mail # None
  /\ held' = mail /\ mail' = None
  /\ UNCHANGED draft

Release ==
  /\ held # None
  /\ held' = None
  /\ UNCHANGED <<draft, mail>>

Next == Prepare \/ Publish \/ Take \/ Release

Spec == Init /\ [][Next]_vars
=============================================================================
