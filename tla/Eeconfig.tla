------------------------------ MODULE Eeconfig ------------------------------
(***************************************************************************)
(* The settings a keyboard keeps (tmk_core/common/eeconfig.c) over the    *)
(* emulated EEPROM: at power on they are initialised unless a magic number *)
(* says that they are valid, and after that keys change them.              *)
(*                                                                         *)
(* MAGIC is one byte, and so is every setting.                             *)
(***************************************************************************)
EXTENDS FlashPages, Sequences, Functions

CONSTANTS Layout,       \* the addresses in the order eeconfig_init writes
                        \* them: EECONFIG_MAGIC comes first
          MAGIC_NUMBER, \* EECONFIG_MAGIC_NUMBER
          MaxFailures   \* bound: how often the power fails

ASSUME EeconfigAssumption ==
  /\ Layout \in Seq(Addresses) /\ Layout # << >>
  /\ MAGIC_NUMBER \in Bytes \ {MaxByte}
  /\ MaxFailures \in Nat

EECONFIG_MAGIC == Layout[1]
Settings       == Range(Tail(Layout))
ERASE          == << >>
\* What eeconfig_init writes.
Initial        == [s \in Range(Layout) |-> IF s = EECONFIG_MAGIC THEN MAGIC_NUMBER ELSE 0]

VARIABLES on,        \* the keyboard has power and has called eeconfig_init
          todo,      \* writes of eeconfig_init that are left
          failures,
          wanted     \* history: what each byte was set to last, but for those
                     \* that a power failure has put at risk since

vars == <<flashVars, on, todo, failures, wanted>>

Init ==
  /\ FlashInit
  /\ on = FALSE /\ todo = << >> /\ failures = 0
  /\ wanted = [s \in {} |-> 0]

\* eeconfig_init_quantum: the writes in their order.
eeconfig_init ==
  <<ERASE>> \o [i \in DOMAIN Layout |-> <<Layout[i], Initial[Layout[i]]>>]

eeconfig_is_enabled == EEPROM_ReadDataByte(EECONFIG_MAGIC) = MAGIC_NUMBER

PowerOn ==
  /\ ~on /\ on' = TRUE
  /\ todo' = IF eeconfig_is_enabled THEN << >> ELSE eeconfig_init
  /\ wanted' = IF eeconfig_is_enabled THEN wanted ELSE Initial
  /\ UNCHANGED <<flashVars, failures>>

\* The key EEPROM_RESET.
ResetSettings ==
  /\ on /\ todo = << >> /\ op = Idle
  /\ todo' = eeconfig_init /\ wanted' = Initial
  /\ UNCHANGED <<flashVars, on, failures>>

\* The next write of eeconfig_init.
InitStep ==
  /\ on /\ todo # << >>
  /\ IF Head(todo) = ERASE THEN Erase ELSE WriteDataByte(Head(todo)[1], Head(todo)[2])
  /\ todo' = Tail(todo)
  /\ UNCHANGED <<on, failures, wanted>>

\* eeconfig_update_keymap, eeconfig_update_backlight and the like.
Update(s, b) ==
  /\ on /\ todo = << >>
  /\ WriteDataByte(s, b)
  /\ wanted' = [t \in DOMAIN wanted \cup {s} |-> IF t = s THEN b ELSE wanted[t]]
  /\ UNCHANGED <<on, todo, failures>>

InFlash == FlashStep /\ UNCHANGED <<on, todo, failures, wanted>>

\* What eeconfig_init has still to write.
Unwritten == {s \in Addresses : \E i \in DOMAIN todo : todo[i] # ERASE /\ todo[i][1] = s}

\* The bytes that a power failure may cost now: those that are being changed,
\* with their page if it was erased, and those eeconfig_init has not come to.
AtRisk ==
  Unwritten \cup
    CASE op.at = "erase all" -> Addresses
      [] op.at \in {"erase page", "rewrite"} -> PageOf(op.address)
      [] op.at = "program" -> {op.address}
      [] OTHER -> {}

PowerFails ==
  /\ on /\ failures < MaxFailures
  /\ PowerFailsInFlash
  /\ wanted' = [s \in DOMAIN wanted \ AtRisk |-> wanted[s]]
  /\ on' = FALSE /\ todo' = << >> /\ failures' = failures + 1

Next ==
  \/ PowerOn \/ ResetSettings \/ InitStep \/ InFlash \/ PowerFails
  \/ \E s \in Settings, b \in Bytes : Update(s, b)

Spec == Init /\ [][Next]_vars

-----------------------------------------------------------------------------
(* Properties.                                                             *)

\* A setting has the value it was given last, by eeconfig_init or by a key,
\* through power failures and through changes of the other bytes of its page;
\* only a failure while its own page is being changed may cost it.  The same
\* goes for the magic number, so that nothing is initialised twice, and for
\* what eeconfig_init has written when it is interrupted.  What it had not
\* come to is lost for good if the magic number was already written, since
\* nothing initialises it at the next power on: that is not in wanted.
SettingsKept ==
  todo = << >> /\ op = Idle => \A s \in DOMAIN wanted : Contents[s] = wanted[s]

\* The inductive invariant.  A byte of wanted is the one the flash will hold
\* once the operation under way is done, or eeconfig_init has still to write
\* it; and what that writes are the initial values, all of them if it has
\* still to erase the flash.
WritesLeft(s) == \E i \in DOMAIN todo : todo[i] = <<s, wanted[s]>>
WantedInv ==
  /\ DOMAIN wanted \subseteq Addresses
  /\ \A s \in DOMAIN wanted : WritesLeft(s) \/ Target[s] = wanted[s]
TodoInv ==
  todo # << >> =>
    /\ on /\ wanted = Initial
    /\ \A i \in DOMAIN todo : \/ i = 1 /\ todo[i] = ERASE
                             \/ \E s \in Range(Layout) : todo[i] = <<s, Initial[s]>>
    /\ todo[1] = ERASE => \A s \in Range(Layout) : WritesLeft(s)
IInv ==
  /\ FlashInv /\ WantedInv /\ TodoInv
  /\ todo \in Seq({ERASE} \cup (Addresses \X Bytes))
  /\ ~on => op = Idle /\ todo = << >>

\* The emulated EEPROM is a ByteStore: between two operations every byte is
\* what was written last, and a power failure changes no byte but the one that
\* is being written and those of its page, which it may leave blank.
Mem     == IF op = Idle THEN Contents ELSE before
Blanked == CASE op.at = "erase all"               -> Addresses
             [] op.at \in {"erase page", "rewrite"} -> PageOf(op.address)
             [] OTHER                              -> {}
Pending == IF op = Idle THEN [new |-> [a \in Addresses |-> MaxByte], risk |-> {}]
           ELSE [new |-> Target, risk |-> Blanked]
Store == INSTANCE ByteStore WITH
  Blank <- MaxByte, Together <- PageOf, mem <- Mem, pending <- Pending
IsByteStore == Store!Spec
=============================================================================
