----------------------------- MODULE FlashPages -----------------------------
(***************************************************************************)
(* The EEPROM emulated in the flash of an STM32                            *)
(* (tmk_core/common/chibios/eeprom_stm32.c): a byte for each half word.   *)
(* An empty word is programmed; a byte that changes has its whole page     *)
(* copied to RAM, erased and programmed again.                             *)
(*                                                                         *)
(* A word is the byte in its low half.  What the high half holds says only *)
(* whether the word was programmed.  Flash operations are taken to         *)
(* succeed; each either happens or does not when the power fails.          *)
(***************************************************************************)
EXTENDS Naturals

CONSTANTS PageCount,    \* FEE_DENSITY_PAGES
          PageBytes,    \* FEE_PAGE_SIZE / 2
          MaxByte       \* 0xFF

ASSUME PagesAssumption ==
  PageCount \in Nat \ {0} /\ PageBytes \in Nat \ {0} /\ MaxByte \in Nat

Addresses       == 0 .. PageCount * PageBytes - 1    \* FEE_DENSITY_BYTES is the last
Bytes           == 0 .. MaxByte
FEE_EMPTY_WORD  == MaxByte + 1
PageOf(a)       == {b \in Addresses : b \div PageBytes = a \div PageBytes}

VARIABLES flash,      \* word at each address
          op,         \* where EEPROM_WriteDataByte or EEPROM_Erase is
          DataBuf,    \* the copy of a page, in RAM
          before      \* history: the bytes when the operation began

flashVars == <<flash, op, DataBuf, before>>

At(p, a, b) == [at |-> p, address |-> a, byte |-> b]
Idle        == At("idle", 0, 0)
NoCopy      == [a \in {} |-> 0]

FlashInit ==
  /\ flash = [a \in Addresses |-> FEE_EMPTY_WORD]
  /\ op = Idle /\ DataBuf = NoCopy
  /\ before = [a \in Addresses |-> MaxByte]

\* EEPROM_ReadDataByte: the low half of the word.
EEPROM_ReadDataByte(a) == IF flash[a] = FEE_EMPTY_WORD THEN MaxByte ELSE flash[a]
Contents == [a \in Addresses |-> EEPROM_ReadDataByte(a)]

\* Seeded fault: only the byte that changes is kept.
CopyOfByte(a, b) == [i \in PageOf(a) |-> IF i = a THEN b ELSE MaxByte]

\* The page with the byte that changes, as memcpy and the assignment leave it.
CopyOfPage(a, b) == [i \in PageOf(a) |-> IF i = a THEN b ELSE EEPROM_ReadDataByte(i)]

\* EEPROM_WriteDataByte up to its first flash operation.
WriteDataByte(a, b) ==
  /\ op = Idle
  /\ before' = Contents
  /\ UNCHANGED flash
  /\ \/ /\ flash[a] = FEE_EMPTY_WORD
        /\ op' = At("program", a, b) /\ UNCHANGED DataBuf
     \/ /\ flash[a] # FEE_EMPTY_WORD /\ EEPROM_ReadDataByte(a) = b
        /\ UNCHANGED <<op, DataBuf>>
     \/ /\ flash[a] # FEE_EMPTY_WORD /\ EEPROM_ReadDataByte(a) # b
        /\ op' = At("erase page", a, b) /\ DataBuf' = CopyOfPage(a, b)

ProgramByte ==
  /\ op.at = "program"
  /\ flash' = [flash EXCEPT ![op.address] = op.byte]
  /\ op' = Idle
  /\ UNCHANGED <<DataBuf, before>>

\* The words that are left to program: those that are not 0xFFFF.
Unprogrammed(f) == {i \in DOMAIN DataBuf : DataBuf[i] # MaxByte /\ f[i] = FEE_EMPTY_WORD}

\* Seeded fault: the last word of the page is not programmed.
RewritingButOne(f) ==
  IF \E i \in DOMAIN DataBuf : Unprogrammed(f) \subseteq {i}
  THEN Idle ELSE [op EXCEPT !.at = "rewrite"]

Rewriting(f) == IF Unprogrammed(f) = {} THEN Idle ELSE [op EXCEPT !.at = "rewrite"]

FLASH_ErasePage ==
  /\ op.at = "erase page"
  /\ flash' = [a \in Addresses |-> IF a \in PageOf(op.address) THEN FEE_EMPTY_WORD ELSE flash[a]]
  /\ op' = Rewriting(flash')
  /\ UNCHANGED <<DataBuf, before>>

RewriteWord ==
  /\ op.at = "rewrite"
  /\ LET i == CHOOSE i \in Unprogrammed(flash) : \A j \in Unprogrammed(flash) : i <= j
     IN  flash' = [flash EXCEPT ![i] = DataBuf[i]]
  /\ op' = Rewriting(flash')
  /\ UNCHANGED <<DataBuf, before>>

\* EEPROM_Erase: page after page.
Erase ==
  /\ op = Idle
  /\ op' = At("erase all", 0, 0) /\ before' = Contents
  /\ UNCHANGED <<flash, DataBuf>>

EraseNextPage ==
  /\ op.at = "erase all"
  /\ flash' = [a \in Addresses |-> IF a \in PageOf(op.address) THEN FEE_EMPTY_WORD ELSE flash[a]]
  /\ op' = IF op.address + PageBytes \in Addresses
           THEN [op EXCEPT !.address = @ + PageBytes] ELSE Idle
  /\ UNCHANGED <<DataBuf, before>>

FlashStep == ProgramByte \/ FLASH_ErasePage \/ RewriteWord \/ EraseNextPage

\* The power fails: the RAM is lost.
PowerFailsInFlash ==
  /\ op' = Idle /\ DataBuf' = NoCopy
  /\ UNCHANGED <<flash, before>>

-----------------------------------------------------------------------------
(* What holds at any moment, so that a power failure may come then.        *)

\* The bytes once the operation under way is done.
Target ==
  CASE op.at = "idle"      -> Contents
    [] op.at = "erase all" -> [a \in Addresses |-> MaxByte]
    [] OTHER               -> [before EXCEPT ![op.address] = op.byte]

\* The word is still empty, and so nothing else is touched.
Programming(a, b) ==
  /\ op = At("program", a, b)
  /\ flash[a] = FEE_EMPTY_WORD /\ Contents = before

\* The page as it was, but for the byte that changes.
ChangedPage(a, b) == [i \in PageOf(a) |-> IF i = a THEN b ELSE before[i]]

ErasingPage(a, b) ==
  /\ op = At("erase page", a, b)
  /\ DataBuf = ChangedPage(a, b) /\ Contents = before

\* A word of the page is empty or has its new byte; the other pages rest.
RewritingPage(a, b) ==
  /\ op = At("rewrite", a, b)
  /\ DataBuf = ChangedPage(a, b) /\ Unprogrammed(flash) # {}
  /\ \A i \in PageOf(a) : flash[i] \in {FEE_EMPTY_WORD, DataBuf[i]}
  /\ \A i \in Addresses \ PageOf(a) : Contents[i] = before[i]

\* The pages before that of a are empty, and the others rest.
ErasingAll(a) ==
  /\ op = At("erase all", a, 0)
  /\ a = (a \div PageBytes) * PageBytes
  /\ \A i \in Addresses : IF i \div PageBytes < a \div PageBytes
                           THEN flash[i] = FEE_EMPTY_WORD ELSE Contents[i] = before[i]

FlashInv ==
  /\ flash \in [Addresses -> Bytes \cup {FEE_EMPTY_WORD}]
  /\ before \in [Addresses -> Bytes]
  /\ \/ op = Idle
     \/ \E a \in Addresses, b \in Bytes :
          Programming(a, b) \/ ErasingPage(a, b) \/ RewritingPage(a, b)
     \/ \E a \in Addresses : ErasingAll(a)
=============================================================================
