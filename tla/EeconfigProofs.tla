--------------------------- MODULE EeconfigProofs ---------------------------
(***************************************************************************)
(* Proofs about Eeconfig, for any pages, layout of the settings and       *)
(* number of power failures, each of them at any moment: no setting is    *)
(* lost but by a failure while its own page is changed, and the flash is  *)
(* a ByteStore.                                                            *)
(***************************************************************************)
EXTENDS Eeconfig, SequenceTheorems, WellFoundedInduction, TLAPS

-----------------------------------------------------------------------------
(* Addresses and pages.                                                    *)

LEMMA PageNumber ==
  ASSUME NEW P \in Nat \ {0}, NEW a \in Nat
  PROVE  /\ a \div P \in Nat
         /\ (a \div P) * P =< a /\ a < (a \div P) * P + P
         /\ (a + P) \div P = (a \div P) + 1
OBVIOUS

\* A multiple of the page size that is at most a page above a later address
\* is in the page before it or in its own.
LEMMA PageOrder ==
  ASSUME NEW P \in Nat \ {0}, NEW m \in Nat, NEW n \in Nat, m < n
  PROVE  m * P + P =< n * P
OBVIOUS

LEMMA Numbers ==
  /\ PageBytes \in Nat \ {0} /\ MaxByte \in Nat
  /\ Addresses \subseteq Nat /\ 0 \in Addresses
  /\ 0 \in Bytes /\ MaxByte \in Bytes /\ FEE_EMPTY_WORD \notin Bytes
<1>1. PageCount * PageBytes \in Nat \ {0}
  BY PagesAssumption
<1> QED
  BY <1>1, PagesAssumption DEF Addresses, Bytes, FEE_EMPTY_WORD

LEMMA OwnPage ==
  ASSUME NEW a \in Addresses
  PROVE  a \in PageOf(a) /\ PageOf(a) \subseteq Addresses
BY DEF PageOf

-----------------------------------------------------------------------------
(* What is read, and the flash between two operations.                     *)

LEMMA ReadType ==
  ASSUME flash \in [Addresses -> Bytes \cup {FEE_EMPTY_WORD}]
  PROVE  Contents \in [Addresses -> Bytes]
BY Numbers DEF Contents, EEPROM_ReadDataByte

LEMMA ReadTypeNext ==
  ASSUME flash' \in [Addresses -> Bytes \cup {FEE_EMPTY_WORD}]
  PROVE  Contents' \in [Addresses -> Bytes]
BY Numbers DEF Contents, EEPROM_ReadDataByte

LEMMA ReadWord ==
  ASSUME NEW a \in Addresses
  PROVE  Contents[a] = IF flash[a] = FEE_EMPTY_WORD THEN MaxByte ELSE flash[a]
BY DEF Contents, EEPROM_ReadDataByte

LEMMA ReadWordNext ==
  ASSUME NEW a \in Addresses
  PROVE  Contents'[a] = IF flash'[a] = FEE_EMPTY_WORD THEN MaxByte ELSE flash'[a]
BY DEF Contents, EEPROM_ReadDataByte

LEMMA IdleTarget == op = Idle => Target = Contents
BY DEF Idle, At, Target

LEMMA IdleTargetNext == op' = Idle => Target' = Contents'
BY DEF Idle, At, Target

\* What an operation under way leaves once it is done.
LEMMA WritingTarget ==
  ASSUME NEW a, NEW b, NEW p \in {"program", "erase page", "rewrite"}, op = At(p, a, b)
  PROVE  /\ op # Idle /\ op.at = p /\ op.address = a /\ op.byte = b
         /\ Target = [before EXCEPT ![a] = b]
BY DEF At, Idle, Target

LEMMA WritingTargetNext ==
  ASSUME NEW a, NEW b, NEW p \in {"program", "erase page", "rewrite"}, op' = At(p, a, b)
  PROVE  /\ op' # Idle /\ op'.at = p /\ op'.address = a
         /\ Target' = [before' EXCEPT ![a] = b]
BY DEF At, Idle, Target

LEMMA ErasingTarget ==
  ASSUME NEW a, op = At("erase all", a, 0)
  PROVE  /\ op # Idle /\ op.at = "erase all" /\ op.address = a
         /\ Target = [i \in Addresses |-> MaxByte]
BY DEF At, Idle, Target

LEMMA ErasingTargetNext ==
  ASSUME NEW a, op' = At("erase all", a, 0)
  PROVE  op' # Idle /\ op'.at = "erase all" /\ Target' = [i \in Addresses |-> MaxByte]
BY DEF At, Idle, Target

-----------------------------------------------------------------------------
(* The operations of the flash.                                            *)

\* EEPROM_WriteDataByte finds the flash at rest, and is to change one byte.
LEMMA WriteKeeps ==
  ASSUME FlashInv, op = Idle, NEW a \in Addresses, NEW b \in Bytes, WriteDataByte(a, b)
  PROVE  /\ FlashInv' /\ before' = Contents /\ Contents' = Contents
         /\ Target' = [Contents EXCEPT ![a] = b]
         /\ \/ op' = Idle
            \/ op' = At("program", a, b) \/ op' = At("erase page", a, b)
<1>1. Contents \in [Addresses -> Bytes]
  BY ReadType DEF FlashInv
<1>2. flash' = flash /\ before' = Contents
  BY DEF WriteDataByte
<1>3. Contents' = Contents
  BY <1>2 DEF Contents, EEPROM_ReadDataByte
<1>4. /\ flash' \in [Addresses -> Bytes \cup {FEE_EMPTY_WORD}]
      /\ before' \in [Addresses -> Bytes]
  BY <1>1, <1>2 DEF FlashInv
<1>5. CASE flash[a] = FEE_EMPTY_WORD /\ op' = At("program", a, b)
  <2>1. Programming(a, b)'
    BY <1>2, <1>3, <1>5 DEF Programming
  <2>2. Target' = [Contents EXCEPT ![a] = b]
    BY <1>2, <1>5, WritingTargetNext
  <2> QED
    BY <1>2, <1>3, <1>4, <1>5, <2>1, <2>2 DEF FlashInv
<1>6. CASE EEPROM_ReadDataByte(a) = b /\ op' = op
  <2>1. Contents[a] = b
    BY <1>6 DEF Contents
  <2>2. Target' = Contents
    BY <1>3, <1>6, IdleTargetNext
  <2>3. [Contents EXCEPT ![a] = b] = Contents
    BY <1>1, <2>1
  <2> QED
    BY <1>2, <1>3, <1>4, <1>6, <2>2, <2>3 DEF FlashInv
<1>7. CASE op' = At("erase page", a, b) /\ DataBuf' = CopyOfPage(a, b)
  <2>1. DataBuf' = ChangedPage(a, b)'
    BY <1>2, <1>7, OwnPage DEF CopyOfPage, ChangedPage, Contents, PageOf
  <2>2. ErasingPage(a, b)'
    BY <1>2, <1>3, <1>7, <2>1 DEF ErasingPage
  <2>3. Target' = [Contents EXCEPT ![a] = b]
    BY <1>2, <1>7, WritingTargetNext
  <2> QED
    BY <1>2, <1>3, <1>4, <1>7, <2>2, <2>3 DEF FlashInv
<1> QED
  BY <1>5, <1>6, <1>7 DEF WriteDataByte

LEMMA EraseKeeps ==
  ASSUME FlashInv, Erase
  PROVE  /\ FlashInv' /\ before' = Contents /\ Contents' = Contents
         /\ Target' = [i \in Addresses |-> MaxByte] /\ op' = At("erase all", 0, 0)
<1>1. Contents \in [Addresses -> Bytes]
  BY ReadType DEF FlashInv
<1>2. flash' = flash /\ before' = Contents /\ op' = At("erase all", 0, 0)
  BY DEF Erase
<1>3. Contents' = Contents
  BY <1>2 DEF Contents, EEPROM_ReadDataByte
<1>4. \A i \in Addresses : ~(i \div PageBytes < 0 \div PageBytes)
  <2>1. 0 \div PageBytes = 0
    BY Numbers
  <2>2. \A i \in Addresses : i \div PageBytes \in Nat
    BY Numbers, PageNumber
  <2> QED
    BY <2>1, <2>2
<1>5. 0 = (0 \div PageBytes) * PageBytes
  BY Numbers
<1>6. ErasingAll(0)'
  BY <1>2, <1>3, <1>4, <1>5 DEF ErasingAll
<1>7. Target' = [i \in Addresses |-> MaxByte]
  BY <1>2, ErasingTargetNext
<1> QED
  BY <1>1, <1>2, <1>3, <1>6, <1>7, Numbers DEF FlashInv

LEMMA PowerFailureKeeps ==
  ASSUME FlashInv, PowerFailsInFlash
  PROVE  FlashInv' /\ op' = Idle /\ Contents' = Contents /\ Target' = Contents
<1>1. op' = Idle /\ flash' = flash /\ before' = before
  BY DEF PowerFailsInFlash
<1>2. Contents' = Contents
  BY <1>1 DEF Contents, EEPROM_ReadDataByte
<1> QED
  BY <1>1, <1>2, IdleTargetNext DEF FlashInv

\* Where the operation is tells what holds of it.
LEMMA UnderWay ==
  ASSUME FlashInv
  PROVE  /\ op.at = "idle" => op = Idle
         /\ op.at = "program" => \E a \in Addresses, b \in Bytes : Programming(a, b)
         /\ op.at = "erase page" => \E a \in Addresses, b \in Bytes : ErasingPage(a, b)
         /\ op.at = "rewrite" => \E a \in Addresses, b \in Bytes : RewritingPage(a, b)
         /\ op.at = "erase all" => \E a \in Addresses : ErasingAll(a)
<1>1. \A p, a, b : op = At(p, a, b) => op.at = p
  BY DEF At
<1>2. op = Idle => op.at = "idle"
  BY DEF Idle, At
<1>3. CASE op = Idle
  BY <1>2, <1>3
<1>4. CASE \E a \in Addresses, b \in Bytes : Programming(a, b)
  BY <1>1, <1>4 DEF Programming
<1>5. CASE \E a \in Addresses, b \in Bytes : ErasingPage(a, b)
  BY <1>1, <1>5 DEF ErasingPage
<1>6. CASE \E a \in Addresses, b \in Bytes : RewritingPage(a, b)
  BY <1>1, <1>6 DEF RewritingPage
<1>7. CASE \E a \in Addresses : ErasingAll(a)
  BY <1>1, <1>7 DEF ErasingAll
<1> QED
  BY <1>3, <1>4, <1>5, <1>6, <1>7 DEF FlashInv

\* A change under way leaves Target as it is, and is done with it.
Goes == /\ FlashInv' /\ before' = before /\ Target' = Target
        /\ op # Idle
        /\ op' # Idle => /\ op'.at = op.at \/ (op.at = "erase page" /\ op'.at = "rewrite")
                         /\ op'.at # "erase all" => op'.address = op.address

LEMMA ProgramKeeps ==
  ASSUME FlashInv, ProgramByte
  PROVE  Goes
<1>1. op.at = "program"
  BY DEF ProgramByte
<1>2. PICK a \in Addresses, b \in Bytes : Programming(a, b)
  BY <1>1, UnderWay
<1>3. op # Idle /\ op.address = a /\ op.byte = b /\ Target = [before EXCEPT ![a] = b]
  BY <1>2, WritingTarget DEF Programming
<1>4. op' = Idle /\ before' = before /\ flash' = [flash EXCEPT ![a] = b]
  BY <1>3 DEF ProgramByte
<1>5. flash' \in [Addresses -> Bytes \cup {FEE_EMPTY_WORD}]
  BY <1>4 DEF FlashInv
<1>6. Contents' = [before EXCEPT ![a] = b]
  <2>1. Contents \in [Addresses -> Bytes] /\ Contents' \in [Addresses -> Bytes]
    BY <1>5, ReadType, ReadTypeNext DEF FlashInv
  <2>2. Contents = before
    BY <1>2 DEF Programming
  <2>3. ASSUME NEW i \in Addresses
        PROVE  Contents'[i] = [before EXCEPT ![a] = b][i]
    BY <1>4, <2>1, <2>2, ReadWord, ReadWordNext, Numbers DEF FlashInv
  <2> QED
    BY <2>1, <2>2, <2>3
<1> QED
  BY <1>3, <1>4, <1>5, <1>6, IdleTargetNext DEF FlashInv, Goes

\* The page that is written again: when all its words are, it is the changed
\* page, and the others were not touched.
LEMMA Rewritten ==
  ASSUME flash' \in [Addresses -> Bytes \cup {FEE_EMPTY_WORD}], before \in [Addresses -> Bytes],
         NEW a \in Addresses, NEW b \in Bytes, NEW p \in {"erase page", "rewrite"},
         op = At(p, a, b), op' = Rewriting(flash'),
         before' = before, DataBuf' = DataBuf, DataBuf = ChangedPage(a, b),
         \A i \in PageOf(a) : flash'[i] \in {FEE_EMPTY_WORD, DataBuf[i]},
         \A i \in Addresses \ PageOf(a) : Contents'[i] = before[i]
  PROVE  Goes
<1>1. op # Idle /\ op.at = p /\ op.address = a /\ Target = [before EXCEPT ![a] = b]
  BY WritingTarget
<1>2. \A i \in PageOf(a) : DataBuf[i] = [before EXCEPT ![a] = b][i] /\ DataBuf[i] \in Bytes
  BY OwnPage DEF ChangedPage
<1>3. DOMAIN DataBuf = PageOf(a)
  BY DEF ChangedPage
<1>4. CASE Unprogrammed(flash') = {}
  <2>1. op' = Idle
    BY <1>4 DEF Rewriting
  <2>2. ASSUME NEW i \in Addresses
        PROVE  Contents'[i] = [before EXCEPT ![a] = b][i]
    <3>1. CASE i \in PageOf(a)
      <4>1. DataBuf[i] = MaxByte \/ flash'[i] = DataBuf[i]
        BY <1>3, <1>4, <3>1 DEF Unprogrammed
      <4>2. Contents'[i] = DataBuf[i]
        BY <1>2, <3>1, <4>1, OwnPage, ReadWordNext, Numbers
      <4> QED
        BY <1>2, <3>1, <4>2
    <3>2. CASE i \notin PageOf(a)
      BY <3>2, OwnPage
    <3> QED
      BY <3>1, <3>2
  <2>3. Contents' \in [Addresses -> Bytes]
    BY ReadTypeNext
  <2>4. Contents' = [before EXCEPT ![a] = b]
    BY <2>2, <2>3
  <2> QED
    BY <1>1, <2>1, <2>4, IdleTargetNext DEF FlashInv, Goes
<1>5. CASE Unprogrammed(flash') # {}
  <2>1. op' = At("rewrite", a, b)
    BY <1>5 DEF Rewriting, At
  <2>2. Unprogrammed(flash)' = Unprogrammed(flash')
    BY DEF Unprogrammed
  <2>3. ChangedPage(a, b)' = ChangedPage(a, b)
    BY DEF ChangedPage, PageOf
  <2>4. RewritingPage(a, b)'
    BY <1>5, <2>1, <2>2, <2>3 DEF RewritingPage, PageOf
  <2>5. /\ Target' = [before EXCEPT ![a] = b]
        /\ op' # Idle /\ op'.at = "rewrite" /\ op'.address = a
    BY <2>1, WritingTargetNext
  <2> QED
    BY <1>1, <2>4, <2>5 DEF FlashInv, Goes
<1> QED
  BY <1>4, <1>5

LEMMA ErasePageKeeps ==
  ASSUME FlashInv, FLASH_ErasePage
  PROVE  Goes
<1>1. op.at = "erase page"
  BY DEF FLASH_ErasePage
<1>2. PICK a \in Addresses, b \in Bytes : ErasingPage(a, b)
  BY <1>1, UnderWay
<1>3. op = At("erase page", a, b) /\ op.address = a
  BY <1>2 DEF ErasingPage, At
<1>4. /\ flash' = [i \in Addresses |-> IF i \in PageOf(a) THEN FEE_EMPTY_WORD ELSE flash[i]]
      /\ op' = Rewriting(flash') /\ DataBuf' = DataBuf /\ before' = before
  BY <1>3 DEF FLASH_ErasePage
<1>5. flash' \in [Addresses -> Bytes \cup {FEE_EMPTY_WORD}]
  BY <1>4 DEF FlashInv
<1>6. \A i \in PageOf(a) : flash'[i] \in {FEE_EMPTY_WORD, DataBuf[i]}
  BY <1>4, OwnPage
<1>7. \A i \in Addresses \ PageOf(a) : Contents'[i] = before[i]
  <2> SUFFICES ASSUME NEW i \in Addresses \ PageOf(a)
               PROVE  Contents'[i] = before[i]
      OBVIOUS
  <2>1. flash'[i] = flash[i]
    BY <1>4
  <2>2. Contents[i] = before[i]
    BY <1>2 DEF ErasingPage
  <2> QED
    BY <2>1, <2>2, ReadWord, ReadWordNext
<1>8. DataBuf = ChangedPage(a, b) /\ before \in [Addresses -> Bytes]
  BY <1>2 DEF ErasingPage, FlashInv
<1> QED
  BY <1>3, <1>4, <1>5, <1>6, <1>7, <1>8, Rewritten

\* RewriteWord programs a word of those that are left, the first.
LEMMA FirstUnprogrammed ==
  ASSUME NEW S \in SUBSET Nat, S # {}
  PROVE  (CHOOSE i \in S : \A j \in S : i =< j) \in S
<1>1. PICK k \in S : \A u \in S : ~(<<u, k>> \in OpToRel(<, Nat))
  BY NatLessThanWellFounded, WFMin, Zenon
<1>2. \A u \in S : k =< u
  <2> SUFFICES ASSUME NEW u \in S
               PROVE  k =< u
      OBVIOUS
  <2>1. ~(u < k)
    BY <1>1 DEF OpToRel
  <2> QED
    BY <2>1
<1> QED
  BY <1>2

LEMMA RewriteKeeps ==
  ASSUME FlashInv, RewriteWord
  PROVE  Goes
<1>1. op.at = "rewrite"
  BY DEF RewriteWord
<1>2. PICK a \in Addresses, b \in Bytes : RewritingPage(a, b)
  BY <1>1, UnderWay
<1>3. op = At("rewrite", a, b) /\ DataBuf = ChangedPage(a, b) /\ before \in [Addresses -> Bytes]
  BY <1>2 DEF RewritingPage, FlashInv
<1>4. Unprogrammed(flash) \subseteq PageOf(a) /\ Unprogrammed(flash) \in SUBSET Nat
  BY <1>3, OwnPage, Numbers DEF ChangedPage, Unprogrammed
<1>5. PICK i \in Unprogrammed(flash) : flash' = [flash EXCEPT ![i] = DataBuf[i]]
  <2>1. (CHOOSE i \in Unprogrammed(flash) : \A j \in Unprogrammed(flash) : i =< j)
           \in Unprogrammed(flash)
    BY <1>2, <1>4, FirstUnprogrammed DEF RewritingPage
  <2> QED
    BY <2>1 DEF RewriteWord
<1>6. op' = Rewriting(flash') /\ DataBuf' = DataBuf /\ before' = before
  BY DEF RewriteWord
<1>7. i \in PageOf(a) /\ i \in Addresses /\ DataBuf[i] \in Bytes
  BY <1>3, <1>4, OwnPage DEF ChangedPage
<1>8. flash' \in [Addresses -> Bytes \cup {FEE_EMPTY_WORD}]
  BY <1>5, <1>7 DEF FlashInv
<1>9. \A j \in PageOf(a) : flash'[j] \in {FEE_EMPTY_WORD, DataBuf[j]}
  <2> SUFFICES ASSUME NEW j \in PageOf(a)
               PROVE  flash'[j] \in {FEE_EMPTY_WORD, DataBuf[j]}
      OBVIOUS
  <2>1. flash[j] \in {FEE_EMPTY_WORD, DataBuf[j]} /\ j \in Addresses
    BY <1>2, OwnPage DEF RewritingPage
  <2> QED
    BY <1>5, <2>1 DEF FlashInv
<1>10. \A j \in Addresses \ PageOf(a) : Contents'[j] = before[j]
  <2> SUFFICES ASSUME NEW j \in Addresses \ PageOf(a)
               PROVE  Contents'[j] = before[j]
      OBVIOUS
  <2>1. flash'[j] = flash[j]
    BY <1>5, <1>7 DEF FlashInv
  <2>2. Contents[j] = before[j]
    BY <1>2 DEF RewritingPage
  <2> QED
    BY <2>1, <2>2, ReadWord, ReadWordNext
<1> QED
  BY <1>3, <1>6, <1>8, <1>9, <1>10, Rewritten

LEMMA EraseNextKeeps ==
  ASSUME FlashInv, EraseNextPage
  PROVE  Goes
<1> DEFINE P == PageBytes
<1>1. op.at = "erase all"
  BY DEF EraseNextPage
<1>2. PICK a \in Addresses : ErasingAll(a)
  BY <1>1, UnderWay
<1>3. op = At("erase all", a, 0) /\ a = (a \div P) * P
  BY <1>2 DEF ErasingAll
<1>4. op # Idle /\ op.address = a /\ Target = [i \in Addresses |-> MaxByte]
  BY <1>3, ErasingTarget
<1>5. /\ flash' = [i \in Addresses |-> IF i \in PageOf(a) THEN FEE_EMPTY_WORD ELSE flash[i]]
      /\ before' = before
      /\ op' = IF a + P \in Addresses THEN [op EXCEPT !.address = a + P] ELSE Idle
  BY <1>4 DEF EraseNextPage
<1>6. /\ flash' \in [Addresses -> Bytes \cup {FEE_EMPTY_WORD}]
      /\ before' \in [Addresses -> Bytes]
  BY <1>5 DEF FlashInv
<1>7. /\ a \in Nat /\ P \in Nat \ {0} /\ (a + P) \div P = (a \div P) + 1
      /\ a \div P \in Nat
  BY Numbers, PageNumber
\* The pages up to that of a are empty now.
<1>8. \A i \in Addresses : IF i \div P < (a \div P) + 1
                           THEN flash'[i] = FEE_EMPTY_WORD ELSE Contents'[i] = before[i]
  <2> SUFFICES ASSUME NEW i \in Addresses
               PROVE  IF i \div P < (a \div P) + 1
                      THEN flash'[i] = FEE_EMPTY_WORD ELSE Contents'[i] = before[i]
      OBVIOUS
  <2>1. i \div P \in Nat
    BY Numbers, PageNumber
  <2>2. i \in PageOf(a) <=> i \div P = a \div P
    BY DEF PageOf
  <2>3. IF i \div P < a \div P THEN flash[i] = FEE_EMPTY_WORD ELSE Contents[i] = before[i]
    BY <1>2 DEF ErasingAll
  <2>4. CASE i \div P = a \div P
    BY <1>5, <1>7, <2>2, <2>4
  <2>5. CASE i \div P < a \div P
    <3>1. i \div P < (a \div P) + 1 /\ i \notin PageOf(a)
      BY <1>7, <2>1, <2>2, <2>5
    <3> QED
      BY <1>5, <2>3, <2>5, <3>1
  <2>6. CASE i \div P > a \div P
    <3>1. ~(i \div P < (a \div P) + 1) /\ i \notin PageOf(a) /\ ~(i \div P < a \div P)
      BY <1>7, <2>1, <2>2, <2>6
    <3>2. flash'[i] = flash[i] /\ Contents[i] = before[i]
      BY <1>5, <2>3, <3>1
    <3> QED
      BY <3>1, <3>2, ReadWord, ReadWordNext
  <2> QED
    BY <1>7, <2>1, <2>4, <2>5, <2>6
<1>9. CASE a + P \in Addresses
  <2>1. op' = At("erase all", a + P, 0)
    BY <1>3, <1>5, <1>9 DEF At
  <2>2. a + P = ((a + P) \div P) * P
    <3>1. ((a \div P) + 1) * P = (a \div P) * P + P
      BY <1>7
    <3> QED
      BY <1>3, <1>7, <3>1
  <2>3. ErasingAll(a + P)'
    BY <1>5, <1>7, <1>8, <2>1, <2>2 DEF ErasingAll
  <2>4. Target' = Target
    BY <1>4, <2>1, ErasingTargetNext
  <2>5. op' # Idle /\ op'.at = "erase all"
    BY <2>1, ErasingTargetNext
  <2>6. FlashInv'
    BY <1>6, <1>9, <2>3 DEF FlashInv
  <2>7. before' = before
    BY <1>5
  <2> QED
    BY <1>1, <1>4, <2>4, <2>5, <2>6, <2>7 DEF Goes
<1>10. CASE a + P \notin Addresses
  <2>1. op' = Idle
    BY <1>5, <1>10
  <2>2. ASSUME NEW i \in Addresses
        PROVE  i \div P < (a \div P) + 1
    <3> DEFINE m == (i \div P) * P
    <3>1. i \in Nat /\ i < a + P /\ i \div P \in Nat /\ m =< i /\ m \in Nat
      <4>1. PageCount * P \in Nat /\ a + P \in Nat
        BY <1>7, PagesAssumption
      <4>2. i \in Nat /\ i < PageCount * P /\ ~(a + P < PageCount * P)
        BY <1>10, <4>1, Numbers DEF Addresses
      <4>3. i \div P \in Nat /\ m =< i
        BY <4>2, Numbers, PageNumber
      <4> QED
        BY <1>7, <4>1, <4>2, <4>3
    <3>2. ~(a \div P < i \div P)
      <4> SUFFICES ASSUME a \div P < i \div P
                   PROVE  FALSE
          OBVIOUS
      <4>1. (a \div P) * P + P =< m
        BY <1>7, <3>1, PageOrder
      <4>2. a + P =< m
        BY <1>3, <4>1
      <4> HIDE DEF m
      <4> QED
        BY <1>7, <3>1, <4>2
    <3> QED
      BY <1>7, <3>1, <3>2
  <2>3. Contents' = [i \in Addresses |-> MaxByte]
    <3>1. \A i \in Addresses : Contents'[i] = MaxByte
      BY <1>8, <2>2, ReadWordNext
    <3> QED
      BY <1>6, <3>1, ReadTypeNext
  <2> QED
    BY <1>4, <1>5, <1>6, <2>1, <2>3, IdleTargetNext DEF FlashInv, Goes
<1> QED
  BY <1>9, <1>10

\* Every operation of the flash is a step towards Target.
LEMMA FlashStepKeeps ==
  ASSUME FlashInv, FlashStep
  PROVE  Goes
BY ProgramKeeps, ErasePageKeeps, RewriteKeeps, EraseNextKeeps DEF FlashStep

-----------------------------------------------------------------------------
(* The settings.                                                           *)

Writes == {ERASE} \cup (Addresses \X Bytes)

LEMMA LayoutType ==
  /\ Range(Layout) \subseteq Addresses /\ Settings \subseteq Addresses
  /\ \A s \in Range(Layout) : Initial[s] \in Bytes
  /\ DOMAIN Initial = Range(Layout)
<1>1. Layout \in Seq(Addresses) /\ Layout # << >>
  BY EeconfigAssumption
<1>2. Tail(Layout) \in Seq(Addresses)
  BY <1>1
<1>3. \A q \in Seq(Addresses) : Range(q) \subseteq Addresses
  BY DEF Range
<1> QED
  BY <1>1, <1>2, <1>3, Numbers, EeconfigAssumption DEF Settings, Initial

\* eeconfig_init erases the flash, and then writes every byte of the layout.
LEMMA InitWrites ==
  /\ eeconfig_init \in Seq(Writes) /\ eeconfig_init # << >> /\ eeconfig_init[1] = ERASE
  /\ \A i \in DOMAIN eeconfig_init :
       \/ i = 1
       \/ \E s \in Range(Layout) : eeconfig_init[i] = <<s, Initial[s]>>
  /\ \A s \in Range(Layout) :
       \E i \in DOMAIN eeconfig_init : eeconfig_init[i] = <<s, Initial[s]>>
<1> DEFINE w(i) == <<Layout[i], Initial[Layout[i]]>>
           rest == [i \in DOMAIN Layout |-> w(i)]
<1>1. Layout \in Seq(Addresses) /\ Len(Layout) \in Nat /\ DOMAIN Layout = 1 .. Len(Layout)
  BY EeconfigAssumption
<1>2. \A i \in DOMAIN Layout : Layout[i] \in Range(Layout) /\ w(i) \in Addresses \X Bytes
  BY LayoutType DEF Range
<1>3. rest \in Seq(Writes) /\ Len(rest) = Len(Layout)
  BY <1>1, <1>2 DEF Writes
<1>4. <<ERASE>> \in Seq(Writes) /\ Len(<<ERASE>>) = 1 /\ <<ERASE>>[1] = ERASE
  BY DEF Writes
<1>5. eeconfig_init = <<ERASE>> \o rest
  BY DEF eeconfig_init
<1>6. \A i \in DOMAIN Layout : rest[i] = w(i)
  OBVIOUS
<1> HIDE DEF w, rest
<1>7. /\ eeconfig_init \in Seq(Writes) /\ Len(eeconfig_init) = Len(Layout) + 1
      /\ eeconfig_init[1] = ERASE
      /\ \A i \in 1 .. Len(Layout) : eeconfig_init[i + 1] = rest[i]
  BY <1>1, <1>3, <1>4, <1>5, ConcatProperties
<1>8. DOMAIN eeconfig_init = 1 .. Len(Layout) + 1 /\ eeconfig_init # << >>
  BY <1>1, <1>7
<1>9. ASSUME NEW i \in DOMAIN eeconfig_init, i # 1
      PROVE  \E s \in Range(Layout) : eeconfig_init[i] = <<s, Initial[s]>>
  <2>1. i - 1 \in 1 .. Len(Layout) /\ (i - 1) + 1 = i
    BY <1>1, <1>8, <1>9
  <2>2. eeconfig_init[i] = rest[i - 1]
    BY <1>7, <2>1
  <2> QED
    BY <1>1, <1>2, <1>6, <2>1, <2>2 DEF w
<1>10. ASSUME NEW s \in Range(Layout)
       PROVE  \E i \in DOMAIN eeconfig_init : eeconfig_init[i] = <<s, Initial[s]>>
  <2>1. PICK i \in 1 .. Len(Layout) : Layout[i] = s
    BY <1>1 DEF Range
  <2>2. i + 1 \in DOMAIN eeconfig_init /\ eeconfig_init[i + 1] = w(i)
    BY <1>1, <1>6, <1>7, <1>8, <2>1
  <2> QED
    BY <2>1, <2>2 DEF w
<1> QED
  BY <1>7, <1>8, <1>9, <1>10

LEMMA EraseIsNoWrite == \A s, b : <<s, b>> # ERASE
BY DEF ERASE

LEMMA SettingsInit == Init => IInv
<1> SUFFICES ASSUME Init
             PROVE  IInv
    OBVIOUS
<1>1. FlashInv
  BY Numbers DEF Init, FlashInit, FlashInv
<1>2. WantedInv
  BY DEF Init, WantedInv
<1>3. TodoInv /\ todo \in Seq(Writes)
  BY DEF Init, TodoInv
<1> QED
  BY <1>1, <1>2, <1>3 DEF Init, FlashInit, IInv, Writes

\* What is left of the writes once the first is begun.
LEMMA RestOfWrites ==
  ASSUME todo \in Seq(Writes), todo # << >>, todo' = Tail(todo)
  PROVE  /\ todo' \in Seq(Writes) /\ Head(todo) = todo[1]
         /\ 1 \in DOMAIN todo
         /\ \A i \in DOMAIN todo' : i + 1 \in DOMAIN todo /\ i + 1 # 1 /\ todo'[i] = todo[i + 1]
         /\ \A i \in DOMAIN todo : i # 1 => i - 1 \in DOMAIN todo' /\ todo'[i - 1] = todo[i]
<1>1. Len(todo) \in Nat \ {0} /\ DOMAIN todo = 1 .. Len(todo)
  BY EmptySeq
<1>2. todo' \in Seq(Writes) /\ Len(todo') = Len(todo) - 1 /\ Head(todo) = todo[1]
  BY HeadTailProperties
<1>3. DOMAIN todo' = 1 .. Len(todo) - 1
  BY <1>1, <1>2
<1>4. \A i \in 1 .. Len(todo) - 1 : todo'[i] = todo[i + 1]
  BY <1>1, HeadTailProperties
<1>5. ASSUME NEW i \in DOMAIN todo, i # 1
      PROVE  i - 1 \in DOMAIN todo' /\ todo'[i - 1] = todo[i]
  <2>1. i - 1 \in 1 .. Len(todo) - 1 /\ (i - 1) + 1 = i
    BY <1>1, <1>5
  <2> QED
    BY <1>3, <1>4, <2>1
<1> QED
  BY <1>1, <1>2, <1>3, <1>4, <1>5

LEMMA FlashRests ==
  ASSUME FlashInv, UNCHANGED flashVars
  PROVE  FlashInv' /\ Target' = Target
<1>1. flash' = flash /\ op' = op /\ DataBuf' = DataBuf /\ before' = before
  BY DEF flashVars
<1>2. Contents' = Contents
  BY <1>1 DEF Contents, EEPROM_ReadDataByte
<1>3. Target' = Target
  BY <1>1, <1>2 DEF Target
<1>4. ASSUME NEW a, NEW b
      PROVE  /\ Programming(a, b)' <=> Programming(a, b)
             /\ ErasingPage(a, b)' <=> ErasingPage(a, b)
             /\ RewritingPage(a, b)' <=> RewritingPage(a, b)
             /\ ErasingAll(a)' <=> ErasingAll(a)
  <2>1. Programming(a, b)' <=> Programming(a, b)
    BY <1>1, <1>2 DEF Programming
  <2>2. ChangedPage(a, b)' = ChangedPage(a, b)
    BY <1>1 DEF ChangedPage
  <2>3. ErasingPage(a, b)' <=> ErasingPage(a, b)
    BY <1>1, <1>2, <2>2 DEF ErasingPage
  <2>4. Unprogrammed(flash)' = Unprogrammed(flash)
    BY <1>1 DEF Unprogrammed
  <2>5. RewritingPage(a, b)' <=> RewritingPage(a, b)
    BY <1>1, <1>2, <2>2, <2>4 DEF RewritingPage
  <2>6. ErasingAll(a)' <=> ErasingAll(a)
    BY <1>1, <1>2 DEF ErasingAll
  <2> QED
    BY <2>1, <2>3, <2>5, <2>6
<1> QED
  BY <1>1, <1>3, <1>4 DEF FlashInv

LEMMA PowerOnKeeps ==
  ASSUME IInv, PowerOn
  PROVE  IInv' /\ Target' = Target
<1> USE DEF IInv
<1>1. UNCHANGED flashVars /\ on' = TRUE /\ op = Idle
  BY DEF PowerOn
<1>2. FlashInv' /\ Target' = Target
  BY <1>1, FlashRests
<1>3. CASE todo' = << >> /\ wanted' = wanted
  <2>1. todo = << >>
    BY DEF PowerOn
  <2>2. WantedInv' /\ TodoInv' /\ todo' \in Seq(Writes)
    BY <1>2, <1>3, <2>1 DEF WantedInv, WritesLeft, TodoInv
  <2> QED
    BY <1>1, <1>2, <2>2 DEF Writes
<1>4. CASE todo' = eeconfig_init /\ wanted' = Initial
  <2>1. \A s \in Range(Layout) : WritesLeft(s)'
    BY <1>4, InitWrites DEF WritesLeft
  <2>2. WantedInv' /\ TodoInv'
    BY <1>1, <1>4, <2>1, InitWrites, LayoutType DEF WantedInv, TodoInv
  <2> QED
    BY <1>1, <1>2, <1>4, <2>2, InitWrites DEF Writes
<1> QED
  BY <1>3, <1>4 DEF PowerOn

LEMMA ResetKeeps ==
  ASSUME IInv, ResetSettings
  PROVE  IInv' /\ Target' = Target
<1> USE DEF IInv
<1>1. UNCHANGED flashVars /\ on /\ on' = on
  BY DEF ResetSettings
<1>2. FlashInv' /\ Target' = Target
  BY <1>1, FlashRests
<1>3. todo' = eeconfig_init /\ wanted' = Initial
  BY DEF ResetSettings
<1>4. \A s \in Range(Layout) : WritesLeft(s)'
  BY <1>3, InitWrites DEF WritesLeft
<1>5. WantedInv' /\ TodoInv'
  BY <1>1, <1>3, <1>4, InitWrites, LayoutType DEF WantedInv, TodoInv
<1> QED
  BY <1>1, <1>2, <1>3, <1>5, InitWrites DEF Writes

\* The first of the writes that are left: either the flash is erased, and all
\* the others are still to come, or one byte gets its initial value.
LEMMA InitStepKeeps ==
  ASSUME IInv, InitStep
  PROVE  /\ IInv' /\ op = Idle
         /\ \/ Erase
            \/ \E a \in Addresses, b \in Bytes : WriteDataByte(a, b)
<1>1. todo \in Seq(Writes) /\ todo # << >> /\ todo' = Tail(todo) /\ on' = on /\ wanted' = wanted
  BY DEF InitStep, IInv, Writes
<1>2. /\ on /\ wanted = Initial /\ FlashInv
      /\ \A i \in DOMAIN todo : \/ i = 1 /\ todo[i] = ERASE
                                \/ \E s \in Range(Layout) : todo[i] = <<s, Initial[s]>>
      /\ todo[1] = ERASE => \A s \in Range(Layout) : WritesLeft(s)
  BY <1>1 DEF IInv, TodoInv
<1>3. /\ \A i \in DOMAIN todo' : i + 1 \in DOMAIN todo /\ i + 1 # 1 /\ todo'[i] = todo[i + 1]
      /\ \A i \in DOMAIN todo : i # 1 => i - 1 \in DOMAIN todo' /\ todo'[i - 1] = todo[i]
      /\ Head(todo) = todo[1] /\ 1 \in DOMAIN todo /\ todo' \in Seq(Writes)
  BY <1>1, RestOfWrites
<1>4. \A i \in DOMAIN todo' : \E s \in Range(Layout) : todo'[i] = <<s, Initial[s]>>
  BY <1>2, <1>3
<1>5. TodoInv'
  <2>1. \A i \in DOMAIN todo' : todo'[i] # ERASE
    BY <1>4, EraseIsNoWrite
  <2>2. todo' # << >> => 1 \in DOMAIN todo'
    BY <1>3, EmptySeq
  <2> QED
    BY <1>1, <1>2, <1>4, <2>1, <2>2 DEF TodoInv
<1>6. ASSUME NEW s \in Range(Layout), WritesLeft(s), todo[1] # <<s, Initial[s]>>
      PROVE  WritesLeft(s)'
  <2>1. PICK i \in DOMAIN todo : todo[i] = <<s, wanted[s]>>
    BY <1>6 DEF WritesLeft
  <2>2. i # 1
    BY <1>2, <1>6, <2>1
  <2>3. wanted' = wanted
    BY <1>1
  <2>4. i - 1 \in DOMAIN todo' /\ todo'[i - 1] = <<s, wanted'[s]>>
    BY <1>3, <2>1, <2>2, <2>3
  <2> QED
    BY <2>4 DEF WritesLeft
<1>7. CASE Head(todo) = ERASE
  <2>1. Erase
    BY <1>7 DEF InitStep
  <2>2. FlashInv' /\ op = Idle
    BY <1>2, <2>1, EraseKeeps DEF Erase
  <2>3. \A s \in Range(Layout) : WritesLeft(s)'
    <3> SUFFICES ASSUME NEW s \in Range(Layout)
                 PROVE  WritesLeft(s)'
        OBVIOUS
    <3>1. todo[1] = ERASE
      BY <1>3, <1>7
    <3>2. WritesLeft(s)
      BY <1>2, <3>1
    <3>3. todo[1] # <<s, Initial[s]>>
      BY <3>1, EraseIsNoWrite
    <3> QED
      BY <1>6, <3>2, <3>3 DEF WritesLeft
  <2>4. WantedInv'
    BY <1>1, <1>2, <2>3, LayoutType DEF WantedInv
  <2> QED
    BY <1>1, <1>2, <1>3, <1>5, <2>1, <2>2, <2>4 DEF IInv, Writes
<1>8. CASE Head(todo) # ERASE
  <2>1. PICK t \in Range(Layout) : todo[1] = <<t, Initial[t]>>
    BY <1>2, <1>3, <1>8
  <2>2. t \in Addresses /\ Initial[t] \in Bytes
    BY LayoutType
  <2>3. WriteDataByte(t, Initial[t])
    BY <1>3, <1>8, <2>1 DEF InitStep
  <2>4. op = Idle
    BY <2>3 DEF WriteDataByte
  <2>5. FlashInv' /\ Target' = [Contents EXCEPT ![t] = Initial[t]]
    BY <1>2, <2>2, <2>3, <2>4, WriteKeeps
  <2>6. Target = Contents /\ Contents \in [Addresses -> Bytes]
    BY <1>2, <2>4, IdleTarget, ReadType DEF FlashInv
  <2>7. ASSUME NEW s \in Range(Layout)
        PROVE  WritesLeft(s)' \/ Target'[s] = Initial[s]
    <3>1. WritesLeft(s) \/ Target[s] = Initial[s]
      BY <1>2, LayoutType DEF IInv, WantedInv
    <3>2. CASE s = t
      BY <2>2, <2>5, <2>6, <3>2
    <3>3. CASE s # t /\ WritesLeft(s)
      BY <1>6, <2>1, <3>3
    <3>4. CASE s # t /\ Target[s] = Initial[s]
      BY <2>5, <2>6, <3>4, LayoutType
    <3> QED
      BY <3>1, <3>2, <3>3, <3>4
  <2>8. WantedInv'
    BY <1>1, <1>2, <2>7, LayoutType DEF WantedInv
  <2> QED
    BY <1>1, <1>2, <1>3, <1>5, <2>2, <2>3, <2>4, <2>5, <2>8 DEF IInv, Writes
<1> QED
  BY <1>7, <1>8

LEMMA UpdateKeeps ==
  ASSUME IInv, NEW s \in Settings, NEW b \in Bytes, Update(s, b)
  PROVE  IInv' /\ op = Idle /\ s \in Addresses /\ WriteDataByte(s, b)
<1>1. /\ s \in Addresses /\ WriteDataByte(s, b) /\ op = Idle
      /\ on /\ on' = on /\ todo = << >> /\ todo' = todo
      /\ wanted' = [t \in DOMAIN wanted \cup {s} |-> IF t = s THEN b ELSE wanted[t]]
  BY LayoutType DEF Update, WriteDataByte
<1>2. FlashInv' /\ Target' = [Contents EXCEPT ![s] = b]
  BY <1>1, WriteKeeps DEF IInv
<1>3. Target = Contents /\ Contents \in [Addresses -> Bytes]
  BY <1>1, IdleTarget, ReadType DEF IInv, FlashInv
<1>4. WantedInv'
  <2>1. DOMAIN wanted \subseteq Addresses
    BY DEF IInv, WantedInv
  <2>2. \A t \in DOMAIN wanted : Target[t] = wanted[t]
    BY <1>1 DEF IInv, WantedInv, WritesLeft
  <2>3. \A t \in DOMAIN wanted' : Target'[t] = wanted'[t]
    BY <1>1, <1>2, <1>3, <2>1, <2>2
  <2> QED
    BY <1>1, <2>1, <2>3 DEF WantedInv
<1>5. TodoInv'
  BY <1>1 DEF TodoInv
<1> QED
  BY <1>1, <1>2, <1>4, <1>5 DEF IInv

LEMMA InFlashKeeps ==
  ASSUME IInv, InFlash
  PROVE  IInv' /\ Goes
<1>1. Goes /\ UNCHANGED <<on, todo, failures, wanted>>
  BY FlashStepKeeps DEF InFlash, IInv
<1>2. WantedInv' /\ TodoInv'
  BY <1>1 DEF Goes, IInv, WantedInv, WritesLeft, TodoInv
<1> QED
  BY <1>1, <1>2 DEF IInv, Goes

\* A power failure at any moment: what is not at risk has already the value
\* it will have.
LEMMA NotAtRisk ==
  ASSUME FlashInv, NEW s \in Addresses \ AtRisk
  PROVE  Contents[s] = Target[s]
<1>1. CASE op = Idle
  BY <1>1, IdleTarget
<1>2. CASE \E a \in Addresses, b \in Bytes : Programming(a, b)
  <2>1. PICK a \in Addresses, b \in Bytes : Programming(a, b)
    BY <1>2
  <2>2. op.at = "program" /\ op.address = a /\ Target = [before EXCEPT ![a] = b]
    BY <2>1, WritingTarget DEF Programming
  <2>3. s # a
    BY <2>2 DEF AtRisk
  <2> QED
    BY <2>1, <2>2, <2>3 DEF Programming, FlashInv
<1>3. CASE \E a \in Addresses, b \in Bytes : ErasingPage(a, b)
  <2>1. PICK a \in Addresses, b \in Bytes : ErasingPage(a, b)
    BY <1>3
  <2>2. op.at = "erase page" /\ op.address = a /\ Target = [before EXCEPT ![a] = b]
    BY <2>1, WritingTarget DEF ErasingPage
  <2>3. s # a
    BY <2>2, OwnPage DEF AtRisk
  <2> QED
    BY <2>1, <2>2, <2>3 DEF ErasingPage, FlashInv
<1>4. CASE \E a \in Addresses, b \in Bytes : RewritingPage(a, b)
  <2>1. PICK a \in Addresses, b \in Bytes : RewritingPage(a, b)
    BY <1>4
  <2>2. op.at = "rewrite" /\ op.address = a /\ Target = [before EXCEPT ![a] = b]
    BY <2>1, WritingTarget DEF RewritingPage
  <2>3. s \notin PageOf(a) /\ s # a
    BY <2>2, OwnPage DEF AtRisk
  <2> QED
    BY <2>1, <2>2, <2>3 DEF RewritingPage, FlashInv
<1>5. CASE \E a \in Addresses : ErasingAll(a)
  <2>1. op.at = "erase all"
    BY <1>5, ErasingTarget DEF ErasingAll
  <2> QED
    BY <2>1 DEF AtRisk
<1> QED
  BY <1>1, <1>2, <1>3, <1>4, <1>5 DEF FlashInv

LEMMA PowerFailsKeeps ==
  ASSUME IInv, PowerFails
  PROVE  IInv' /\ PowerFailsInFlash
<1>1. /\ PowerFailsInFlash /\ todo' = << >> /\ on' = FALSE
      /\ wanted' = [s \in DOMAIN wanted \ AtRisk |-> wanted[s]]
  BY DEF PowerFails
<1>2. FlashInv' /\ op' = Idle /\ Target' = Contents
  BY <1>1, PowerFailureKeeps DEF IInv
<1>3. DOMAIN wanted \subseteq Addresses /\ DOMAIN wanted' = DOMAIN wanted \ AtRisk
  BY <1>1 DEF IInv, WantedInv
<1>4. ASSUME NEW s \in DOMAIN wanted'
      PROVE  Target'[s] = wanted'[s]
  <2>1. s \in DOMAIN wanted /\ s \in Addresses \ AtRisk /\ wanted'[s] = wanted[s]
    BY <1>1, <1>3
  <2>2. ~WritesLeft(s)
    <3>1. s \notin Unwritten
      BY <2>1 DEF AtRisk
    <3>2. <<s, wanted[s]>> # ERASE /\ <<s, wanted[s]>>[1] = s
      BY EraseIsNoWrite
    <3> QED
      BY <2>1, <3>1, <3>2 DEF Unwritten, WritesLeft
  <2>3. Target[s] = wanted[s]
    BY <2>1, <2>2 DEF IInv, WantedInv
  <2>4. Contents[s] = Target[s]
    BY <2>1, NotAtRisk DEF IInv
  <2> QED
    BY <1>2, <2>1, <2>3, <2>4
<1>5. WantedInv' /\ TodoInv' /\ todo' \in Seq(Writes)
  BY <1>1, <1>3, <1>4 DEF WantedInv, TodoInv
<1> QED
  BY <1>1, <1>2, <1>5 DEF IInv, Writes

LEMMA UnchangedKeeps ==
  ASSUME IInv, UNCHANGED vars
  PROVE  IInv' /\ Target' = Target
<1>1. UNCHANGED <<flashVars, on, todo, wanted>>
  BY DEF vars
<1>2. FlashInv' /\ Target' = Target /\ op' = op
  BY <1>1, FlashRests DEF IInv, flashVars
<1>3. WantedInv' /\ TodoInv'
  BY <1>1, <1>2 DEF IInv, WantedInv, WritesLeft, TodoInv
<1> QED
  BY <1>1, <1>2, <1>3 DEF IInv

LEMMA NextKeeps == IInv /\ [Next]_vars => IInv'
BY PowerOnKeeps, ResetKeeps, InitStepKeeps, InFlashKeeps, PowerFailsKeeps, UpdateKeeps,
   UnchangedKeeps DEF Next

\* Whenever the power fails, what the flash holds and what eeconfig_init has
\* left to write make up the settings as they were set.
THEOREM Invariance == Spec => []IInv
BY SettingsInit, NextKeeps, PTL DEF Spec

\* No setting is lost through writes, resets and power failures at any moment,
\* but by a failure while its own page is changed (SettingsKept).
THEOREM SettingsSurvive == Spec => []SettingsKept
<1>1. IInv => SettingsKept
  BY IdleTarget DEF IInv, WantedInv, WritesLeft, SettingsKept
<1> QED
  BY <1>1, Invariance, PTL

-----------------------------------------------------------------------------
(* The refinement.                                                         *)

Blank0 == [a \in Addresses |-> MaxByte]

LEMMA StoreValues ==
  /\ Store!AllBlank = Blank0 /\ Store!Resting = [new |-> Blank0, risk |-> {}]
  /\ op = Idle => Mem = Contents /\ Pending = Store!Resting
  /\ op # Idle => Mem = before /\ Pending = [new |-> Target, risk |-> Blanked]
BY DEF Store!AllBlank, Store!Resting, Store!Change, Blank0, Mem, Pending

LEMMA StoreValuesNext ==
  /\ op' = Idle => Mem' = Contents' /\ Pending' = Store!Resting
  /\ op' # Idle => Mem' = before' /\ Pending' = [new |-> Target', risk |-> Blanked']
BY DEF Store!AllBlank, Store!Resting, Store!Change, Mem, Pending

LEMMA StoreInit == Init => Store!Init
<1> SUFFICES ASSUME Init
             PROVE  Store!Init
    OBVIOUS
<1>1. op = Idle /\ failures = 0
  BY DEF Init, FlashInit
<1>2. Contents = Blank0
  BY DEF Init, FlashInit, Contents, EEPROM_ReadDataByte, Blank0
<1> QED
  BY <1>1, <1>2, StoreValues DEF Store!Init

LEMMA StoreRests ==
  ASSUME UNCHANGED flashVars
  PROVE  Mem' = Mem /\ Pending' = Pending
<1>1. flash' = flash /\ op' = op /\ before' = before
  BY DEF flashVars
<1>2. Contents' = Contents
  BY <1>1 DEF Contents, EEPROM_ReadDataByte
<1>3. Target' = Target /\ Blanked' = Blanked
  BY <1>1, <1>2 DEF Target, Blanked
<1> QED
  BY <1>1, <1>2, <1>3 DEF Mem, Pending

\* A write begins when none is under way, or nothing has to be written.
LEMMA WriteRefines ==
  ASSUME FlashInv, op = Idle, NEW a \in Addresses, NEW b \in Bytes, WriteDataByte(a, b),
         failures' = failures
  PROVE  [Store!Next]_Store!vars
<1>1. /\ before' = Contents /\ Contents' = Contents
      /\ Target' = [Contents EXCEPT ![a] = b]
      /\ \/ op' = Idle
         \/ op' = At("program", a, b) \/ op' = At("erase page", a, b)
  BY WriteKeeps
<1>2. Mem = Contents /\ Pending = Store!Resting
  BY StoreValues
<1>3. CASE op' = Idle
  BY <1>1, <1>2, <1>3, StoreValuesNext DEF Store!vars
<1>4. CASE op' = At("program", a, b) \/ op' = At("erase page", a, b)
  <2>1. op' # Idle /\ op'.at \in {"program", "erase page"} /\ op'.address = a
    <3>1. CASE op' = At("program", a, b)
      BY <3>1, WritingTargetNext
    <3>2. CASE op' = At("erase page", a, b)
      BY <3>2, WritingTargetNext
    <3> QED
      BY <1>4, <3>1, <3>2
  <2>2. Blanked' \in {{}, PageOf(a)}
    BY <2>1 DEF Blanked, PageOf
  <2>3. Mem' = Mem /\ Pending' = [new |-> [Mem EXCEPT ![a] = b], risk |-> Blanked']
    BY <1>1, <1>2, <2>1, StoreValuesNext
  <2>4. Store!BeginWrite(a, b)
    BY <2>2, <2>3 DEF Store!BeginWrite, Store!Change
  <2> QED
    BY <1>2, <2>4 DEF Store!Next
<1> QED
  BY <1>1, <1>3, <1>4

LEMMA EraseRefines ==
  ASSUME FlashInv, Erase, failures' = failures
  PROVE  [Store!Next]_Store!vars
<1>1. op = Idle
  BY DEF Erase
<1>2. /\ before' = Contents /\ Target' = [i \in Addresses |-> MaxByte]
      /\ op' = At("erase all", 0, 0)
  BY EraseKeeps
<1>3. op' # Idle /\ op'.at = "erase all"
  BY <1>2, ErasingTargetNext
<1>4. Blanked' = Addresses
  BY <1>3 DEF Blanked
<1>5. Mem = Contents /\ Pending = Store!Resting
  BY <1>1, StoreValues
<1>6. Mem' = Mem /\ Pending' = [new |-> Blank0, risk |-> Addresses]
  BY <1>2, <1>3, <1>4, <1>5, StoreValuesNext DEF Blank0
<1>7. Store!BeginErase
  BY <1>6, StoreValues DEF Store!BeginErase, Store!Change
<1> QED
  BY <1>5, <1>7 DEF Store!Next

\* A change that puts nothing at risk programs an empty word.
LEMMA NothingBlanked ==
  ASSUME FlashInv, op # Idle, Blanked = {}
  PROVE  \E a \in Addresses, b \in Bytes : Programming(a, b)
<1>1. CASE \E a \in Addresses : ErasingAll(a)
  <2>1. op.at = "erase all"
    BY <1>1, ErasingTarget DEF ErasingAll
  <2> QED
    BY <1>1, <2>1 DEF Blanked
<1>2. CASE \E a \in Addresses, b \in Bytes : ErasingPage(a, b)
  <2>1. PICK a \in Addresses, b \in Bytes : ErasingPage(a, b)
    BY <1>2
  <2>2. op.at = "erase page" /\ op.address = a
    BY <2>1, WritingTarget DEF ErasingPage
  <2> QED
    BY <2>2, OwnPage DEF Blanked
<1>3. CASE \E a \in Addresses, b \in Bytes : RewritingPage(a, b)
  <2>1. PICK a \in Addresses, b \in Bytes : RewritingPage(a, b)
    BY <1>3
  <2>2. op.at = "rewrite" /\ op.address = a
    BY <2>1, WritingTarget DEF RewritingPage
  <2> QED
    BY <2>2, OwnPage DEF Blanked
<1> QED
  BY <1>1, <1>2, <1>3 DEF FlashInv

\* A step of a change under way leaves the store as it is, and the last one
\* makes it what the change was to bring.
LEMMA GoesRefines ==
  ASSUME FlashInv, Goes, failures' = failures
  PROVE  [Store!Next]_Store!vars
<1>1. Mem = before /\ Pending = [new |-> Target, risk |-> Blanked]
  BY StoreValues DEF Goes
<1>2. CASE op' # Idle
  <2>1. Blanked' = Blanked
    BY <1>2 DEF Goes, Blanked, PageOf
  <2>2. Mem' = Mem /\ Pending' = Pending
    BY <1>1, <1>2, <2>1, StoreValuesNext DEF Goes
  <2> QED
    BY <2>2 DEF Store!vars
<1>3. CASE op' = Idle
  <2>1. Mem' = Target /\ Pending' = Store!Resting
    BY <1>3, StoreValuesNext, IdleTargetNext DEF Goes
  <2>2. Store!Done
    BY <1>1, <2>1 DEF Store!Done
  <2>3. CASE Pending # Store!Resting
    BY <2>2, <2>3 DEF Store!Next
  \* An empty word that gets the byte of an empty word.
  <2>4. CASE Pending = Store!Resting
    <3>1. Target = Blank0 /\ Blanked = {}
      BY <1>1, <2>4, StoreValues
    <3>2. before = Blank0
      <4>3. PICK a \in Addresses, b \in Bytes : Programming(a, b)
        BY <3>1, NothingBlanked DEF Goes
      <4>4. Target = [before EXCEPT ![a] = b] /\ Contents = before /\ flash[a] = FEE_EMPTY_WORD
        BY <4>3, WritingTarget DEF Programming
      <4>5. before[a] = MaxByte
        BY <4>4, ReadWord
      <4>6. before \in [Addresses -> Bytes]
        BY DEF FlashInv
      <4> QED
        BY <3>1, <4>4, <4>5, <4>6 DEF Blank0
    <3>3. Mem' = Mem /\ Pending' = Pending
      BY <1>1, <2>1, <2>4, <3>1, <3>2
    <3> QED
      BY <3>3 DEF Store!vars
  <2> QED
    BY <2>3, <2>4
<1> QED
  BY <1>2, <1>3

\* When the power fails, each byte has its old or its new value, or is blank
\* and was to be erased.
LEMMA FailureOutcome ==
  ASSUME FlashInv, op # Idle, NEW i \in Addresses
  PROVE  \/ Contents[i] = before[i] \/ Contents[i] = Target[i]
         \/ Contents[i] = MaxByte /\ i \in Blanked
<1>1. CASE \E a \in Addresses, b \in Bytes : Programming(a, b) \/ ErasingPage(a, b)
  BY <1>1 DEF Programming, ErasingPage
<1>2. CASE \E a \in Addresses, b \in Bytes : RewritingPage(a, b)
  <2>1. PICK a \in Addresses, b \in Bytes : RewritingPage(a, b)
    BY <1>2
  <2>2. op.at = "rewrite" /\ op.address = a /\ Target = [before EXCEPT ![a] = b]
    BY <2>1, WritingTarget DEF RewritingPage
  <2>3. Blanked = PageOf(a)
    BY <2>2 DEF Blanked
  <2>4. CASE i \in PageOf(a)
    <3>1. flash[i] \in {FEE_EMPTY_WORD, DataBuf[i]} /\ DataBuf = ChangedPage(a, b)
      BY <2>1, <2>4 DEF RewritingPage
    <3>2. DataBuf[i] = Target[i]
      BY <2>2, <2>4, <3>1 DEF ChangedPage, FlashInv
    <3> QED
      BY <2>3, <2>4, <3>1, <3>2, ReadWord
  <2>5. CASE i \notin PageOf(a)
    BY <2>1, <2>5 DEF RewritingPage
  <2> QED
    BY <2>4, <2>5
<1>3. CASE \E a \in Addresses : ErasingAll(a)
  <2>1. PICK a \in Addresses : ErasingAll(a)
    BY <1>3
  <2>2. op.at = "erase all"
    BY <2>1, ErasingTarget DEF ErasingAll
  <2>3. Blanked = Addresses
    BY <2>2 DEF Blanked
  <2> QED
    BY <2>1, <2>3, ReadWord DEF ErasingAll
<1> QED
  BY <1>1, <1>2, <1>3 DEF FlashInv

LEMMA PowerFailsRefines ==
  ASSUME FlashInv, PowerFailsInFlash, failures' = failures + 1
  PROVE  [Store!Next]_Store!vars
<1>1. op' = Idle /\ Contents' = Contents
  BY PowerFailureKeeps
<1>2. Mem' = Contents /\ Pending' = Store!Resting
  BY <1>1, StoreValuesNext
<1>3. Contents \in [Addresses -> Bytes]
  BY ReadType DEF FlashInv
<1>4. ASSUME NEW i \in Addresses
      PROVE  Contents[i] \in Store!Outcomes(i)
  <2>1. CASE op = Idle
    BY <2>1, StoreValues DEF Store!Outcomes
  <2>2. CASE op # Idle /\ Pending # Store!Resting
    <3>1. Mem = before /\ Pending.new = Target /\ Pending.risk = Blanked
      BY <2>2, StoreValues
    <3>2. \/ Contents[i] = before[i] \/ Contents[i] = Target[i]
          \/ Contents[i] = MaxByte /\ i \in Blanked
      BY <2>2, FailureOutcome
    <3>3. i \in Blanked => MaxByte \in {MaxByte : c \in Blanked \cap {i}}
      OBVIOUS
    <3> QED
      BY <2>2, <3>1, <3>2, <3>3 DEF Store!Outcomes
  <2>3. CASE op # Idle /\ Pending = Store!Resting
    <3>1. Mem = before /\ Target = Blank0 /\ Blanked = {}
      BY <2>3, StoreValues
    <3>2. Contents = before
      BY <2>3, <3>1, NothingBlanked DEF Programming
    <3> QED
      BY <2>3, <3>1, <3>2 DEF Store!Outcomes
  <2> QED
    BY <2>1, <2>2, <2>3
<1>5. Store!PowerFails
  BY <1>2, <1>3, <1>4 DEF Store!PowerFails
<1> QED
  BY <1>5 DEF Store!Next

\* Every step is a step of the store or leaves it as it is.
LEMMA NextRefines == IInv /\ [Next]_vars => [Store!Next]_Store!vars
<1> SUFFICES ASSUME IInv, [Next]_vars
             PROVE  [Store!Next]_Store!vars
    OBVIOUS
<1>1. FlashInv
  BY DEF IInv
<1>2. CASE PowerOn \/ ResetSettings \/ UNCHANGED vars
  <2>1. UNCHANGED flashVars /\ failures' = failures
    BY <1>2 DEF PowerOn, ResetSettings, vars
  <2> QED
    BY <2>1, StoreRests DEF Store!vars
<1>3. CASE InitStep
  <2>1. failures' = failures
    BY <1>3 DEF InitStep
  <2> QED
    BY <1>1, <1>3, <2>1, InitStepKeeps, EraseRefines, WriteRefines
<1>4. CASE InFlash
  <2>1. failures' = failures
    BY <1>4 DEF InFlash
  <2> QED
    BY <1>1, <1>4, <2>1, InFlashKeeps, GoesRefines
<1>5. CASE PowerFails
  <2>1. PowerFailsInFlash /\ failures' = failures + 1
    BY <1>5 DEF PowerFails
  <2> QED
    BY <1>1, <2>1, PowerFailsRefines
<1>6. ASSUME NEW s \in Settings, NEW b \in Bytes, Update(s, b)
      PROVE  [Store!Next]_Store!vars
  <2>1. failures' = failures
    BY <1>6 DEF Update
  <2>2. op = Idle /\ s \in Addresses /\ WriteDataByte(s, b)
    BY <1>6, UpdateKeeps
  <2> QED
    BY <1>1, <2>1, <2>2, WriteRefines
<1> QED
  BY <1>2, <1>3, <1>4, <1>5, <1>6 DEF Next

\* The flash with its pages is a store of bytes (IsByteStore): a byte reads as
\* it was written last, and a power failure changes no byte but the one being
\* written and those of its page, which it may leave blank.
THEOREM Refinement == Spec => IsByteStore
BY StoreInit, NextRefines, Invariance, PTL DEF Spec, IsByteStore, Store!Spec
=============================================================================
