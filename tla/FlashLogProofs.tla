--------------------------- MODULE FlashLogProofs ---------------------------
(***************************************************************************)
(* Proofs about FlashLog, for any size of the EEPROM and of its log: as   *)
(* long as no power failure finds an entry behind an empty cell, every    *)
(* byte reads as it was set last.                                          *)
(***************************************************************************)
EXTENDS FlashLog, FiniteSetTheorems, WellFoundedInduction, TLAPS

-----------------------------------------------------------------------------
(* Numbers.                                                                *)

LEMMA LogNumbers ==
  /\ CellCount \in Nat \ {0} /\ EEPROM_SIZE \in Nat \ {0} /\ EEPROM_SIZE < CellCount
  /\ MaxData \in Data /\ Unknown \notin 0 .. CellCount
  /\ Empty \notin Entries
<1>1. Sectors * SectorCells \in Nat \ {0}
  BY LogAssumption
<1>2. \A e \in Entries : e # Empty
  <2>1. \A e \in Entries : Len(e) = 2
    BY DEF Entries
  <2>2. Len(Empty) = 0
    BY DEF Empty
  <2> QED
    BY <2>1, <2>2
<1> QED
  BY <1>1, <1>2, LogAssumption DEF CellCount, Data, Unknown

LEMMA LeastOf ==
  ASSUME NEW T, T \subseteq Nat, T # {}
  PROVE  \E t \in T : \A u \in T : t <= u
<1>1. PICK t \in T : \A u \in T : ~(<<u, t>> \in OpToRel(<, Nat))
  BY NatLessThanWellFounded, WFMin, Zenon
<1>2. ASSUME NEW u \in T PROVE t <= u
  <2>1. u \in Nat /\ t \in Nat
    OBVIOUS
  <2>2. ~(u < t)
    BY <1>1, <2>1 DEF OpToRel
  <2> QED
    BY <2>1, <2>2
<1> QED
  BY <1>2

LEMMA MinIs ==
  ASSUME NEW T, T \subseteq Nat, T # {}
  PROVE  Min(T) \in T /\ \A u \in T : Min(T) <= u
BY LeastOf DEF Min

LEMMA MaxIs ==
  ASSUME NEW n \in Nat, NEW T, T \subseteq 0 .. n, T # {}
  PROVE  Max(T) \in T /\ \A u \in T : u <= Max(T)
<1> DEFINE B == {m \in Nat : \A u \in T : u <= m}
<1>1. n \in B
  OBVIOUS
<1>2. PICK m \in B : \A k \in B : m <= k
  BY <1>1, LeastOf
<1>3. m \in T
  <2> SUFFICES ASSUME m \notin T PROVE FALSE
      OBVIOUS
  <2>1. PICK u \in T : TRUE
    OBVIOUS
  <2>2. \A v \in T : v <= m - 1
    <3> TAKE v \in T
    <3>1. v \in Nat /\ v <= m /\ v # m /\ m \in Nat
      OBVIOUS
    <3> QED
      BY <3>1
  <2>3. m - 1 \in Nat
    BY <2>2, <2>1
  <2> QED
    BY <2>2, <2>3, <1>2
<1>4. \A u \in T : u <= m
  OBVIOUS
<1>5. \E t \in T : \A u \in T : t >= u
  BY <1>3, <1>4
<1>6. Max(T) \in T /\ \A u \in T : Max(T) >= u
  BY <1>5 DEF Max
<1>7. \A u \in T : u \in Nat
  OBVIOUS
<1> QED
  BY <1>6, <1>7

-----------------------------------------------------------------------------
(* The last entry of an offset.                                            *)

Logs == [Cells -> Entries \cup {Empty}]

\* There is none, or it is the entry of a cell that no other follows.
LastOfAll(log, o, end, c) ==
  /\ c \in Cells /\ c <= end /\ HasEntry(log, c, o)
  /\ \A d \in Cells : d <= end /\ HasEntry(log, d, o) => d <= c

LEMMA LastByteIs ==
  ASSUME NEW log \in Logs, NEW o, NEW end
  PROVE  \/ /\ \A c \in Cells : c <= end => ~HasEntry(log, c, o)
            /\ LastByte(log, o, end) = MaxData
         \/ \E c \in Cells : LastOfAll(log, o, end, c) /\ LastByte(log, o, end) = log[c][2]
<1> DEFINE at == {c \in Cells : c <= end /\ HasEntry(log, c, o)}
<1>1. CASE at = {}
  BY <1>1 DEF LastByte
<1>2. CASE at # {}
  <2>1. at \subseteq 0 .. CellCount /\ CellCount \in Nat
    BY LogNumbers DEF Cells
  <2>2. Max(at) \in at /\ \A u \in at : u <= Max(at)
    <3> HIDE DEF at
    <3> QED
      BY <1>2, <2>1, MaxIs
  <2>3. LastByte(log, o, end) = log[Max(at)][2]
    BY <1>2 DEF LastByte
  <2>4. LastOfAll(log, o, end, Max(at))
    BY <2>2 DEF LastOfAll
  <2> QED
    BY <2>2, <2>3, <2>4
<1> QED
  BY <1>1, <1>2

LEMMA LastByteOfCell ==
  ASSUME NEW log \in Logs, NEW o, NEW end, NEW c \in Cells, LastOfAll(log, o, end, c)
  PROVE  LastByte(log, o, end) = log[c][2]
<1>1. PICK d \in Cells : LastOfAll(log, o, end, d) /\ LastByte(log, o, end) = log[d][2]
  BY LastByteIs DEF LastOfAll
<1>2. d <= c /\ c <= d
  BY <1>1 DEF LastOfAll
<1>3. d = c
  BY <1>2, LogNumbers DEF Cells
<1> QED
  BY <1>1, <1>3

LEMMA NoLastByte ==
  ASSUME NEW log, NEW o, NEW end,
         \A c \in Cells : c <= end => ~HasEntry(log, c, o)
  PROVE  LastByte(log, o, end) = MaxData
BY DEF LastByte

LEMMA LastByteType ==
  ASSUME NEW log \in Logs, NEW o, NEW end
  PROVE  LastByte(log, o, end) \in Data
<1>1. ASSUME NEW c \in Cells, HasEntry(log, c, o) PROVE log[c][2] \in Data
  BY <1>1 DEF HasEntry, Logs, Entries
<1> QED
  BY <1>1, LastByteIs, LogNumbers DEF LastOfAll

\* Two logs with the same entries of an offset have the same byte for it.
LEMMA SameLastByte ==
  ASSUME NEW log \in Logs, NEW log2 \in Logs, NEW o, NEW end, NEW end2,
         \A c \in Cells : (c <= end /\ HasEntry(log, c, o)) <=> (c <= end2 /\ HasEntry(log2, c, o)),
         \A c \in Cells : HasEntry(log, c, o) => log2[c] = log[c]
  PROVE  LastByte(log2, o, end2) = LastByte(log, o, end)
<1>1. CASE \A c \in Cells : c <= end => ~HasEntry(log, c, o)
  BY <1>1, NoLastByte
<1>2. CASE ~(\A c \in Cells : c <= end => ~HasEntry(log, c, o))
  <2>1. PICK c \in Cells : LastOfAll(log, o, end, c) /\ LastByte(log, o, end) = log[c][2]
    BY <1>2, LastByteIs
  <2>2. LastOfAll(log2, o, end2, c) /\ log2[c] = log[c]
    BY <2>1 DEF LastOfAll
  <2> QED
    BY <2>1, <2>2, LastByteOfCell
<1> QED
  BY <1>1, <1>2
-----------------------------------------------------------------------------
(* What a compaction copies.                                               *)

Enumerates(s, T) ==
  /\ s \in [1 .. Cardinality(T) -> T]
  /\ \A i, j \in DOMAIN s : i < j => s[i] < s[j]
  /\ \A p \in T : \E i \in DOMAIN s : s[i] = p

\* The next number goes to the end.
LEMMA EnumeratesNext ==
  ASSUME NEW T, IsFiniteSet(T), T \subseteq Nat, NEW m \in Nat, \A p \in T : p < m,
         NEW s, Enumerates(s, T)
  PROVE  \E r : Enumerates(r, T \cup {m})
<1> DEFINE n == Cardinality(T)
           r == [i \in 1 .. n + 1 |-> IF i = n + 1 THEN m ELSE s[i]]
<1>1. n \in Nat /\ m \notin T /\ Cardinality(T \cup {m}) = n + 1
  BY FS_CardinalityType, FS_AddElement
<1> HIDE DEF n
<1>2. s \in [1 .. n -> T] /\ DOMAIN s = 1 .. n
  BY DEF Enumerates, n
<1>3. \A i \in 1 .. n : r[i] = s[i] /\ s[i] \in T
  BY <1>1, <1>2
<1>4. r[n + 1] = m /\ DOMAIN r = 1 .. n + 1
  BY <1>1
<1>5. \A i \in 1 .. n + 1 : i = n + 1 \/ i \in 1 .. n
  BY <1>1
<1>6. r \in [1 .. n + 1 -> T \cup {m}]
  BY <1>3, <1>4, <1>5
<1> HIDE DEF r
<1>7. ASSUME NEW i \in 1 .. n + 1, NEW j \in 1 .. n + 1, i < j PROVE r[i] < r[j]
  <2>1. i \in 1 .. n
    BY <1>7, <1>1
  <2>2. CASE j = n + 1
    BY <2>1, <2>2, <1>3, <1>4
  <2>3. CASE j \in 1 .. n
    <3>1. s[i] < s[j]
      BY <2>1, <2>3, <1>2, <1>7 DEF Enumerates
    <3> QED
      BY <3>1, <2>1, <2>3, <1>3
  <2> QED
    BY <2>2, <2>3, <1>5
<1>8. ASSUME NEW p \in T \cup {m} PROVE \E i \in 1 .. n + 1 : r[i] = p
  <2>1. CASE p = m
    BY <2>1, <1>4, <1>1
  <2>2. CASE p \in T
    <3>1. PICK i \in 1 .. n : s[i] = p
      BY <2>2, <1>2 DEF Enumerates
    <3>2. i \in 1 .. n + 1
      BY <1>1
    <3> QED
      BY <3>1, <3>2, <1>3
  <2> QED
    BY <2>1, <2>2
<1> QED
  BY <1>1, <1>4, <1>6, <1>7, <1>8 DEF Enumerates

LEMMA AscendingIs ==
  ASSUME NEW n \in Nat, NEW S, S \subseteq 0 .. n - 1
  PROVE  Cardinality(S) \in 0 .. n /\ Enumerates(Ascending(S), S)
<1> DEFINE Below(m) == S \cap 0 .. m - 1
           Missing  == {m \in Nat : ~ \E s : Enumerates(s, Below(m))}
<1>1. IsFiniteSet(0 .. n - 1) /\ Cardinality(0 .. n - 1) = n
  BY FS_Interval
<1>2. \A T : T \subseteq S => IsFiniteSet(T) /\ Cardinality(T) \in 0 .. n
  <2> TAKE T
  <2> HAVE T \subseteq S
  <2>1. T \in SUBSET (0 .. n - 1)
    OBVIOUS
  <2>2. IsFiniteSet(T) /\ Cardinality(T) <= n
    BY <1>1, <2>1, FS_Subset
  <2>3. Cardinality(T) \in Nat
    BY <2>2, FS_CardinalityType
  <2> QED
    BY <2>2, <2>3
<1>3. Missing = {}
  <2> SUFFICES ASSUME Missing # {} PROVE FALSE
      OBVIOUS
  <2>1. PICK m \in Missing : \A k \in Missing : m <= k
    BY LeastOf
  <2>2. CASE m = 0
    <3>1. Below(m) = {} /\ Cardinality({}) = 0
      BY <2>2, FS_EmptySet
    <3>2. Enumerates([i \in 1 .. 0 |-> 0], {})
      BY <3>1 DEF Enumerates
    <3> QED
      BY <3>1, <3>2
  <2>3. CASE m # 0
    <3>1. m - 1 \in Nat /\ m - 1 \notin Missing
      <4>1. m \in Nat /\ m # 0 /\ \A k \in Missing : m <= k
        BY <2>1, <2>3
      <4> HIDE DEF Missing
      <4>2. m - 1 \in Nat /\ ~(m <= m - 1)
        BY <4>1
      <4> QED
        BY <4>1, <4>2
    <3>2. PICK s : Enumerates(s, Below(m - 1))
      BY <3>1
    <3>3. IsFiniteSet(Below(m - 1)) /\ Below(m - 1) \subseteq Nat
          /\ \A p \in Below(m - 1) : p < m - 1
      BY <1>2, <3>1
    <3>4. \E r : Enumerates(r, Below(m - 1) \cup {m - 1})
      BY <3>1, <3>2, <3>3, EnumeratesNext
    <3>5. Below(m) = Below(m - 1) \/ Below(m) = Below(m - 1) \cup {m - 1}
      <4>1. \A p \in S : p \in Nat
        OBVIOUS
      <4>2. \A p \in Nat : p \in 0 .. m - 1 <=> p \in 0 .. (m - 1) - 1 \/ p = m - 1
        BY <3>1
      <4> QED
        BY <4>1, <4>2
    <3> QED
      BY <3>2, <3>4, <3>5
  <2> QED
    BY <2>2, <2>3
<1>4. Below(n) = S
  OBVIOUS
<1>5. \E s : Enumerates(s, S)
  BY <1>3, <1>4
<1>6. Enumerates(Ascending(S), S)
  BY <1>5 DEF Enumerates, Ascending
<1> QED
  BY <1>2, <1>6

\* The bytes as they are to be written.
ByteAfter(o, b, p) == IF p = o THEN b ELSE LastByte(cells, p, CellCount)

LEMMA BufferIs ==
  ASSUME cells \in Logs, NEW o \in Offsets, NEW b \in Data, NEW B, B = Buffer(o, b)
  PROVE  /\ B \in Seq(Entries) /\ Len(B) <= EEPROM_SIZE
         /\ \A i, j \in DOMAIN B : B[i][1] = B[j][1] => i = j
         /\ \A p \in Offsets :
              \/ \E i \in DOMAIN B : B[i] = <<p, ByteAfter(o, b, p)>>
              \/ ByteAfter(o, b, p) = MaxData /\ \A i \in DOMAIN B : B[i][1] # p
<1> DEFINE S == {p \in Offsets : ByteAfter(o, b, p) # MaxData}
           s == Ascending(S)
           n == Cardinality(S)
<1>1. S \subseteq 0 .. EEPROM_SIZE - 1 /\ EEPROM_SIZE \in Nat
  BY LogNumbers DEF Offsets
<1>2. \A p \in Offsets : ByteAfter(o, b, p) \in Data
  BY LastByteType DEF ByteAfter
<1>3. B = [i \in DOMAIN s |-> <<s[i], ByteAfter(o, b, s[i])>>]
  BY DEF Buffer, ByteAfter
<1>3a. \A p \in S : p \in Offsets
  OBVIOUS
<1>3b. \A p \in Offsets \ S : ByteAfter(o, b, p) = MaxData
  OBVIOUS
<1> HIDE DEF S
<1>4. n \in 0 .. EEPROM_SIZE /\ Enumerates(s, S)
  BY <1>1, AscendingIs
<1> HIDE DEF s, n
<1>5. s \in [1 .. n -> S] /\ DOMAIN s = 1 .. n /\ n \in Nat
  BY <1>4, <1>1 DEF Enumerates, n
<1>5a. \A i, j \in 1 .. n : i < j => s[i] < s[j]
  BY <1>4, <1>5 DEF Enumerates
<1>5b. \A p \in S : p \in Nat
  BY <1>1
<1>6. \A i \in 1 .. n : B[i] = <<s[i], ByteAfter(o, b, s[i])>> /\ s[i] \in S
  BY <1>3, <1>5
<1>7. DOMAIN B = 1 .. n
  BY <1>3, <1>5
<1>8. \A i \in 1 .. n : B[i] \in Entries /\ B[i][1] = s[i]
  BY <1>6, <1>2, <1>3a DEF Entries
<1>9. B \in [1 .. n -> Entries]
  BY <1>3, <1>5, <1>8
<1>10. B \in Seq(Entries) /\ Len(B) = n
  BY <1>9, <1>5
<1>11. ASSUME NEW i \in 1 .. n, NEW j \in 1 .. n, B[i][1] = B[j][1] PROVE i = j
  <2>1. s[i] = s[j]
    BY <1>11, <1>8
  <2>3. s[i] \in S
    BY <1>6
  <2>4. s[i] \in Nat
    BY <2>3, <1>5b
  <2>2. ~(i < j) /\ ~(j < i)
    BY <2>1, <2>4, <1>5a
  <2> QED
    BY <2>2, <1>5
<1>12. ASSUME NEW p \in Offsets
       PROVE  \/ \E i \in 1 .. n : B[i] = <<p, ByteAfter(o, b, p)>>
              \/ ByteAfter(o, b, p) = MaxData /\ \A i \in 1 .. n : B[i][1] # p
  <2>1. CASE p \in S
    <3>1. PICK i \in 1 .. n : s[i] = p
      BY <2>1, <1>4, <1>5 DEF Enumerates
    <3> QED
      BY <3>1, <1>6
  <2>2. CASE p \notin S
    BY <2>2, <1>3b, <1>6, <1>8
  <2> QED
    BY <2>1, <2>2
<1>13. Len(B) <= EEPROM_SIZE
  BY <1>1, <1>4, <1>10
<1> QED
  BY <1>7, <1>10, <1>11, <1>12, <1>13, Zenon
-----------------------------------------------------------------------------
(* The invariant.                                                          *)

LEMMA LogInitInv == LogInit => LogInv
<1> SUFFICES ASSUME LogInit
             PROVE  LogInv
    OBVIOUS
<1> USE DEF LogInit
<1>1. LogTypeOK
  <2>1. 0 \in 0 .. MaxLogFailures /\ MaxData \in Data /\ 0 <= EEPROM_SIZE
    BY LogNumbers, LogAssumption
  <2>2. buf \in Seq(Entries) /\ Len(buf) = 0
    OBVIOUS
  <2> QED
    BY <2>1, <2>2 DEF LogTypeOK
<1>2. \A c \in Cells : \A o : ~HasEntry(cells, c, o)
  BY DEF HasEntry
<1>3. \A o \in DOMAIN logWanted : LastByte(cells, o, CellCount) = logWanted[o]
  BY <1>2, NoLastByte
<1>4. ~Gap
  BY DEF Gap
<1>5. compaction.at = "idle"
  BY DEF NoCompaction
<1> QED
  BY <1>1, <1>3, <1>4, <1>5 DEF LogInv, Waiting, EndIsLast, ReadsAsSet

\* The entries that are read before and after eeprom_initialize.
LEMMA ReadToEnd ==
  ASSUME NEW log \in Logs, NEW end \in Nat, \A c \in Cells : c > end => log[c] = Empty,
         NEW o
  PROVE  LastByte(log, o, end) = LastByte(log, o, CellCount)
<1>1. \A c \in Cells : c \in Nat /\ c <= CellCount
  BY LogNumbers DEF Cells
<1>2. \A c \in Cells : (c <= end /\ HasEntry(log, c, o)) <=> (c <= CellCount /\ HasEntry(log, c, o))
  BY <1>1 DEF HasEntry
<1> QED
  BY <1>2, SameLastByte

LEMMA InitializeInv ==
  ASSUME LogInv, eeprom_initialize
  PROVE  LogInv'
<1> USE DEF eeprom_initialize
<1>1. LogTypeOK /\ compaction = NoCompaction /\ compaction.at = "idle"
  BY DEF LogInv, NoCompaction
<1>2. LastEntry \in 0 .. CellCount
      /\ (~Gap => \A c \in Cells : c > LastEntry => cells[c] = Empty)
  <2>1. CASE \E c \in Cells : cells[c] = Empty
    <3> DEFINE E == {c \in Cells : cells[c] = Empty}
    <3>1. E \subseteq Nat /\ E # {}
      BY <2>1 DEF Cells
    <3>2. Min(E) \in E /\ \A u \in E : Min(E) <= u
      <4> HIDE DEF E
      <4> QED
        BY <3>1, MinIs
    <3>3. LastEntry = Min(E) - 1
      BY <2>1 DEF LastEntry
    <3>4. Min(E) \in Cells /\ cells[Min(E)] = Empty
      BY <3>2
    <3> HIDE DEF E
    <3>5. LastEntry \in 0 .. CellCount
      BY <3>3, <3>4, LogNumbers DEF Cells
    <3>6. ASSUME ~Gap, NEW c \in Cells, c > LastEntry PROVE cells[c] = Empty
      <4>1. c = Min(E) \/ Min(E) < c
        BY <3>3, <3>4, <3>6, LogNumbers DEF Cells
      <4> QED
        BY <4>1, <3>4, <3>6 DEF Gap
    <3> QED
      BY <3>5, <3>6
  <2>2. CASE ~(\E c \in Cells : cells[c] = Empty)
    <3>1. LastEntry = CellCount /\ CellCount \in Nat
      BY <2>2, LogNumbers DEF LastEntry
    <3>2. \A c \in Cells : ~(c > CellCount)
      BY <3>1 DEF Cells
    <3> QED
      BY <3>1, <3>2
  <2> QED
    BY <2>1, <2>2
<1>3. LogTypeOK'
  BY <1>1, <1>2 DEF LogTypeOK
<1>4. ASSUME astray = NotAstray PROVE EndIsLast' /\ ReadsAsSet' /\ Waiting'
  <2>1. Waiting
    BY <1>1, <1>4 DEF LogInv
  <2>2. /\ \A c \in Cells : c > LastEntry => cells[c] = Empty
        /\ \A o \in DOMAIN logWanted : LastByte(cells, o, CellCount) = logWanted[o]
    BY <2>1, <1>2 DEF Waiting
  <2>3. \A o : LastByte(cells, o, LastEntry) = LastByte(cells, o, CellCount)
    BY <1>1, <1>2, <2>2, ReadToEnd DEF LogTypeOK, Logs
  <2>4. flashend' # Unknown
    BY <1>2, LogNumbers
  <2> QED
    BY <2>2, <2>3, <2>4 DEF EndIsLast, ReadsAsSet, Waiting, eeprom_read_byte
<1> QED
  BY <1>1, <1>3, <1>4 DEF LogInv

\* An entry in the cell behind the last one.
LEMMA AppendReads ==
  ASSUME NEW log \in Logs, NEW log2 \in Logs, NEW end \in Nat, NEW e \in Cells, e = end + 1,
         \A c \in Cells : c > end => log[c] = Empty,
         NEW o \in Offsets, NEW b \in Data, log2[e] = <<o, b>>,
         \A c \in Cells : c # e => log2[c] = log[c]
  PROVE  /\ LastByte(log2, o, e) = b
         /\ \A p : p # o => LastByte(log2, p, e) = LastByte(log, p, end)
         /\ \A c \in Cells : c > e => log2[c] = Empty
<1>1. log2[e] = <<o, b>> /\ \A c \in Cells : c # e => log2[c] = log[c]
  OBVIOUS
<1>2. \A c \in Cells : c \in Nat /\ (c = e \/ c <= end \/ c > e)
  BY DEF Cells
<1>3. <<o, b>> \in Entries /\ <<o, b>> # Empty /\ <<o, b>>[1] = o /\ <<o, b>>[2] = b
  <2>1. <<o, b>> \in Entries
    BY DEF Entries
  <2> QED
    BY <2>1, LogNumbers
<1>4. LastByte(log2, o, e) = b
  <2>1. HasEntry(log2, e, o)
    BY <1>1, <1>3 DEF HasEntry
  <2>2. LastOfAll(log2, o, e, e)
    BY <2>1, <1>2 DEF LastOfAll
  <2> QED
    BY <2>2, <1>1, <1>3, LastByteOfCell
<1>5. ASSUME NEW p, p # o PROVE LastByte(log2, p, e) = LastByte(log, p, end)
  <2>1. ~HasEntry(log2, e, p)
    BY <1>1, <1>3, <1>5 DEF HasEntry
  <2>2. \A c \in Cells : HasEntry(log, c, p) => c <= end
    BY <1>2 DEF HasEntry
  <2>3. \A c \in Cells : c # e => (HasEntry(log2, c, p) <=> HasEntry(log, c, p))
    BY <1>1 DEF HasEntry
  <2>4. ~(e <= end)
    OBVIOUS
  <2>5. \A c \in Cells : c <= end => c <= e
    BY <1>2
  <2>6. \A c \in Cells :
          (c <= end /\ HasEntry(log, c, p)) <=> (c <= e /\ HasEntry(log2, c, p))
    BY <2>1, <2>2, <2>3, <2>4, <2>5
  <2>7. \A c \in Cells : HasEntry(log, c, p) => log2[c] = log[c]
    BY <2>2, <2>4, <1>1
  <2> QED
    BY <2>6, <2>7, SameLastByte
<1>6. \A c \in Cells : c > e => log2[c] = Empty
  BY <1>1, <1>2
<1> QED
  BY <1>4, <1>5, <1>6
LEMMA AppendInv ==
  ASSUME LogInv, NEW o \in Offsets, NEW b \in Data, eeprom_write_byte(o, b), Append1(o, b)
  PROVE  LogInv'
<1> DEFINE e == flashend + 1
<1> USE DEF eeprom_write_byte, Append1
<1>1. /\ LogTypeOK /\ cells \in Logs /\ compaction = NoCompaction /\ compaction.at = "idle"
      /\ flashend \in 0 .. CellCount /\ e \in Cells /\ flashend' = e /\ e # Unknown
  BY LogNumbers DEF LogInv, LogTypeOK, NoCompaction, Cells, Logs
<1>2. <<o, b>> \in Entries
  BY DEF Entries
<1>3. cells' \in Logs
  BY <1>1, <1>2 DEF Programmed, Logs
<1>4. /\ DOMAIN logWanted' = DOMAIN logWanted \cup {o} /\ DOMAIN logWanted \subseteq Offsets
      /\ \A p \in DOMAIN logWanted' : logWanted'[p] = IF p = o THEN b ELSE logWanted[p]
      /\ logWanted' \in [DOMAIN logWanted' -> Data]
  BY <1>1 DEF LogTypeOK
<1>5. LogTypeOK'
  <2>1. flashend' \in 0 .. CellCount
    BY <1>1 DEF Cells
  <2> QED
    BY <2>1, <1>1, <1>3, <1>4 DEF LogTypeOK, Logs
<1>6. ASSUME astray = NotAstray PROVE EndIsLast' /\ ReadsAsSet'
  <2>1. EndIsLast /\ ReadsAsSet
    BY <1>1, <1>6 DEF LogInv
  <2>2. /\ \A c \in Cells : c > flashend => cells[c] = Empty
        /\ \A p \in DOMAIN logWanted : LastByte(cells, p, flashend) = logWanted[p]
    BY <2>1, <1>1 DEF EndIsLast, ReadsAsSet, eeprom_read_byte
  <2>3. cells[e] = Empty
    BY <2>2, <1>1
  <2>4. cells' = [cells EXCEPT ![e] = <<o, b>>]
    BY <2>3 DEF Programmed
  <2>5. cells'[e] = <<o, b>> /\ \A c \in Cells : c # e => cells'[c] = cells[c]
    BY <2>4, <1>1 DEF Logs
  <2>6. flashend \in Nat /\ e = flashend + 1
    BY <1>1
  <2> HIDE DEF e
  <2>7. /\ LastByte(cells', o, e) = b
        /\ \A p : p # o => LastByte(cells', p, e) = LastByte(cells, p, flashend)
        /\ \A c \in Cells : c > e => cells'[c] = Empty
    BY <2>2, <2>5, <2>6, <1>1, <1>3, AppendReads
  <2>8. ASSUME NEW p \in DOMAIN logWanted' PROVE LastByte(cells', p, e) = logWanted'[p]
    BY <2>7, <2>2, <1>4
  <2> QED
    BY <2>7, <2>8, <1>1 DEF EndIsLast, ReadsAsSet, eeprom_read_byte
<1> QED
  BY <1>1, <1>5, <1>6 DEF LogInv, Waiting

LEMMA BeginCompactionInv ==
  ASSUME LogInv, NEW o \in Offsets, NEW b \in Data, eeprom_write_byte(o, b),
         BeginCompaction(o, b)
  PROVE  LogInv'
<1> USE DEF eeprom_write_byte, BeginCompaction
<1>1. /\ LogTypeOK /\ cells \in Logs /\ compaction = NoCompaction /\ compaction.at = "idle"
      /\ flashend \in 0 .. CellCount /\ flashend' = flashend /\ cells' = cells
      /\ compaction' = [at |-> "erase", n |-> 0] /\ flashend' # Unknown
  BY DEF LogInv, LogTypeOK, NoCompaction, Logs
<1>2. /\ DOMAIN logWanted' = DOMAIN logWanted \cup {o} /\ DOMAIN logWanted' \subseteq Offsets
      /\ \A p \in DOMAIN logWanted' : logWanted'[p] = IF p = o THEN b ELSE logWanted[p]
      /\ logWanted' \in [DOMAIN logWanted' -> Data]
  BY <1>1 DEF LogTypeOK
<1>3. /\ buf' \in Seq(Entries) /\ Len(buf') <= EEPROM_SIZE
      /\ \A i, j \in DOMAIN buf' : buf'[i][1] = buf'[j][1] => i = j
      /\ \A p \in Offsets :
           \/ \E i \in DOMAIN buf' : buf'[i] = <<p, ByteAfter(o, b, p)>>
           \/ ByteAfter(o, b, p) = MaxData /\ \A i \in DOMAIN buf' : buf'[i][1] # p
  BY <1>1, BufferIs
<1>4. LogTypeOK'
  <2>1. 0 \in 0 .. Sectors - 1
    BY LogAssumption
  <2>2. compaction' \in [at : {"erase"}, n : 0 .. Sectors - 1]
    BY <1>1, <2>1
  <2> QED
    BY <2>2, <1>1, <1>2, <1>3 DEF LogTypeOK
<1>5. ASSUME astray = NotAstray PROVE BufKeeps' /\ Erasing'
  <2>1. EndIsLast /\ ReadsAsSet
    BY <1>1, <1>5 DEF LogInv
  <2>2. /\ \A c \in Cells : c > flashend => cells[c] = Empty
        /\ \A p \in DOMAIN logWanted : LastByte(cells, p, flashend) = logWanted[p]
    BY <2>1, <1>1 DEF EndIsLast, ReadsAsSet, eeprom_read_byte
  <2>3. flashend \in Nat
    BY <1>1
  <2>4. \A p : LastByte(cells, p, flashend) = LastByte(cells, p, CellCount)
    BY <2>2, <2>3, <1>1, ReadToEnd
  <2>5. \A p \in DOMAIN logWanted' : ByteAfter(o, b, p) = logWanted'[p]
    BY <2>2, <2>4, <1>2 DEF ByteAfter
  <2>6. BufKeeps'
    <3>1. ASSUME NEW p \in DOMAIN logWanted'
          PROVE  \/ \E i \in DOMAIN buf' : buf'[i] = <<p, logWanted'[p]>>
                 \/ logWanted'[p] = MaxData /\ \A i \in DOMAIN buf' : buf'[i][1] # p
      <4>1. p \in Offsets /\ ByteAfter(o, b, p) = logWanted'[p]
        BY <2>5, <1>2
      <4> QED
        BY <4>1, <1>3
    <3> QED
      BY <3>1, <1>3, Zenon DEF BufKeeps
  <2>7. \A c \in Cells : ~((c - 1) \div SectorCells < 0)
    BY LogAssumption DEF Cells
  <2>8. Erasing'
    BY <2>7, <1>1 DEF Erasing
  <2> QED
    BY <2>6, <2>8
<1>6. compaction'.at = "erase" /\ compaction' # NoCompaction
  BY <1>1 DEF NoCompaction
<1> QED
  BY <1>1, <1>4, <1>5, <1>6 DEF LogInv

LEMMA SectorOf ==
  \A c \in Cells : (c - 1) \div SectorCells \in 0 .. Sectors - 1
<1>1. \A P \in Nat \ {0}, a \in Nat : a \div P \in Nat /\ (a \div P) * P <= a
  OBVIOUS
<1>2. \A P \in Nat \ {0}, m \in Nat, n \in Nat : m <= n => m * P <= n * P
  OBVIOUS
<1>3. \A c \in Cells : c - 1 \in Nat /\ c - 1 < Sectors * SectorCells
  BY LogNumbers DEF Cells, CellCount
<1>4. ASSUME NEW c \in Cells PROVE (c - 1) \div SectorCells \in 0 .. Sectors - 1
  <2> DEFINE q == (c - 1) \div SectorCells
  <2>1. q \in Nat /\ q * SectorCells <= c - 1
    BY <1>1, <1>3, LogAssumption
  <2> HIDE DEF q
  <2>2. Sectors <= q => Sectors * SectorCells <= q * SectorCells
    BY <1>2, <2>1, LogAssumption
  <2>3. Sectors * SectorCells \in Nat /\ q * SectorCells \in Nat /\ Sectors \in Nat
    BY <2>1, LogAssumption
  <2>4. ~(Sectors <= q)
    BY <2>1, <2>2, <2>3, <1>3
  <2> QED
    BY <2>1, <2>3, <2>4 DEF q
<1> QED
  BY <1>4
LEMMA EraseSectorInv ==
  ASSUME LogInv, EraseSector
  PROVE  LogInv'
<1> USE DEF EraseSector
<1>1. /\ LogTypeOK /\ cells \in Logs /\ compaction \in [at : {"erase"}, n : 0 .. Sectors - 1]
      /\ compaction # NoCompaction /\ flashend # Unknown
  BY DEF LogInv, LogTypeOK, NoCompaction, Logs
<1>2. /\ compaction.n \in 0 .. Sectors - 1 /\ Sectors \in Nat
      /\ compaction' = IF compaction.n + 1 < Sectors
                       THEN [at |-> "erase", n |-> compaction.n + 1]
                       ELSE [at |-> "rewrite", n |-> 1]
  BY <1>1, LogAssumption
<1>3. cells' \in Logs
  BY <1>1 DEF Logs
<1>4. compaction' \in [at : {"erase"}, n : 0 .. Sectors - 1] \cup [at : {"rewrite"}, n : Nat]
  <2>1. CASE compaction.n + 1 < Sectors
    <3>1. compaction.n + 1 \in 0 .. Sectors - 1
      BY <1>2, <2>1
    <3> QED
      BY <3>1, <1>2, <2>1
  <2>2. CASE ~(compaction.n + 1 < Sectors)
    BY <1>2, <2>2
  <2> QED
    BY <2>1, <2>2
<1>5. LogTypeOK'
  BY <1>1, <1>3, <1>4 DEF LogTypeOK, Logs
<1>6. compaction' # NoCompaction /\ compaction'.at # "idle"
  BY <1>4 DEF NoCompaction
<1>7. ASSUME astray = NotAstray
      PROVE  /\ BufKeeps'
             /\ compaction'.at = "erase"   => Erasing'
             /\ compaction'.at = "rewrite" => RewritingCells'
  <2>1. BufKeeps /\ Erasing
    BY <1>1, <1>7 DEF LogInv
  <2>2. BufKeeps'
    BY <2>1 DEF BufKeeps
  <2>3. ASSUME NEW c \in Cells, (c - 1) \div SectorCells < compaction.n + 1
        PROVE  cells'[c] = Empty
    <3>1. (c - 1) \div SectorCells < compaction.n \/ (c - 1) \div SectorCells = compaction.n
      BY <2>3, <1>2, SectorOf
    <3>2. cells'[c] = IF (c - 1) \div SectorCells = compaction.n THEN Empty ELSE cells[c]
      OBVIOUS
    <3> QED
      BY <3>1, <3>2, <2>1 DEF Erasing
  <2>4. CASE compaction.n + 1 < Sectors
    <3>1. compaction'.n = compaction.n + 1 /\ compaction'.at = "erase"
      BY <1>2, <2>4
    <3>2. Erasing'
      BY <3>1, <2>3 DEF Erasing
    <3> QED
      BY <3>1, <3>2, <2>2
  <2>5. CASE ~(compaction.n + 1 < Sectors)
    <3>1. compaction'.n = 1 /\ compaction'.at = "rewrite"
      BY <1>2, <2>5
    <3>2. \A c \in Cells : cells'[c] = Empty
      BY <2>3, <2>5, <1>2, SectorOf
    <3>3. \A c \in Cells : ~(c < 1)
      BY DEF Cells
    <3>4. RewritingCells'
      BY <3>1, <3>2, <3>3 DEF RewritingCells
    <3> QED
      BY <3>1, <3>4, <2>2
  <2> QED
    BY <2>4, <2>5
<1> QED
  BY <1>1, <1>5, <1>6, <1>7 DEF LogInv

LEMMA RewriteCellsInv ==
  ASSUME LogInv, RewriteCells
  PROVE  LogInv'
<1> USE DEF RewriteCells
<1>1. /\ LogTypeOK /\ cells \in Logs /\ compaction \in [at : {"rewrite"}, n : Nat]
      /\ compaction # NoCompaction /\ flashend # Unknown
      /\ buf \in Seq(Entries) /\ Len(buf) \in Nat
  BY DEF LogInv, LogTypeOK, NoCompaction, Logs
<1>2. compaction.n \in Nat /\ compaction' = [at |-> "rewrite", n |-> compaction.n + 2]
  BY <1>1
<1>3. \A c \in Cells : c <= Len(buf) => buf[c] \in Entries
  BY <1>1 DEF Cells
<1>4. cells' \in Logs
  BY <1>1, <1>3 DEF Logs
<1>5. LogTypeOK'
  BY <1>1, <1>2, <1>4 DEF LogTypeOK, Logs
<1>6. compaction' # NoCompaction /\ compaction'.at = "rewrite" /\ compaction'.n = compaction.n + 2
  BY <1>2 DEF NoCompaction
<1>7. ASSUME astray = NotAstray PROVE BufKeeps' /\ RewritingCells'
  <2>1. BufKeeps /\ RewritingCells
    BY <1>1, <1>7 DEF LogInv
  <2>2. BufKeeps'
    BY <2>1 DEF BufKeeps
  <2>3. ASSUME NEW c \in Cells
        PROVE  cells'[c] = IF c < compaction.n + 2 /\ c <= Len(buf) THEN buf[c] ELSE Empty
    <3>1. cells[c] = IF c < compaction.n /\ c <= Len(buf) THEN buf[c] ELSE Empty
      BY <2>1 DEF RewritingCells
    <3>2. cells'[c] = IF c \in {compaction.n, compaction.n + 1} /\ c <= Len(buf)
                      THEN buf[c] ELSE cells[c]
      OBVIOUS
    <3>3. c < compaction.n + 2 <=> c < compaction.n \/ c \in {compaction.n, compaction.n + 1}
      BY <1>2 DEF Cells
    <3> QED
      BY <3>1, <3>2, <3>3
  <2> QED
    BY <2>2, <2>3, <1>6 DEF RewritingCells
<1> QED
  BY <1>1, <1>5, <1>6, <1>7 DEF LogInv

LEMMA EndCompactionInv ==
  ASSUME LogInv, EndCompaction
  PROVE  LogInv'
<1> USE DEF EndCompaction
<1>1. /\ LogTypeOK /\ cells \in Logs /\ compaction \in [at : {"rewrite"}, n : Nat]
      /\ buf \in Seq(Entries) /\ Len(buf) \in Nat /\ Len(buf) <= EEPROM_SIZE
      /\ compaction.n \in Nat
  BY DEF LogInv, LogTypeOK, NoCompaction, Logs
<1>2. flashend' = Len(buf) + 1 /\ flashend' \in 0 .. CellCount /\ flashend' # Unknown
  BY <1>1, LogNumbers
<1>3. buf' \in Seq(Entries) /\ Len(buf') = 0 /\ 0 <= EEPROM_SIZE
  BY LogNumbers
<1>4. LogTypeOK'
  BY <1>1, <1>2, <1>3 DEF LogTypeOK
<1>5. ASSUME astray = NotAstray PROVE EndIsLast' /\ ReadsAsSet'
  <2>1. BufKeeps /\ RewritingCells
    BY <1>1, <1>5 DEF LogInv
  <2>2. \A c \in Cells : cells[c] = IF c <= Len(buf) THEN buf[c] ELSE Empty
    <3> TAKE c \in Cells
    <3>1. cells[c] = IF c < compaction.n /\ c <= Len(buf) THEN buf[c] ELSE Empty
      BY <2>1 DEF RewritingCells
    <3>2. c <= Len(buf) => c < compaction.n
      BY <1>1 DEF Cells
    <3> QED
      BY <3>1, <3>2
  <2>3. \A c \in Cells : c \in Nat /\ (c > Len(buf) + 1 => ~(c <= Len(buf)))
    BY <1>1 DEF Cells
  <2>4. \A c \in Cells : c > flashend' => cells[c] = Empty
    BY <2>2, <2>3, <1>2
  <2>5. \A i \in DOMAIN buf : i \in Cells /\ i <= Len(buf) /\ i <= flashend' /\ cells[i] = buf[i]
                              /\ buf[i] \in Entries
    <3>1. \A i \in DOMAIN buf : i \in Cells /\ i <= Len(buf) /\ i <= Len(buf) + 1
      BY <1>1, LogNumbers DEF Cells
    <3>2. \A i \in DOMAIN buf : buf[i] \in Entries
      BY <1>1
    <3> QED
      BY <3>1, <3>2, <2>2, <1>2
  <2>6. \A c \in Cells : cells[c] # Empty => c \in DOMAIN buf
    <3>1. \A c \in Cells : c <= Len(buf) => c \in DOMAIN buf
      BY <1>1 DEF Cells
    <3> QED
      BY <3>1, <2>2
  <2>7. \A i \in DOMAIN buf : buf[i] # Empty
    BY <2>5, LogNumbers
  <2>8. ASSUME NEW o \in DOMAIN logWanted PROVE LastByte(cells, o, flashend') = logWanted[o]
    <3>1. CASE \E i \in DOMAIN buf : buf[i] = <<o, logWanted[o]>>
      <4>1. PICK i \in DOMAIN buf : buf[i] = <<o, logWanted[o]>>
        BY <3>1
      <4>2. buf[i][1] = o /\ buf[i][2] = logWanted[o]
        BY <4>1
      <4>3. HasEntry(cells, i, o)
        BY <4>2, <2>5, <2>7 DEF HasEntry
      <4>4. \A d \in Cells : HasEntry(cells, d, o) => d = i
        BY <4>2, <2>5, <2>6, <2>1 DEF HasEntry, BufKeeps
      <4>5. i \in Cells /\ i <= flashend' /\ i <= i
        BY <2>5, <2>3
      <4>6. LastOfAll(cells, o, flashend', i)
        BY <4>3, <4>4, <4>5 DEF LastOfAll
      <4> QED
        BY <4>2, <4>5, <4>6, <2>5, <1>1, LastByteOfCell
    <3>2. CASE logWanted[o] = MaxData /\ \A i \in DOMAIN buf : buf[i][1] # o
      <4>1. \A c \in Cells : ~HasEntry(cells, c, o)
        BY <3>2, <2>5, <2>6 DEF HasEntry
      <4> QED
        BY <4>1, <3>2, NoLastByte
    <3> QED
      BY <3>1, <3>2, <2>1 DEF BufKeeps
  <2> QED
    BY <2>4, <2>8 DEF EndIsLast, ReadsAsSet, eeprom_read_byte
<1>6. compaction'.at = "idle" /\ compaction' = NoCompaction
  BY DEF NoCompaction
<1> QED
  BY <1>2, <1>4, <1>5, <1>6 DEF LogInv, Waiting

LEMMA LogPowerFailsInv ==
  ASSUME LogInv, LogPowerFails
  PROVE  LogInv'
<1> USE DEF LogPowerFails
<1>1. /\ LogTypeOK /\ cells \in Logs
      /\ flashend' = Unknown /\ compaction' = NoCompaction /\ compaction'.at = "idle"
  BY DEF LogInv, LogTypeOK, NoCompaction, Logs
<1>2. LogTypeOK'
  <2>1. buf' \in Seq(Entries) /\ Len(buf') = 0 /\ 0 <= EEPROM_SIZE
    BY LogNumbers
  <2>2. logFailures' \in 0 .. MaxLogFailures
    BY <1>1, LogAssumption DEF LogTypeOK
  <2>3. DOMAIN logWanted' \subseteq Offsets /\ logWanted' \in [DOMAIN logWanted' -> Data]
    <3>1. CASE compaction = NoCompaction
      BY <3>1, <1>1 DEF LogTypeOK
    <3>2. CASE compaction # NoCompaction
      BY <3>2
    <3> QED
      BY <3>1, <3>2
  <2> QED
    BY <2>1, <2>2, <2>3, <1>1 DEF LogTypeOK
<1>3. ASSUME astray' = NotAstray PROVE Waiting'
  <2>1. astray = NotAstray /\ ~Gap
    <3>1. astray = NotAstray \/ astray' = astray
      OBVIOUS
    <3>2. compaction.at # NotAstray
      BY <1>1 DEF LogTypeOK, NoCompaction, NotAstray
    <3> QED
      BY <3>1, <3>2, <1>3
  <2>2. Gap' = Gap
    BY DEF Gap
  <2>3. ASSUME compaction = NoCompaction, NEW o \in DOMAIN logWanted
        PROVE  LastByte(cells, o, CellCount) = logWanted[o]
    <3>1. Waiting /\ EndIsLast /\ ReadsAsSet
      BY <2>1, <2>3 DEF LogInv
    <3>2. CASE flashend = Unknown
      BY <3>1, <3>2 DEF Waiting
    <3>3. CASE flashend # Unknown
      <4>1. flashend \in Nat /\ \A c \in Cells : c > flashend => cells[c] = Empty
        BY <3>1, <3>3, <1>1 DEF EndIsLast, LogTypeOK
      <4>2. LastByte(cells, o, flashend) = logWanted[o]
        BY <3>1, <3>3, <2>3 DEF ReadsAsSet, eeprom_read_byte
      <4> QED
        BY <4>1, <4>2, <1>1, ReadToEnd
    <3> QED
      BY <3>2, <3>3
  <2>4. ASSUME NEW o \in DOMAIN logWanted'
        PROVE  LastByte(cells, o, CellCount) = logWanted'[o]
    <3>1. compaction = NoCompaction
      BY <2>4
    <3> QED
      BY <3>1, <2>3, <2>4
  <2> QED
    BY <2>1, <2>2, <2>4 DEF Waiting
<1> QED
  BY <1>1, <1>2, <1>3 DEF LogInv, EndIsLast, ReadsAsSet

LEMMA LogNextInv == LogInv /\ [LogNext]_logVars => LogInv'
<1> SUFFICES ASSUME LogInv, [LogNext]_logVars
             PROVE  LogInv'
    OBVIOUS
<1>1. CASE eeprom_initialize
  BY <1>1, InitializeInv
<1>2. CASE EraseSector
  BY <1>2, EraseSectorInv
<1>3. CASE RewriteCells
  BY <1>3, RewriteCellsInv
<1>4. CASE EndCompaction
  BY <1>4, EndCompactionInv
<1>5. CASE LogPowerFails
  BY <1>5, LogPowerFailsInv
<1>6. ASSUME NEW o \in Offsets, NEW b \in Data, eeprom_write_byte(o, b)
      PROVE  LogInv'
  <2>1. Append1(o, b) \/ BeginCompaction(o, b)
    BY <1>6 DEF eeprom_write_byte
  <2> QED
    BY <2>1, <1>6, AppendInv, BeginCompactionInv
<1>7. CASE UNCHANGED logVars
  BY <1>7 DEF logVars, LogInv, LogTypeOK, Waiting, Gap, EndIsLast, ReadsAsSet, eeprom_read_byte,
              BufKeeps, Erasing, RewritingCells
<1> QED
  BY <1>1, <1>2, <1>3, <1>4, <1>5, <1>6, <1>7 DEF LogNext

\* The types, and where the last entry of every byte is.
THEOREM LogInvariance == LogSpec => [](LogTypeOK /\ LogInv)
<1>1. LogInit => LogInv
  BY LogInitInv
<1>2. LogInv /\ [LogNext]_logVars => LogInv'
  BY LogNextInv
<1>3. LogInv => LogTypeOK /\ LogInv
  BY DEF LogInv
<1> QED
  BY <1>1, <1>2, <1>3, PTL DEF LogSpec

\* Until a power failure finds an entry behind an empty cell every byte of
\* the log reads as it was set last.
THEOREM LogRetained == LogSpec => []RetainedInOrder
<1>1. LogInv => RetainedInOrder
  BY DEF LogInv, RetainedInOrder, ReadsAsSet
<1> QED
  BY <1>1, LogInvariance, PTL

=============================================================================
