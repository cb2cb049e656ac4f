-------------------------- MODULE ByteStufferProofs --------------------------
(***************************************************************************)
(* Proofs about ByteStuffer, for bytes and a buffer of any size and any   *)
(* frames: the buffer is not overrun, a zero puts the receiver in step,   *)
(* and an intact frame is handed on byte by byte.  The blocks of a frame  *)
(* are a recursive function; that there is one is shown here, by going    *)
(* back from the end of the frame.                                         *)
(***************************************************************************)
EXTENDS ByteStuffer, SequenceTheorems, WellFoundedInduction, TLAPS

-----------------------------------------------------------------------------
(* The blocks of a frame.                                                  *)

LEMMA LeastNat ==
  ASSUME NEW T, T \subseteq Nat, T # {}
  PROVE  \E t \in T : \A u \in T : t <= u
<1>1. PICK t \in T : \A u \in T : ~(<<u, t>> \in OpToRel(<, Nat))
  BY NatLessThanWellFounded, WFMin, Zenon
<1>2. ASSUME NEW u \in T PROVE t <= u
  <2>1. u \in Nat /\ t \in Nat
    OBVIOUS
  <2>2. ~(u < t)
    BY <1>1, <2>1 DEF OpToRel
  <2> QED
    BY <2>1, <2>2
<1> QED
  BY <1>2

\* A block ends behind its start, within the frame and a byte, and what is
\* between is not zero.
LEMMA BlockEndIs ==
  ASSUME NEW f \in Seq(Bytes), NEW s \in 1 .. Len(f) + 1
  PROVE  LET e == BlockEnd(f, s)
         IN  /\ e \in s .. Len(f) + 1
             /\ e - s + 1 <= MaxByte
             /\ e <= Len(f) /\ e - s + 1 # MaxByte => f[e] = 0
             /\ \A i \in s .. e - 1 : i <= Len(f) /\ f[i] # 0
<1> DEFINE E == {i \in s .. Len(f) + 1 : i > Len(f) \/ i - s + 1 = MaxByte \/ f[i] = 0}
           e == BlockEnd(f, s)
<1>1. Len(f) \in Nat /\ MaxByte \in Nat /\ MaxByte > 1
  BY StufferAssumption
<1>2. E \subseteq Nat /\ Len(f) + 1 \in E
  BY <1>1
<1>3. \E t \in E : \A u \in E : t <= u
  BY <1>2, LeastNat
<1>4. e \in E /\ \A u \in E : e <= u
  BY <1>3 DEF BlockEnd, Min
<1> HIDE DEF e
<1>5. e - s + 1 <= MaxByte
  <2> SUFFICES ASSUME e - s + 1 > MaxByte PROVE FALSE
    BY <1>1, <1>4
  <2> DEFINE i == s + MaxByte - 1
  <2>1. i \in s .. Len(f) + 1 /\ i - s + 1 = MaxByte /\ i < e
    BY <1>1, <1>4
  <2>2. i \in E
    BY <2>1
  <2>3. e <= i
    BY <2>2, <1>4
  <2> QED
    BY <2>1, <2>3, <1>1, <1>4
<1>6. ASSUME NEW i \in s .. e - 1 PROVE i <= Len(f) /\ f[i] # 0
  <2>1. i \in s .. Len(f) + 1 /\ i < e
    BY <1>1, <1>4
  <2> QED
    BY <2>1, <1>1, <1>4
<1> QED
  BY <1>1, <1>4, <1>5, <1>6 DEF e

LEMMA SendBlockIs ==
  ASSUME NEW f \in Seq(Bytes), NEW s \in 1 .. Len(f) + 1
  PROVE  LET e == BlockEnd(f, s)
         IN  /\ SendBlock(f, s, e) = <<e - s + 1>> \o SubSeq(f, s, e - 1)
             /\ SendBlock(f, s, e) \in Seq(Bytes)
             /\ SubSeq(f, s, e - 1) \in Seq(Bytes)
             /\ e - s + 1 \in Bytes \ {0}
<1> DEFINE e == BlockEnd(f, s)
<1>1. Len(f) \in Nat /\ MaxByte \in Nat /\ MaxByte > 1
  BY StufferAssumption
<1>2. e \in s .. Len(f) + 1 /\ e - s + 1 <= MaxByte
  BY BlockEndIs
<1> HIDE DEF e
<1>3. e - s + 1 \in Bytes \ {0} /\ (e - s + 1) % (MaxByte + 1) = e - s + 1
  <2>1. e - s + 1 \in 1 .. MaxByte /\ e - s + 1 \in Nat
    BY <1>1, <1>2
  <2>2. \A n \in Nat, m \in Nat : n < m => n % m = n
    OBVIOUS
  <2> QED
    BY <2>1, <2>2, <1>1 DEF Bytes
<1>4. SubSeq(f, s, e - 1) \in Seq(Bytes)
  BY <1>1, <1>2
<1> QED
  BY <1>3, <1>4 DEF SendBlock, e

\* What the recursion makes of the blocks that follow: these are functions g.
BlocksFrom(f, g, s) ==
  LET e == BlockEnd(f, s)
  IN  SendBlock(f, s, e)
        \o IF e > Len(f) THEN <<0>>
           ELSE IF e - s + 1 = MaxByte THEN g[e]
           ELSE g[e + 1]

\* The recursion only looks at blocks behind the one it is at.
LEMMA BlocksFromLater ==
  ASSUME NEW f \in Seq(Bytes), NEW s \in 1 .. Len(f) + 1, NEW g, NEW h,
         \A t \in s + 1 .. Len(f) + 1 : g[t] = h[t] /\ g[t] \in Seq(Bytes)
  PROVE  BlocksFrom(f, g, s) = BlocksFrom(f, h, s) /\ BlocksFrom(f, g, s) \in Seq(Bytes)
<1> DEFINE e == BlockEnd(f, s)
           B == SendBlock(f, s, e)
<1>1. Len(f) \in Nat /\ MaxByte \in Nat /\ MaxByte > 1 /\ 0 \in Bytes
  BY StufferAssumption DEF Bytes
<1>2. e \in s .. Len(f) + 1 /\ B \in Seq(Bytes)
  BY BlockEndIs, SendBlockIs
<1> HIDE DEF B, e
<1>3. CASE e > Len(f)
  <2>1. BlocksFrom(f, g, s) = B \o <<0>> /\ BlocksFrom(f, h, s) = B \o <<0>>
    BY <1>3 DEF BlocksFrom, B, e
  <2> QED
    BY <2>1, <1>1, <1>2
<1>4. CASE e <= Len(f) /\ e - s + 1 = MaxByte
  <2>1. e \in s + 1 .. Len(f) + 1 /\ ~(e > Len(f))
    BY <1>1, <1>2, <1>4
  <2>2. BlocksFrom(f, g, s) = B \o g[e] /\ BlocksFrom(f, h, s) = B \o h[e]
    BY <2>1, <1>4 DEF BlocksFrom, B, e
  <2>3. g[e] = h[e] /\ g[e] \in Seq(Bytes)
    BY <2>1
  <2> QED
    BY <2>2, <2>3, <1>2
<1>5. CASE e <= Len(f) /\ e - s + 1 # MaxByte
  <2>1. e + 1 \in s + 1 .. Len(f) + 1 /\ ~(e > Len(f))
    BY <1>1, <1>2, <1>5
  <2>2. BlocksFrom(f, g, s) = B \o g[e + 1] /\ BlocksFrom(f, h, s) = B \o h[e + 1]
    BY <2>1, <1>5 DEF BlocksFrom, B, e
  <2>3. g[e + 1] = h[e + 1] /\ g[e + 1] \in Seq(Bytes)
    BY <2>1
  <2> QED
    BY <2>2, <2>3, <1>2
<1> QED
  BY <1>1, <1>2, <1>3, <1>4, <1>5

\* The recursion has a solution, built from the last block to the first.
LEMMA BlocksExist ==
  ASSUME NEW f \in Seq(Bytes)
  PROVE  \E g \in [1 .. Len(f) + 1 -> Seq(Bytes)] :
           g = [s \in 1 .. Len(f) + 1 |-> BlocksFrom(f, g, s)]
<1> DEFINE S == 1 .. Len(f) + 1
           Solves(g, k) == \A s \in S : s > k => g[s] = BlocksFrom(f, g, s)
           Solved == {k \in 0 .. Len(f) + 1 : \E g \in [S -> Seq(Bytes)] : Solves(g, k)}
<1>1. Len(f) \in Nat
  OBVIOUS
<1>2. Len(f) + 1 \in Solved
  <2>1. [s \in S |-> << >>] \in [S -> Seq(Bytes)]
    OBVIOUS
  <2>2. \A g : Solves(g, Len(f) + 1)
    BY <1>1
  <2>3. \E g \in [S -> Seq(Bytes)] : Solves(g, Len(f) + 1)
    BY <2>1, <2>2
  <2>4. Len(f) + 1 \in 0 .. Len(f) + 1
    BY <1>1
  <2> HIDE DEF Solves, S
  <2> QED
    BY <2>3, <2>4
<1>3. PICK k \in Solved : \A j \in Solved : k <= j
  <2>1. \A j \in Solved : j \in 0 .. Len(f) + 1
    OBVIOUS
  <2> HIDE DEF Solved
  <2>2. Solved \subseteq Nat /\ Solved # {}
    BY <2>1, <1>1, <1>2
  <2> QED
    BY <2>2, LeastNat
<1>4. PICK g \in [S -> Seq(Bytes)] : Solves(g, k)
  OBVIOUS
<1>5. k = 0
  <2> SUFFICES ASSUME k # 0 PROVE FALSE
    OBVIOUS
  <2> DEFINE h == [g EXCEPT ![k] = BlocksFrom(f, g, k)]
  <2>1. k \in S /\ k - 1 \in 0 .. Len(f) + 1
    BY <1>1
  <2>2. BlocksFrom(f, g, k) \in Seq(Bytes)
    <3>1. \A t \in k + 1 .. Len(f) + 1 : g[t] = g[t] /\ g[t] \in Seq(Bytes)
      BY <2>1, <1>1
    <3> QED
      BY <2>1, <3>1, BlocksFromLater
  <2>3. h \in [S -> Seq(Bytes)] /\ \A t \in S : t # k => h[t] = g[t]
    BY <2>2
  <2>4. h[k] = BlocksFrom(f, g, k)
    BY <2>1
  <2> HIDE DEF h
  <2>5. ASSUME NEW s \in S, s > k - 1 PROVE h[s] = BlocksFrom(f, h, s)
    <3>1. \A t \in s + 1 .. Len(f) + 1 : g[t] = h[t] /\ g[t] \in Seq(Bytes)
      BY <2>1, <2>3, <2>5, <1>1
    <3>2. BlocksFrom(f, g, s) = BlocksFrom(f, h, s)
      BY <3>1, BlocksFromLater
    <3>3. CASE s = k
      BY <3>2, <3>3, <2>4
    <3>4. CASE s > k
      <4>1. h[s] = g[s] /\ g[s] = BlocksFrom(f, g, s)
        BY <3>4, <2>3, <1>4, <2>1
      <4> QED
        BY <4>1, <3>2
    <3> QED
      BY <2>1, <2>5, <3>3, <3>4
  <2>6. Solves(h, k - 1)
    BY <2>5
  <2> HIDE DEF Solves
  <2>7. k - 1 \in Solved
    BY <2>1, <2>3, <2>6
  <2> QED
    BY <2>7, <2>1, <1>3
<1>6. \A s \in S : g[s] = BlocksFrom(f, g, s)
  BY <1>4, <1>5
<1>7. g = [s \in S |-> BlocksFrom(f, g, s)]
  BY <1>6
<1> QED
  BY <1>7

LEMMA BlocksAre ==
  ASSUME NEW f \in Seq(Bytes)
  PROVE  /\ Blocks(f) \in [1 .. Len(f) + 1 -> Seq(Bytes)]
         /\ \A s \in 1 .. Len(f) + 1 : Blocks(f)[s] = BlocksFrom(f, Blocks(f), s)
<1> DEFINE S == 1 .. Len(f) + 1
           b == Blocks(f)
<1>1. b = [s \in S |-> BlocksFrom(f, b, s)]
  <2>1. \E g : g = [s \in S |-> BlocksFrom(f, g, s)]
    BY BlocksExist
  <2> QED
    BY <2>1, Zenon DEF Blocks, BlocksFrom
<1> HIDE DEF b
<1>2. \A s \in S : b[s] = BlocksFrom(f, b, s)
  BY <1>1
<1>3. ASSUME \E s \in S : b[s] \notin Seq(Bytes) PROVE FALSE
  <2> DEFINE T == {n \in 0 .. Len(f) : b[Len(f) + 1 - n] \notin Seq(Bytes)}
  <2>1. Len(f) \in Nat /\ \A n \in T : n \in 0 .. Len(f)
    OBVIOUS
  <2>2. T # {}
    <3>1. PICK s \in S : b[s] \notin Seq(Bytes)
      BY <1>3
    <3>2. Len(f) + 1 - s \in 0 .. Len(f) /\ Len(f) + 1 - (Len(f) + 1 - s) = s
      BY <2>1
    <3> QED
      BY <3>1, <3>2
  <2>3. PICK n \in T : \A m \in T : n <= m
    <3> HIDE DEF T
    <3>1. T \subseteq Nat
      BY <2>1
    <3> QED
      BY <3>1, <2>2, LeastNat
  <2> DEFINE s == Len(f) + 1 - n
  <2>4. s \in S /\ b[s] \notin Seq(Bytes)
    BY <2>1
  <2>5. ASSUME NEW t \in s + 1 .. Len(f) + 1 PROVE b[t] = b[t] /\ b[t] \in Seq(Bytes)
    <3> DEFINE m == Len(f) + 1 - t
    <3>1. m \in 0 .. Len(f) /\ m < n /\ Len(f) + 1 - m = t
      BY <2>1
    <3>2. m \notin T
      BY <3>1, <2>1, <2>3
    <3> QED
      BY <3>1, <3>2
  <2> HIDE DEF s
  <2>6. BlocksFrom(f, b, s) \in Seq(Bytes)
    BY <2>4, <2>5, BlocksFromLater
  <2> QED
    BY <2>4, <2>6, <1>2
<1>4. b \in [S -> Seq(Bytes)]
  BY <1>1, <1>3
<1> QED
  BY <1>2, <1>4 DEF b

\* A block is its count, its bytes and what follows it.
LEMMA BlockOpens ==
  ASSUME NEW f \in Seq(Bytes), NEW s \in 1 .. Len(f) + 1
  PROVE  LET e == BlockEnd(f, s)
         IN  /\ Blocks(f)[s] = <<e - s + 1>> \o (SubSeq(f, s, e - 1) \o AfterBlock(f, s))
             /\ AfterBlock(f, s) \in Seq(Bytes)
<1> DEFINE e == BlockEnd(f, s)
           A == AfterBlock(f, s)
<1>1. Len(f) \in Nat /\ MaxByte \in Nat /\ MaxByte > 1 /\ 0 \in Bytes
  BY StufferAssumption DEF Bytes
<1>2. e \in s .. Len(f) + 1
  BY BlockEndIs
<1>3. /\ SendBlock(f, s, e) = <<e - s + 1>> \o SubSeq(f, s, e - 1)
      /\ SubSeq(f, s, e - 1) \in Seq(Bytes) /\ e - s + 1 \in Bytes
  BY SendBlockIs
<1>4. /\ Blocks(f) \in [1 .. Len(f) + 1 -> Seq(Bytes)]
      /\ Blocks(f)[s] = BlocksFrom(f, Blocks(f), s)
  BY BlocksAre
<1>5. Blocks(f)[s] = SendBlock(f, s, e) \o A
  BY <1>4 DEF BlocksFrom, AfterBlock
<1> HIDE DEF e
<1>6. A \in Seq(Bytes)
  <2>1. CASE e > Len(f)
    BY <2>1, <1>1 DEF AfterBlock, e
  <2>2. CASE e <= Len(f)
    <3>1. e \in 1 .. Len(f) + 1 /\ e + 1 \in 1 .. Len(f) + 1 /\ ~(e > Len(f))
      BY <2>2, <1>1, <1>2
    <3>2. A = IF e - s + 1 = MaxByte THEN Blocks(f)[e] ELSE Blocks(f)[e + 1]
      BY <3>1 DEF AfterBlock, e
    <3> QED
      BY <3>1, <3>2, <1>4
  <2> QED
    BY <2>1, <2>2, <1>1, <1>2
<1> HIDE DEF A
<1>7. /\ <<e - s + 1>> \in Seq(Bytes)
      /\ Blocks(f)[s] = (<<e - s + 1>> \o SubSeq(f, s, e - 1)) \o A
  BY <1>3, <1>5
<1>8. Blocks(f)[s] = <<e - s + 1>> \o (SubSeq(f, s, e - 1) \o A)
  BY <1>3, <1>6, <1>7, ConcatAssociative
<1> QED
  BY <1>6, <1>8 DEF e, A

\* The first byte of a sequence that begins with it.
LEMMA HeadAndTail ==
  ASSUME NEW b \in Bytes, NEW t \in Seq(Bytes)
  PROVE  /\ <<b>> \o t # << >> /\ Head(<<b>> \o t) = b /\ Tail(<<b>> \o t) = t
         /\ Len(<<b>> \o t) = Len(t) + 1
<1> DEFINE c == <<b>> \o t
<1>1. /\ c \in Seq(Bytes) /\ Len(c) = Len(t) + 1 /\ Len(t) \in Nat /\ c[1] = b
      /\ \A i \in 1 .. Len(t) : c[i + 1] = t[i]
  OBVIOUS
<1> HIDE DEF c
<1>2. Tail(c) \in Seq(Bytes) /\ Len(Tail(c)) = Len(t) /\ \A i \in 1 .. Len(t) : Tail(c)[i] = t[i]
  BY <1>1
<1>3. Tail(c) = t
  BY <1>2, SeqEqual
<1> QED
  BY <1>1, <1>3 DEF c

\* No block and nothing that follows one is empty.
LEMMA BlockNotEmpty ==
  ASSUME NEW f \in Seq(Bytes), NEW s \in 1 .. Len(f) + 1
  PROVE  Blocks(f)[s] # << >>
<1> DEFINE e == BlockEnd(f, s)
           t == SubSeq(f, s, e - 1) \o AfterBlock(f, s)
<1>1. /\ Blocks(f)[s] = <<e - s + 1>> \o t /\ AfterBlock(f, s) \in Seq(Bytes)
      /\ SubSeq(f, s, e - 1) \in Seq(Bytes) /\ e - s + 1 \in Bytes
  BY BlockOpens, SendBlockIs
<1>2. t \in Seq(Bytes)
  BY <1>1
<1> HIDE DEF t
<1> QED
  BY <1>1, <1>2, HeadAndTail

LEMMA AfterBlockNotEmpty ==
  ASSUME NEW f \in Seq(Bytes), NEW s \in 1 .. Len(f) + 1
  PROVE  AfterBlock(f, s) # << >>
<1> DEFINE e == BlockEnd(f, s)
<1>1. Len(f) \in Nat /\ e \in s .. Len(f) + 1
  BY BlockEndIs
<1>2. CASE e > Len(f)
  BY <1>2 DEF AfterBlock
<1>3. CASE e <= Len(f)
  <2>1. AfterBlock(f, s) = IF e - s + 1 = MaxByte THEN Blocks(f)[e] ELSE Blocks(f)[e + 1]
    BY <1>1, <1>3 DEF AfterBlock
  <2>2. e \in 1 .. Len(f) + 1 /\ e + 1 \in 1 .. Len(f) + 1
    BY <1>1, <1>3
  <2> QED
    BY <2>1, <2>2, BlockNotEmpty
<1> QED
  BY <1>1, <1>2, <1>3

LEMMA StuffedIs ==
  ASSUME NEW f \in Seq(Bytes)
  PROVE  /\ Stuffed(f) \in Seq(Bytes)
         /\ f # << >> => Stuffed(f) = Blocks(f)[1] /\ 1 \in 1 .. Len(f) + 1
<1>1. Len(f) \in Nat /\ 1 \in 1 .. Len(f) + 1
  OBVIOUS
<1>2. Blocks(f) \in [1 .. Len(f) + 1 -> Seq(Bytes)]
  BY BlocksAre
<1> QED
  BY <1>1, <1>2 DEF Stuffed

-----------------------------------------------------------------------------
(* The receiver.                                                           *)

\* Whatever byte arrives.
LEMMA RecvByteKeeps ==
  ASSUME NEW r \in StufferState, Len(r.data) <= MAX_FRAME_SIZE, NEW b \in Bytes
  PROVE  /\ RecvByte(r, b) \in StufferState
         /\ Len(RecvByte(r, b).data) <= MAX_FRAME_SIZE
         /\ RecvByte(r, b).next_zero = 0 <=> b = 0
<1>1. /\ MaxByte \in Nat /\ MaxByte > 1 /\ MAX_FRAME_SIZE \in Nat /\ MAX_FRAME_SIZE > 0
      /\ 0 \in Bytes /\ \A c \in Bytes : c \in 0 .. MaxByte
  BY StufferAssumption DEF Bytes
<1>2. /\ r.next_zero \in Bytes /\ r.next_zero \in Nat /\ r.long_frame \in BOOLEAN
      /\ r.data \in Seq(Bytes) /\ Len(r.data) \in Nat
  BY DEF StufferState, Bytes
<1>3. NewFrame(b) \in StufferState /\ Len(NewFrame(b).data) = 0 /\ NewFrame(b).next_zero = b
  BY <1>1 DEF NewFrame, StufferState
<1>4. CASE r.next_zero = 0
  BY <1>1, <1>3, <1>4 DEF RecvByte
<1>5. CASE r.next_zero # 0 /\ b = 0
  <2>1. CASE r.next_zero = 1
    <3>1. RecvByte(r, b) = [r EXCEPT !.next_zero = 0]
      BY <1>5, <2>1 DEF RecvByte
    <3> QED
      BY <3>1, <1>1, <1>2, <1>5 DEF StufferState
  <2>2. CASE r.next_zero > 1
    <3>1. RecvByte(r, b) = InitState
      BY <1>5, <2>2 DEF RecvByte
    <3> QED
      BY <3>1, <1>1, <1>5 DEF InitState, StufferState
  <2>3. r.next_zero = 1 \/ r.next_zero > 1
    BY <1>2, <1>5
  <2> QED
    BY <2>1, <2>2, <2>3
<1>6. CASE r.next_zero # 0 /\ b # 0
  <2>1. RecvByte(r, b) = Inside(r, b)
    BY <1>6 DEF RecvByte
  <2>2. CASE Len(r.data) = MAX_FRAME_SIZE
    BY <2>1, <2>2, <1>1, <1>3, <1>6 DEF Inside
  <2>3. CASE Len(r.data) # MAX_FRAME_SIZE /\ r.next_zero > 1
    <3>1. Inside(r, b) = [r EXCEPT !.next_zero = r.next_zero - 1, !.data = Append(r.data, b)]
      <4>1. ~(r.next_zero <= 1)
        BY <2>3, <1>1, <1>2
      <4> QED
        BY <4>1, <2>3 DEF Inside
    <3>2. /\ r.next_zero - 1 \in Bytes /\ r.next_zero - 1 # 0
          /\ Append(r.data, b) \in Seq(Bytes) /\ Len(Append(r.data, b)) <= MAX_FRAME_SIZE
      BY <2>3, <1>1, <1>2 DEF Bytes
    <3> QED
      BY <3>1, <3>2, <2>1, <1>2, <1>6 DEF StufferState
  <2>4. CASE Len(r.data) # MAX_FRAME_SIZE /\ r.next_zero <= 1 /\ r.long_frame
    <3>1. Inside(r, b) = [r EXCEPT !.next_zero = b, !.long_frame = b = MaxByte]
      BY <2>4, <1>1, <1>2 DEF Inside
    <3> QED
      BY <3>1, <2>1, <1>2, <1>6 DEF StufferState
  <2>5. CASE Len(r.data) # MAX_FRAME_SIZE /\ r.next_zero <= 1 /\ ~r.long_frame
    <3>1. Inside(r, b) = [r EXCEPT !.next_zero = b, !.data = Append(r.data, 0)]
      BY <2>5, <1>1, <1>2 DEF Inside
    <3>2. Append(r.data, 0) \in Seq(Bytes) /\ Len(Append(r.data, 0)) <= MAX_FRAME_SIZE
      BY <2>5, <1>1, <1>2
    <3> QED
      BY <3>1, <3>2, <2>1, <1>2, <1>6 DEF StufferState
  <2> QED
    BY <2>2, <2>3, <2>4, <2>5, <1>1, <1>2
<1> QED
  BY <1>4, <1>5, <1>6

-----------------------------------------------------------------------------
(* An intact frame.                                                        *)

\* The count of the first block opens the frame.
LEMMA FirstByte ==
  ASSUME NEW f \in Seq(Bytes), f # << >>, NEW r \in StufferState, r.next_zero = 0
  PROVE  LET l == Stuffed(f)
         IN  /\ l # << >> /\ Midway(RecvByte(r, Head(l)), Tail(l), f, 1, 1)
             /\ 1 \in 1 .. Len(f) + 1 /\ 1 \in 1 .. BlockEnd(f, 1)
<1> DEFINE l == Stuffed(f)
           e == BlockEnd(f, 1)
           t == SubSeq(f, 1, e - 1) \o AfterBlock(f, 1)
<1>1. /\ Len(f) \in Nat /\ 1 \in 1 .. Len(f) + 1 /\ l = Blocks(f)[1]
  BY StuffedIs
<1>2. /\ l = <<e - 1 + 1>> \o t /\ AfterBlock(f, 1) \in Seq(Bytes)
      /\ SubSeq(f, 1, e - 1) \in Seq(Bytes) /\ e - 1 + 1 \in Bytes
      /\ e \in 1 .. Len(f) + 1
  BY <1>1, BlockOpens, SendBlockIs, BlockEndIs
<1> HIDE DEF e, l
<1>3. e - 1 + 1 = e /\ t \in Seq(Bytes)
  BY <1>1, <1>2
<1> HIDE DEF t
<1>4. l # << >> /\ Head(l) = e /\ Tail(l) = t
  BY <1>2, <1>3, HeadAndTail
<1>5. RecvByte(r, e) = NewFrame(e)
  BY DEF RecvByte
<1>6. SubSeq(f, 1, 1 - 1) = << >> /\ e - 1 + 1 = e
  BY <1>2, <1>1
<1>7. Midway(NewFrame(e), t, f, 1, 1)
  BY <1>6 DEF Midway, NewFrame, t, e
<1>8. l # << >> /\ Midway(RecvByte(r, Head(l)), Tail(l), f, 1, 1)
  BY <1>4, <1>5, <1>7
<1>9. 1 \in 1 .. Len(f) + 1 /\ 1 \in 1 .. e
  BY <1>1, <1>2
<1> QED
  BY <1>8, <1>9 DEF l, e

\* A byte of a block is stored.
LEMMA ByteOfBlock ==
  ASSUME NEW f \in Seq(Bytes), Len(f) <= MAX_FRAME_SIZE, NEW r \in StufferState, NEW l,
         NEW s \in 1 .. Len(f) + 1, NEW i \in s .. BlockEnd(f, s) - 1, Midway(r, l, f, s, i)
  PROVE  Midway(RecvByte(r, Head(l)), Tail(l), f, s, i + 1)
<1> DEFINE e == BlockEnd(f, s)
           b == f[i]
           t == SubSeq(f, i + 1, e - 1) \o AfterBlock(f, s)
<1>1. /\ Len(f) \in Nat /\ e \in s .. Len(f) + 1 /\ i \in 1 .. Len(f) /\ i < e
      /\ b # 0 /\ b \in Bytes /\ MAX_FRAME_SIZE \in Nat
  BY BlockEndIs, StufferAssumption
<1>2. AfterBlock(f, s) \in Seq(Bytes)
  BY BlockOpens
<1>3. /\ r.next_zero = e - i + 1 /\ r.data = SubSeq(f, 1, i - 1)
      /\ e <= Len(f) => (r.long_frame <=> e - s + 1 = MaxByte)
      /\ l = SubSeq(f, i, e - 1) \o AfterBlock(f, s)
  BY DEF Midway
<1> HIDE DEF e, b
<1>4. SubSeq(f, i, e - 1) = <<b>> \o SubSeq(f, i + 1, e - 1)
  <2>1. SubSeq(f, i, e - 1) \in Seq(Bytes) /\ Len(SubSeq(f, i, e - 1)) = e - i
    BY <1>1
  <2>2. /\ <<b>> \o SubSeq(f, i + 1, e - 1) \in Seq(Bytes)
        /\ Len(<<b>> \o SubSeq(f, i + 1, e - 1)) = e - i
    BY <1>1
  <2>3. \A j \in 1 .. e - i : SubSeq(f, i, e - 1)[j] = (<<b>> \o SubSeq(f, i + 1, e - 1))[j]
    BY <1>1 DEF b
  <2> QED
    BY <2>1, <2>2, <2>3, SeqEqual
<1>5. l = <<b>> \o t /\ t \in Seq(Bytes)
  <2> DEFINE u == SubSeq(f, i + 1, e - 1)
             a == AfterBlock(f, s)
  <2>1. <<b>> \in Seq(Bytes) /\ u \in Seq(Bytes)
    BY <1>1
  <2>2. l = (<<b>> \o u) \o a /\ a \in Seq(Bytes)
    BY <1>2, <1>3, <1>4
  <2> HIDE DEF u, a
  <2>3. l = <<b>> \o (u \o a) /\ u \o a \in Seq(Bytes)
    BY <2>1, <2>2, ConcatAssociative
  <2> QED
    BY <2>3 DEF u, a
<1> HIDE DEF t
<1>6. Head(l) = b /\ Tail(l) = t
  BY <1>1, <1>5, HeadAndTail
<1>7. RecvByte(r, b) = [r EXCEPT !.next_zero = r.next_zero - 1, !.data = Append(r.data, b)]
  <2>1. RecvByte(r, b) = Inside(r, b)
    BY <1>1, <1>3 DEF RecvByte
  <2>2. Len(r.data) # MAX_FRAME_SIZE /\ r.next_zero > 1 /\ ~(r.next_zero <= 1)
    BY <1>1, <1>3
  <2>3. Inside(r, b) = [r EXCEPT !.next_zero = r.next_zero - 1, !.data = Append(r.data, b)]
    BY <2>2 DEF Inside
  <2> QED
    BY <2>1, <2>3
<1>8. Append(SubSeq(f, 1, i - 1), b) = SubSeq(f, 1, i + 1 - 1)
  BY <1>1 DEF b
<1>9. /\ RecvByte(r, b).next_zero = e - (i + 1) + 1
      /\ RecvByte(r, b).data = SubSeq(f, 1, i + 1 - 1)
      /\ RecvByte(r, b).long_frame = r.long_frame
  BY <1>1, <1>3, <1>7, <1>8 DEF StufferState
<1>10. Midway(RecvByte(r, b), t, f, s, i + 1)
  BY <1>3, <1>9 DEF Midway, e, t
<1> QED
  BY <1>6, <1>10

\* The end of a full block with more behind it: nothing is stored.
LEMMA EndOfFullBlock ==
  ASSUME NEW f \in Seq(Bytes), Len(f) <= MAX_FRAME_SIZE, NEW r \in StufferState, NEW l,
         NEW s \in 1 .. Len(f) + 1, Midway(r, l, f, s, BlockEnd(f, s)),
         BlockEnd(f, s) <= Len(f), BlockEnd(f, s) - s + 1 = MaxByte
  PROVE  LET t == BlockEnd(f, s)
         IN  /\ t \in 1 .. Len(f) + 1 /\ t \in t .. BlockEnd(f, t)
             /\ Midway(RecvByte(r, Head(l)), Tail(l), f, t, t)
<1> DEFINE t == BlockEnd(f, s)
           e == BlockEnd(f, t)
           b == e - t + 1
           u == SubSeq(f, t, e - 1) \o AfterBlock(f, t)
<1>1. Len(f) \in Nat /\ t \in 1 .. Len(f) /\ t \in 1 .. Len(f) + 1 /\ MAX_FRAME_SIZE \in Nat
  BY BlockEndIs, StufferAssumption
<1>2. SubSeq(f, t, t - 1) = << >> /\ AfterBlock(f, s) = Blocks(f)[t]
  BY <1>1 DEF AfterBlock
<1>3. /\ r.next_zero = 1 /\ r.data = SubSeq(f, 1, t - 1) /\ r.long_frame
      /\ l = SubSeq(f, t, t - 1) \o AfterBlock(f, s)
  BY <1>1 DEF Midway
<1>4. Blocks(f) \in [1 .. Len(f) + 1 -> Seq(Bytes)]
  BY BlocksAre
<1> HIDE DEF t
<1>5. l = Blocks(f)[t]
  BY <1>1, <1>2, <1>3, <1>4
<1>6. /\ Blocks(f)[t] = <<b>> \o u /\ AfterBlock(f, t) \in Seq(Bytes)
      /\ SubSeq(f, t, e - 1) \in Seq(Bytes) /\ b \in Bytes \ {0}
      /\ e \in t .. Len(f) + 1
  BY <1>1, BlockOpens, SendBlockIs, BlockEndIs
<1> HIDE DEF b, e
<1>7. u \in Seq(Bytes)
  BY <1>6
<1> HIDE DEF u
<1>8. Head(l) = b /\ Tail(l) = u
  BY <1>5, <1>6, <1>7, HeadAndTail
<1>9. RecvByte(r, b) = [r EXCEPT !.next_zero = b, !.long_frame = b = MaxByte]
  <2>1. RecvByte(r, b) = Inside(r, b)
    BY <1>3, <1>6 DEF RecvByte
  <2>2. Len(r.data) # MAX_FRAME_SIZE
    BY <1>1, <1>3
  <2>3. Inside(r, b) = [r EXCEPT !.next_zero = b, !.long_frame = b = MaxByte]
    <3>1. r.next_zero <= 1 /\ ~(r.next_zero > 1) /\ r.long_frame
      BY <1>3
    <3> QED
      BY <2>2, <3>1 DEF Inside
  <2> QED
    BY <2>1, <2>3
<1>10. /\ RecvByte(r, b).next_zero = b
       /\ RecvByte(r, b).data = SubSeq(f, 1, t - 1)
       /\ RecvByte(r, b).long_frame <=> b = MaxByte
  BY <1>3, <1>9 DEF StufferState
<1>11. Midway(RecvByte(r, b), u, f, t, t)
  BY <1>10 DEF Midway, b, e, u
<1>12. t \in t .. e
  BY <1>1, <1>6
<1>13. Midway(RecvByte(r, Head(l)), Tail(l), f, t, t)
  BY <1>8, <1>11
<1> QED
  BY <1>1, <1>12, <1>13 DEF t, e

\* The end of a block that stands for a zero.
LEMMA EndOfZeroBlock ==
  ASSUME NEW f \in Seq(Bytes), Len(f) <= MAX_FRAME_SIZE, ~FullBlockAfterZero(f),
         NEW r \in StufferState, NEW l,
         NEW s \in 1 .. Len(f) + 1, Midway(r, l, f, s, BlockEnd(f, s)),
         BlockEnd(f, s) <= Len(f), BlockEnd(f, s) - s + 1 # MaxByte
  PROVE  LET t == BlockEnd(f, s) + 1
         IN  /\ t \in 1 .. Len(f) + 1 /\ t \in t .. BlockEnd(f, t)
             /\ Midway(RecvByte(r, Head(l)), Tail(l), f, t, t)
<1> DEFINE z == BlockEnd(f, s)
           t == z + 1
           e == BlockEnd(f, t)
           b == e - t + 1
           u == SubSeq(f, t, e - 1) \o AfterBlock(f, t)
<1>1. /\ Len(f) \in Nat /\ z \in 1 .. Len(f) /\ t \in 1 .. Len(f) + 1 /\ f[z] = 0
      /\ MAX_FRAME_SIZE \in Nat /\ MaxByte \in Nat
  <2>1. z \in s .. Len(f) + 1 /\ z <= Len(f) /\ f[z] = 0
    BY BlockEndIs
  <2> HIDE DEF z
  <2> QED
    BY <2>1, StufferAssumption
<1>2. SubSeq(f, z, z - 1) = << >> /\ AfterBlock(f, s) = Blocks(f)[t]
  BY <1>1 DEF AfterBlock
<1>3. /\ r.next_zero = 1 /\ r.data = SubSeq(f, 1, z - 1) /\ ~r.long_frame
      /\ l = SubSeq(f, z, z - 1) \o AfterBlock(f, s)
  <2>1. /\ r.next_zero = z - z + 1 /\ r.data = SubSeq(f, 1, z - 1)
        /\ z <= Len(f) => (r.long_frame <=> z - s + 1 = MaxByte)
        /\ l = SubSeq(f, z, z - 1) \o AfterBlock(f, s)
    BY DEF Midway
  <2>2. z - s + 1 # MaxByte /\ z <= Len(f)
    OBVIOUS
  <2> HIDE DEF z
  <2> QED
    BY <2>1, <2>2, <1>1
<1>4. Blocks(f) \in [1 .. Len(f) + 1 -> Seq(Bytes)]
  BY BlocksAre
<1> HIDE DEF z
<1>5. l = Blocks(f)[t]
  BY <1>1, <1>2, <1>3, <1>4
<1>6. /\ Blocks(f)[t] = <<b>> \o u /\ AfterBlock(f, t) \in Seq(Bytes)
      /\ SubSeq(f, t, e - 1) \in Seq(Bytes) /\ b \in Bytes \ {0}
      /\ e \in t .. Len(f) + 1 /\ \A i \in t .. e - 1 : f[i] # 0
  BY <1>1, BlockOpens, SendBlockIs, BlockEndIs
<1>7. e <= Len(f) => b # MaxByte
  <2> SUFFICES ASSUME e <= Len(f), b = MaxByte PROVE FALSE
    OBVIOUS
  <2> HIDE DEF e
  <2>1. e = z + MaxByte
    BY <1>1, <1>6
  <2>2. \A j \in z + 1 .. z + MaxByte - 1 : f[j] # 0
    BY <2>1, <1>1, <1>6
  <2> QED
    BY <2>1, <2>2, <1>1 DEF FullBlockAfterZero
<1> HIDE DEF b, e
<1>8. u \in Seq(Bytes)
  BY <1>6
<1> HIDE DEF u
<1>9. Head(l) = b /\ Tail(l) = u
  BY <1>5, <1>6, <1>8, HeadAndTail
<1>10. RecvByte(r, b) = [r EXCEPT !.next_zero = b, !.data = Append(r.data, 0)]
  <2>1. RecvByte(r, b) = Inside(r, b)
    BY <1>3, <1>6 DEF RecvByte
  <2>2. Len(r.data) # MAX_FRAME_SIZE
    BY <1>1, <1>3
  <2>3. Inside(r, b) = [r EXCEPT !.next_zero = b, !.data = Append(r.data, 0)]
    <3>1. r.next_zero <= 1 /\ ~(r.next_zero > 1) /\ ~r.long_frame
      BY <1>3
    <3> QED
      BY <2>2, <3>1 DEF Inside
  <2> QED
    BY <2>1, <2>3
<1>11. Append(SubSeq(f, 1, z - 1), 0) = SubSeq(f, 1, t - 1)
  BY <1>1
<1>12. /\ RecvByte(r, b).next_zero = b
       /\ RecvByte(r, b).data = SubSeq(f, 1, t - 1)
       /\ ~RecvByte(r, b).long_frame
  BY <1>3, <1>10, <1>11 DEF StufferState
<1> HIDE DEF t
<1>13. Midway(RecvByte(r, b), u, f, t, t)
  BY <1>7, <1>12 DEF Midway, b, e, u
<1>14. t \in t .. e
  BY <1>1, <1>6
<1>15. Midway(RecvByte(r, Head(l)), Tail(l), f, t, t)
  BY <1>9, <1>13
<1> QED
  BY <1>1, <1>14, <1>15 DEF t, e, z

\* The end of the frame: the receiver has it, and the zero is next.
LEMMA EndOfFrame ==
  ASSUME NEW f \in Seq(Bytes), NEW r \in StufferState, NEW l,
         NEW s \in 1 .. Len(f) + 1, Midway(r, l, f, s, BlockEnd(f, s)),
         BlockEnd(f, s) > Len(f)
  PROVE  r.next_zero = 1 /\ r.data = f /\ l = <<0>>
<1> DEFINE e == BlockEnd(f, s)
<1>1. Len(f) \in Nat /\ e = Len(f) + 1
  BY BlockEndIs
<1>2. /\ r.next_zero = e - e + 1 /\ r.data = SubSeq(f, 1, e - 1)
      /\ l = SubSeq(f, e, e - 1) \o AfterBlock(f, s)
  BY DEF Midway
<1>3. AfterBlock(f, s) = <<0>>
  BY DEF AfterBlock
<1> HIDE DEF e
<1>4. l = <<0>>
  <2>1. SubSeq(f, e, e - 1) = << >> /\ << >> \o <<0>> = <<0>>
    BY <1>1
  <2> QED
    BY <2>1, <1>2, <1>3
<1>5. SubSeq(f, 1, e - 1) = f
  BY <1>1
<1>6. e - e + 1 = 1
  BY <1>1
<1> QED
  BY <1>2, <1>4, <1>5, <1>6, Zenon

-----------------------------------------------------------------------------
(* Every step.                                                             *)

LEMMA StufferInitInv == Init => IInv
<1> SUFFICES ASSUME Init
             PROVE  IInv
    OBVIOUS
<1>1. MAX_FRAME_SIZE \in Nat /\ 0 \in Bytes /\ << >> \in Seq(Bytes)
  BY StufferAssumption DEF Bytes
<1>2. InitState \in StufferState /\ InitState.next_zero = 0 /\ Len(InitState.data) = 0
  BY <1>1 DEF InitState, StufferState
<1>3. NoOverrun /\ InStep
  BY <1>1, <1>2 DEF Init, NoOverrun, InStep
<1>4. last \in Bytes /\ line \in Seq(Bytes) /\ intact = FALSE /\ frame = << >>
  BY <1>1 DEF Init
<1> QED
  BY <1>3, <1>4 DEF IInv

LEMMA ReceiveKeeps ==
  ASSUME NoOverrun, InStep, NEW b \in Bytes, Receive(b)
  PROVE  NoOverrun' /\ InStep' /\ last' \in Bytes
<1>1. rx' = RecvByte(rx, b) /\ last' = b
  BY DEF Receive
<1>2. rx \in StufferState /\ Len(rx.data) <= MAX_FRAME_SIZE
  BY DEF NoOverrun
<1>3. /\ RecvByte(rx, b) \in StufferState
      /\ Len(RecvByte(rx, b).data) <= MAX_FRAME_SIZE
      /\ RecvByte(rx, b).next_zero = 0 <=> b = 0
  BY <1>2, RecvByteKeeps
<1> QED
  BY <1>1, <1>3 DEF NoOverrun, InStep

LEMMA FrameIsBytes ==
  ASSUME IInv
  PROVE  frame \in Seq(Bytes) /\ Len(frame) \in Nat
<1>1. frame \in Checked \cup {<< >>}
  BY DEF IInv
<1>2. CASE frame \in Checked
  BY <1>2, StufferAssumption
<1>3. CASE frame = << >>
  BY <1>3
<1> QED
  BY <1>1, <1>2, <1>3

\* A step of an intact frame: the next state of the line, or its end.
LEMMA IntactStep ==
  ASSUME IInv, Deliverable(frame), intact, line # << >>, ByteArrives, intact'
  PROVE  \/ Arriving'
         \/ line = <<0>> /\ rx.next_zero = 1 /\ rx.data = frame
<1>1. PICK f \in Seq(Bytes) : f = frame
  BY FrameIsBytes
<1>2. frame' = f /\ line' = Tail(line) /\ rx' = RecvByte(rx, Head(line)) /\ line \in Seq(Bytes)
  BY <1>1 DEF ByteArrives, Receive, IInv
<1>3. rx \in StufferState /\ Len(f) <= MAX_FRAME_SIZE /\ Len(f) \in Nat /\ f # << >>
      /\ ~FullBlockAfterZero(f)
  BY <1>1, StufferAssumption DEF IInv, NoOverrun, Deliverable
<1>4. Len(line') = Len(line) - 1 /\ Len(line) \in Nat /\ Len(Stuffed(f)) \in Nat
  BY <1>2, StuffedIs
<1>5. CASE AtFirstByte
  <2>1. line = Stuffed(f) /\ rx.next_zero = 0
    BY <1>1, <1>5 DEF AtFirstByte, ByteArrives, IInv, InStep
  <2>2. /\ Midway(rx', line', f, 1, 1)
        /\ 1 \in 1 .. Len(f) + 1 /\ 1 \in 1 .. BlockEnd(f, 1)
    BY <2>1, <1>2, <1>3, FirstByte
  <2>3. Len(line') < Len(Stuffed(f))
    BY <2>1, <1>4
  <2> QED
    BY <2>2, <2>3, <1>2 DEF Arriving
<1>6. CASE ~AtFirstByte
  <2>0. PICK s \in 1 .. Len(f) + 1 :
          /\ Len(line) < Len(Stuffed(f))
          /\ \E i \in s .. BlockEnd(f, s) : Midway(rx, line, f, s, i)
    BY <1>1, <1>6 DEF IInv, Arriving
  <2>1. PICK i \in s .. BlockEnd(f, s) : Len(line) < Len(Stuffed(f)) /\ Midway(rx, line, f, s, i)
    BY <2>0
  <2>2. Len(line') < Len(Stuffed(f))
    BY <2>1, <1>4
  <2>3. BlockEnd(f, s) \in s .. Len(f) + 1
    BY BlockEndIs
  <2>4. ASSUME NEW t \in 1 .. Len(f) + 1, NEW j \in t .. BlockEnd(f, t), Midway(rx', line', f, t, j)
        PROVE  Arriving'
    BY <2>2, <2>4, <1>2 DEF Arriving
  <2>5. CASE i # BlockEnd(f, s)
    <3>1. i \in s .. BlockEnd(f, s) - 1 /\ i + 1 \in s .. BlockEnd(f, s)
      BY <2>3, <2>5
    <3>2. Midway(rx', line', f, s, i + 1)
      BY <3>1, <2>1, <1>2, <1>3, ByteOfBlock
    <3> QED
      BY <3>1, <3>2, <2>4
  <2>6. CASE i = BlockEnd(f, s) /\ BlockEnd(f, s) > Len(f)
    BY <2>1, <2>6, <1>1, <1>3, EndOfFrame
  <2>7. CASE i = BlockEnd(f, s) /\ BlockEnd(f, s) <= Len(f) /\ BlockEnd(f, s) - s + 1 = MaxByte
    BY <2>1, <2>4, <2>7, <1>2, <1>3, EndOfFullBlock
  <2>8. CASE i = BlockEnd(f, s) /\ BlockEnd(f, s) <= Len(f) /\ BlockEnd(f, s) - s + 1 # MaxByte
    BY <2>1, <2>4, <2>8, <1>2, <1>3, EndOfZeroBlock
  <2> QED
    BY <2>3, <2>5, <2>6, <2>7, <2>8, <1>3
<1> QED
  BY <1>5, <1>6

LEMMA SendFrameInv ==
  ASSUME IInv, NEW f \in Checked, SendFrame(f)
  PROVE  IInv'
<1>1. f \in Seq(Bytes)
  BY StufferAssumption
<1>2. line' = Stuffed(f) /\ frame' = f /\ intact' = TRUE /\ rx' = rx /\ last' = last
  BY DEF SendFrame
<1>3. line' \in Seq(Bytes)
  BY <1>1, <1>2, StuffedIs
<1>4. Arriving'
  BY <1>2 DEF Arriving, AtFirstByte
<1>5. NoOverrun' /\ InStep' /\ last' \in Bytes
  BY <1>2 DEF IInv, NoOverrun, InStep
<1> QED
  BY <1>2, <1>3, <1>4, <1>5 DEF IInv

LEMMA ByteArrivesInv ==
  ASSUME IInv, ByteArrives
  PROVE  IInv'
<1>1. line \in Seq(Bytes) /\ line # << >> /\ line' = Tail(line) /\ frame' = frame
  BY DEF IInv, ByteArrives
<1>2. Head(line) \in Bytes /\ line' \in Seq(Bytes)
  BY <1>1
<1>3. NoOverrun' /\ InStep' /\ last' \in Bytes
  BY <1>2, ReceiveKeeps DEF IInv, ByteArrives
<1>4. intact' = (intact /\ (AtFirstByte => last = 0)) /\ intact' \in BOOLEAN
  BY DEF IInv, ByteArrives
<1>5. frame' \in Checked \cup {<< >>}
  BY <1>1 DEF IInv
<1>6. ASSUME intact', line' # << >>, Deliverable(frame)' PROVE Arriving'
  <2>1. Deliverable(frame)
    BY <1>1, <1>6
  <2>2. CASE line = <<0>>
    BY <2>2, <1>1, <1>6
  <2>3. CASE line # <<0>>
    BY <2>1, <2>3, <1>1, <1>4, <1>6, IntactStep
  <2> QED
    BY <2>2, <2>3
<1> QED
  BY <1>2, <1>3, <1>4, <1>5, <1>6 DEF IInv

LEMMA DamageInv ==
  ASSUME IInv, NEW b \in Bytes, ByteLost \/ ByteAltered(b) \/ ByteInvented(b)
  PROVE  IInv'
<1>1. line \in Seq(Bytes) /\ intact \in BOOLEAN /\ frame \in Checked \cup {<< >>} /\ last \in Bytes
  BY DEF IInv
<1>2. CASE ByteLost
  <2>1. /\ line # << >> /\ line' = Tail(line) /\ intact' = FALSE
        /\ frame' = frame /\ rx' = rx /\ last' = last
    BY <1>2 DEF ByteLost, Damage
  <2>2. NoOverrun' /\ InStep'
    BY <2>1 DEF IInv, NoOverrun, InStep
  <2>3. line' \in Seq(Bytes) /\ last' \in Bytes /\ frame' \in Checked \cup {<< >>}
    BY <1>1, <2>1
  <2> QED
    BY <2>1, <2>2, <2>3 DEF IInv
<1>3. CASE ByteAltered(b)
  <2>1. line # << >> /\ line' = Tail(line) /\ intact' = FALSE /\ frame' = frame
    BY <1>3 DEF ByteAltered, Damage
  <2>2. NoOverrun' /\ InStep' /\ last' \in Bytes
    BY <1>3, ReceiveKeeps DEF IInv, ByteAltered
  <2>3. line' \in Seq(Bytes) /\ frame' \in Checked \cup {<< >>}
    BY <1>1, <2>1
  <2> QED
    BY <2>1, <2>2, <2>3 DEF IInv
<1>4. CASE ByteInvented(b)
  <2>1. line' = line /\ intact' = (intact /\ AtFirstByte) /\ frame' = frame
    BY <1>4 DEF ByteInvented, Damage
  <2>2. NoOverrun' /\ InStep' /\ last' \in Bytes
    BY <1>4, ReceiveKeeps DEF IInv, ByteInvented
  <2>3. intact' => Arriving'
    BY <2>1 DEF Arriving, AtFirstByte
  <2> QED
    BY <1>1, <2>1, <2>2, <2>3 DEF IInv
<1> QED
  BY <1>2, <1>3, <1>4

LEMMA StufferNextInv == IInv /\ [Next]_vars => IInv'
<1> SUFFICES ASSUME IInv, [Next]_vars
             PROVE  IInv'
    OBVIOUS
<1>1. 0 \in Bytes
  BY StufferAssumption DEF Bytes
<1>2. CASE \E f \in Checked : SendFrame(f)
  BY <1>2, SendFrameInv
<1>3. CASE ByteArrives
  BY <1>3, ByteArrivesInv
<1>4. CASE ByteLost
  BY <1>1, <1>4, DamageInv
<1>5. CASE \E b \in Bytes : ByteAltered(b) \/ ByteInvented(b)
  BY <1>5, DamageInv
<1>6. CASE UNCHANGED vars
  BY <1>6 DEF vars, IInv, NoOverrun, InStep, Deliverable, FullBlockAfterZero, Arriving,
              AtFirstByte, Midway
<1> QED
  BY <1>2, <1>3, <1>4, <1>5, <1>6 DEF Next

\* Nothing that arrives is stored behind the buffer of the receiver (NoOverrun).
THEOREM NothingBehindBuffer == Spec => []NoOverrun
<1>1. IInv => NoOverrun
  BY DEF IInv
<1> QED
  BY <1>1, StufferInitInv, StufferNextInv, PTL DEF Spec

\* The receiver takes a byte for the first of a frame exactly after a zero, so
\* that any zero puts it in step again (InStep).
THEOREM ZeroSynchronizes == Spec => []InStep
<1>1. IInv => InStep
  BY DEF IInv
<1> QED
  BY <1>1, StufferInitInv, StufferNextInv, PTL DEF Spec

\* A frame that fits, and is none recv_byte cannot take, is handed on byte by
\* byte when it arrives intact, whatever came before it.
THEOREM IntactFrames == Spec => OnlyDamageCosts
<1>1. IInv /\ [Next]_vars =>
        [intact /\ intact' /\ line # << >> /\ line' = << >> /\ Deliverable(frame)
         => received' = Append(received, frame)]_vars
  <2> SUFFICES ASSUME IInv, Next, intact, intact', line # << >>, line' = << >>, Deliverable(frame)
               PROVE  received' = Append(received, frame)
      OBVIOUS
  <2>1. ByteArrives
    BY DEF Next, SendFrame, ByteLost, ByteAltered, ByteInvented
  <2>2. ~Arriving'
    <3>1. PICK f \in Seq(Bytes) : f = frame /\ f # << >> /\ 1 \in 1 .. Len(f) + 1
      BY FrameIsBytes, StufferAssumption DEF Deliverable
    <3>2. Stuffed(f) # << >>
      BY <3>1, StuffedIs, BlockNotEmpty
    <3>3. \A s \in 1 .. Len(f) + 1 : \A i \in s .. BlockEnd(f, s) : ~Midway(rx', << >>, f, s, i)
      <4> SUFFICES ASSUME NEW s \in 1 .. Len(f) + 1, NEW i \in s .. BlockEnd(f, s),
                          Midway(rx', << >>, f, s, i)
                   PROVE  FALSE
          OBVIOUS
      <4> DEFINE e == BlockEnd(f, s)
                 u == SubSeq(f, i, e - 1)
                 a == AfterBlock(f, s)
      <4>1. a \in Seq(Bytes) /\ a # << >>
        BY BlockOpens, AfterBlockNotEmpty
      <4>2. Len(f) \in Nat /\ e \in s .. Len(f) + 1
        BY BlockEndIs
      <4>3. << >> = u \o a
        BY DEF Midway
      <4> HIDE DEF e, a
      <4>4. u \in Seq(Bytes)
        BY <4>2 DEF e
      <4> HIDE DEF u
      <4>5. Len(u) \in Nat /\ Len(a) \in Nat /\ Len(a) # 0 /\ Len(u \o a) = Len(u) + Len(a)
        BY <4>1, <4>4, EmptySeq
      <4> QED
        BY <4>3, <4>5
    <3> QED
      BY <2>1, <3>1, <3>2, <3>3 DEF Arriving, AtFirstByte, ByteArrives
  <2>3. line = <<0>> /\ rx.next_zero = 1 /\ rx.data = frame
    BY <2>1, <2>2, IntactStep
  <2>4. Accepts(rx, Head(line))
    BY <2>3, StufferAssumption DEF Accepts, Deliverable, IInv
  <2> QED
    BY <2>1, <2>3, <2>4 DEF ByteArrives, Receive
<1> QED
  BY <1>1, StufferInitInv, StufferNextInv, PTL DEF Spec, OnlyDamageCosts

=============================================================================
