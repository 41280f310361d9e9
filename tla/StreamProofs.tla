---------------------------- MODULE StreamProofs -----------------------------
(***************************************************************************)
(* Readers of lines that arrive in pieces, for any lines and any pieces:   *)
(* the replies of redis (RedisReply) and the lines of a device             *)
(* (WialonInput).                                                          *)
(*                                                                         *)
(* What a reader has before it, in its buffer and on the wire, is the end  *)
(* of a stream of whole lines (Framed).  The first LF of the buffer is     *)
(* therefore the end of the line that the buffer begins in (FirstLine), of *)
(* which the reader has the rest.  RedisReply always begins at the first   *)
(* byte of a line (Replying), WialonInput of a device that waits, too, and *)
(* of any other device in the middle of one (Reading).                     *)
(***************************************************************************)
EXTENDS RedisReply, WialonInput, SequenceTheorems, WellFoundedInduction, TLAPS

-----------------------------------------------------------------------------
(* Bytes and lines                                                           *)

Bytes == Nat \X Nat

\* Byte j of line k, whose text has len bytes.
ByteOf(k, j, len) == IF j <= len THEN <<k, j>> ELSE IF j = len + 1 THEN CR ELSE LF

\* Byte i of b is one of line k, which begins after the place p and ends at e.
In(b, i, k, p, e) ==
  p + 2 <= e /\ p < i /\ i <= e /\ b[i] = ByteOf(k, i - p, e - p - 2)

\* b is the end of a stream of the lines up to n, the first m of which have been read:
\* line k ends at the place E[k] of b, and the byte at place i belongs to line L[i].
Framed(b, m, n, E, L) ==
  /\ E \in [m..n -> Int] /\ E[m] <= 0 /\ E[n] = Len(b)
  /\ \A i, j \in m..n : i < j => E[i] + 2 <= E[j]
  /\ L \in [1..Len(b) -> m + 1..n]
  /\ \A i \in 1..Len(b) : In(b, i, L[i], E[L[i] - 1], E[L[i]])

\* A set of numbers has a least member.
LEMMA Least ==
  ASSUME NEW S \in SUBSET Nat, S # {}
  PROVE  \E i \in S : \A j \in S : i <= j
<1>1. PICK i \in S : \A j \in S : ~(<<j, i>> \in OpToRel(<, Nat))
  BY NatLessThanWellFounded, WFMin
<1>2. \A j \in S : ~(j < i)
  BY <1>1 DEF OpToRel
<1> QED
  BY <1>2

\* A bounded one has a greatest member.
LEMMA Greatest ==
  ASSUME NEW n \in Nat, NEW S \in SUBSET (1..n), S # {}
  PROVE  \E i \in S : \A j \in S : j <= i
<1> DEFINE T == {n - i : i \in S}
<1>1. T \in SUBSET Nat /\ T # {}
  <2>1. \A i \in S : i \in 1..n /\ n - i \in Nat
    OBVIOUS
  <2>2. T \in SUBSET Nat
    BY <2>1
  <2>3. PICK i \in S : TRUE
    OBVIOUS
  <2>4. n - i \in T
    BY <2>3
  <2> QED
    BY <2>2, <2>4
<1>2. PICK k \in T : \A j \in T : k <= j
  BY <1>1, Least
<1>3. PICK i \in S : k = n - i
  BY <1>2
<1>4. ASSUME NEW j \in S PROVE j <= i
  <2>1. n - j \in T
    OBVIOUS
  <2> QED
    BY <1>2, <1>3, <2>1
<1> QED
  BY <1>4

\* getline(): what comes before the first LF, and what comes behind it.
LEMMA LineIs ==
  ASSUME NEW b \in Seq(Bytes), NEW q \in 1..Len(b), b[q] = LF, \A i \in 1..q - 1 : b[i] # LF
  PROVE  /\ HasLF(b)
         /\ Line(b) = SubSeq(b, 1, q - 1) /\ Len(Line(b)) = q - 1 /\ Line(b) \in Seq(Bytes)
         /\ \A i \in 1..q - 1 : Line(b)[i] = b[i]
         /\ AfterLine(b) = SubSeq(b, q + 1, Len(b))
<1> DEFINE I == {i \in 1..Len(b) : b[i] = LF}
<1>1. q \in I /\ Len(b) \in Nat /\ \A i \in I : q <= i
  BY LenProperties
<1>2. Min(I) = q
  BY <1>1 DEF Min
<1>3. HasLF(b)
  BY DEF HasLF, Contains
<1>4. SelectInSeq(b, LAMBDA c : c = LF) = q
  BY <1>1, <1>2 DEF SelectInSeq
<1>5. Line(b) = SubSeq(b, 1, q - 1)
  BY <1>3, <1>4 DEF Line
<1>6. \A i \in 1..q - 1 : b[i] \in Bytes
  BY <1>1, ElementOfSeq
<1>7. /\ SubSeq(b, 1, q - 1) \in Seq(Bytes) /\ Len(SubSeq(b, 1, q - 1)) = q - 1
      /\ \A i \in 1..q - 1 : SubSeq(b, 1, q - 1)[i] = b[i]
  BY <1>1, <1>6, SubSeqProperties
<1> QED
  BY <1>1, <1>3, <1>5, <1>7 DEF AfterLine

\* getline() at the end of the stream: what is there.
LEMMA NoLineIs ==
  ASSUME NEW b \in Seq(Bytes), ~HasLF(b)
  PROVE  Line(b) = b /\ AfterLine(b) = <<>> /\ Unfinished(b) = b
<1>1. Line(b) = b
  BY DEF Line
<1>2. AfterLine(b) = <<>>
  BY <1>1, LenProperties, SubSeqEmpty DEF AfterLine
<1>3. SelectLastInSeq(b, LAMBDA c : c = LF) = 0
  BY DEF SelectLastInSeq, HasLF, Contains
<1>4. Unfinished(b) = SubSeq(b, 0 + 1, Len(b))
  BY <1>3 DEF Unfinished
<1> QED
  BY <1>1, <1>2, <1>4, SubSeqFull

\* A buffer that has an LF has a first one.
LEMMA FirstLF ==
  ASSUME NEW b \in Seq(Bytes), HasLF(b)
  PROVE  \E q \in 1..Len(b) : b[q] = LF /\ \A i \in 1..q - 1 : b[i] # LF
<1> DEFINE I == {i \in 1..Len(b) : b[i] = LF}
<1>1. I \in SUBSET Nat /\ I # {} /\ Len(b) \in Nat
  BY LenProperties DEF HasLF, Contains
<1>2. PICK q \in I : \A i \in I : q <= i
  BY <1>1, Least
<1> QED
  BY <1>1, <1>2

-----------------------------------------------------------------------------
(* The end of a stream of lines                                              *)

\* The lines end one after the other.
LEMMA InOrder ==
  ASSUME NEW b \in Seq(Bytes), NEW m \in Nat, NEW n \in Nat, NEW E, NEW L,
         Framed(b, m, n, E, L), NEW i \in m..n, NEW j \in m..n, i <= j
  PROVE  E[i] \in Int /\ E[j] \in Int /\ E[i] <= E[j]
<1>1. E[i] \in Int /\ E[j] \in Int
  BY DEF Framed
<1>2. CASE i = j
  BY <1>1, <1>2
<1>3. CASE i < j
  BY <1>1, <1>3 DEF Framed
<1> QED
  BY <1>1, <1>2, <1>3

\* A byte between the ends of two lines belongs to the second.
LEMMA LineOf ==
  ASSUME NEW b \in Seq(Bytes), NEW m \in Nat, NEW n \in Nat, NEW E, NEW L,
         Framed(b, m, n, E, L),
         NEW k \in m + 1..n, NEW i \in 1..Len(b), E[k - 1] < i, i <= E[k]
  PROVE  L[i] = k /\ In(b, i, k, E[k - 1], E[k])
<1>1. /\ Len(b) \in Nat /\ L[i] \in m + 1..n
      /\ In(b, i, L[i], E[L[i] - 1], E[L[i]])
  BY LenProperties DEF Framed
<1>2. E[k] \in Int /\ E[k - 1] \in Int /\ E[L[i]] \in Int /\ E[L[i] - 1] \in Int
  BY <1>1 DEF Framed
<1>3. E[L[i] - 1] < i /\ i <= E[L[i]]
  BY <1>1 DEF In
<1>4. ~(L[i] < k)
  <2>1. SUFFICES ASSUME L[i] < k PROVE FALSE
    OBVIOUS
  <2>2. L[i] \in m..n /\ k - 1 \in m..n /\ L[i] <= k - 1
    BY <1>1, <2>1
  <2>3. E[L[i]] <= E[k - 1]
    BY <2>2, InOrder
  <2> QED
    BY <1>1, <1>2, <1>3, <2>3
<1>5. ~(k < L[i])
  <2>1. SUFFICES ASSUME k < L[i] PROVE FALSE
    OBVIOUS
  <2>2. L[i] - 1 \in m..n /\ k \in m..n /\ k <= L[i] - 1
    BY <1>1, <2>1
  <2>3. E[k] <= E[L[i] - 1]
    BY <2>2, InOrder
  <2> QED
    BY <1>1, <1>2, <1>3, <2>3
<1>6. L[i] = k
  BY <1>1, <1>4, <1>5
<1> QED
  BY <1>1, <1>6

\* What a byte of a line is.
LEMMA ByteIs ==
  ASSUME NEW b, NEW k \in Nat \ {0}, NEW p \in Int, NEW e \in Int, NEW i \in Int,
         In(b, i, k, p, e)
  PROVE  /\ i = e <=> b[i] = LF
         /\ i = e - 1 => b[i] = CR
         /\ i < e - 1 => b[i] = <<k, i - p>> /\ i - p \in Nat
<1>1. p + 2 <= e /\ p < i /\ i <= e /\ b[i] = ByteOf(k, i - p, e - p - 2)
  BY DEF In
<1>2. CASE i = e
  <2>1. ~(i - p <= e - p - 2) /\ i - p # e - p - 2 + 1
    BY <1>2
  <2>2. b[i] = LF
    BY <1>1, <2>1 DEF ByteOf
  <2> QED
    BY <1>2, <2>2
<1>3. CASE i = e - 1
  <2>1. ~(i - p <= e - p - 2) /\ i - p = e - p - 2 + 1
    BY <1>3
  <2>2. b[i] = CR
    BY <1>1, <2>1 DEF ByteOf
  <2> QED
    BY <1>3, <2>2 DEF CR, LF
<1>4. CASE i < e - 1
  <2>1. i - p <= e - p - 2 /\ i - p \in Nat
    BY <1>1, <1>4
  <2>2. b[i] = <<k, i - p>>
    BY <1>1, <2>1 DEF ByteOf
  <2>3. <<k, i - p>> # LF
    BY DEF LF
  <2> QED
    BY <1>4, <2>1, <2>2, <2>3
<1> QED
  BY <1>1, <1>2, <1>3, <1>4

\* The last byte of a line is its LF, and no other is one.
LEMMA EndsAreLF ==
  ASSUME NEW b \in Seq(Bytes), NEW m \in Nat, NEW n \in Nat, NEW E, NEW L,
         Framed(b, m, n, E, L), NEW i \in 1..Len(b)
  PROVE  /\ b[i] = LF <=> i = E[L[i]]
         /\ \A k \in m..n : E[k] = i => b[i] = LF
<1>1. /\ Len(b) \in Nat /\ L[i] \in m + 1..n
      /\ In(b, i, L[i], E[L[i] - 1], E[L[i]])
  BY LenProperties DEF Framed
<1>2. /\ L[i] \in Nat \ {0} /\ i \in Int /\ E[L[i] - 1] \in Int /\ E[L[i]] \in Int
  BY <1>1 DEF Framed
<1>3. b[i] = LF <=> i = E[L[i]]
  BY <1>1, <1>2, ByteIs
<1>4. ASSUME NEW k \in m..n, E[k] = i PROVE b[i] = LF
  <2>1. k # m
    BY <1>4 DEF Framed
  <2>2. k \in m + 1..n /\ k - 1 \in m..n
    BY <2>1
  <2>3. E[k - 1] < i
    BY <1>4, <2>2 DEF Framed
  <2>4. L[i] = k
    BY <1>4, <2>2, <2>3, LineOf
  <2> QED
    BY <1>3, <1>4, <2>4
<1> QED
  BY <1>3, <1>4

\* One sequence of bytes before another.
LEMMA Joined ==
  ASSUME NEW x \in Seq(Bytes), NEW y \in Seq(Bytes)
  PROVE  /\ x \o y \in Seq(Bytes) /\ Len(x \o y) = Len(x) + Len(y)
         /\ \A i \in 1..Len(x) : (x \o y)[i] = x[i]
         /\ \A i \in 1..Len(y) : (x \o y)[Len(x) + i] = y[i]
<1>1. PICK p \in Nat, q \in Nat : p = Len(x) /\ q = Len(y)
  BY LenProperties
<1>2. /\ x \o y \in Seq(Bytes) /\ Len(x \o y) = p + q
      /\ \A i \in 1..p + q : (x \o y)[i] = IF i <= p THEN x[i] ELSE y[i - p]
  BY <1>1, ConcatProperties
<1>3. \A i \in 1..p : i \in 1..p + q /\ i <= p
  OBVIOUS
<1>4. \A i \in 1..q : p + i \in 1..p + q /\ ~(p + i <= p) /\ p + i - p = i
  OBVIOUS
<1> QED
  BY <1>1, <1>2, <1>3, <1>4

LEMMA Regrouped ==
  ASSUME NEW x \in Seq(Bytes), NEW y \in Seq(Bytes), NEW z \in Seq(Bytes)
  PROVE  (x \o y) \o z = x \o (y \o z)
  BY ConcatAssociative

\* Nothing has been sent, or all of it has been read.
LEMMA FramedEmpty ==
  ASSUME NEW m \in Nat
  PROVE  Framed(<<>>, m, m, [i \in m..m |-> 0], <<>>)
<1>1. Len(<<>>) = 0 /\ 1..0 = {}
  OBVIOUS
<1>2. <<>> \in [1..Len(<<>>) -> m + 1..m]
  BY <1>1
<1>3. m..m = {m}
  OBVIOUS
<1> QED
  BY <1>1, <1>2, <1>3 DEF Framed

\* A piece that goes from one part of the stream to the other.
LEMMA Moved ==
  ASSUME NEW x \in Seq(Bytes), NEW y \in Seq(Bytes), NEW n \in 1..Len(y)
  PROVE  /\ x \o Piece(y, n) \in Seq(Bytes) /\ AfterPiece(y, n) \in Seq(Bytes)
         /\ (x \o Piece(y, n)) \o AfterPiece(y, n) = x \o y
         /\ x \o Piece(y, n) # <<>>
<1>1. Len(y) \in Nat /\ \A i \in 1..Len(y) : y[i] \in Bytes
  BY LenProperties, ElementOfSeq
<1>2. Piece(y, n) \in Seq(Bytes) /\ Len(Piece(y, n)) = n
  BY <1>1, SubSeqProperties DEF Piece
<1>3. AfterPiece(y, n) \in Seq(Bytes)
  BY <1>1, SubSeqProperties DEF AfterPiece
<1>4. Piece(y, n) \o AfterPiece(y, n) = y
  <2>1. Piece(y, n) \o AfterPiece(y, n) = SubSeq(y, 1, Len(y))
    BY <1>1, ConcatAdjacentSubSeq DEF Piece, AfterPiece
  <2> QED
    BY <2>1, SubSeqFull
<1>5. x \o Piece(y, n) # <<>>
  BY <1>2, ConcatEqualIffEmpty, EmptySeq
<1>6. x \o Piece(y, n) \in Seq(Bytes)
  BY <1>2, ConcatProperties
<1>7. (x \o Piece(y, n)) \o AfterPiece(y, n) = x \o (Piece(y, n) \o AfterPiece(y, n))
  BY <1>2, <1>3, Regrouped
<1> QED
  BY <1>3, <1>4, <1>5, <1>6, <1>7

\* A line that is sent.
LEMMA LineSent ==
  ASSUME NEW k \in Nat, NEW len \in Nat
  PROVE  /\ Text(k, len) \in Seq(Bytes) /\ Len(Text(k, len)) = len
         /\ EndOfLine \in Seq(Bytes)
         /\ Text(k, len) \o EndOfLine \in Seq(Bytes)
         /\ Len(Text(k, len) \o EndOfLine) = len + 2
         /\ \A j \in 1..len + 2 : (Text(k, len) \o EndOfLine)[j] = ByteOf(k, j, len)
<1>1. \A j \in 1..len : <<k, j>> \in Bytes
  BY DEF Bytes
<1>2. /\ Text(k, len) \in Seq(Bytes) /\ Len(Text(k, len)) = len
      /\ \A j \in 1..len : Text(k, len)[j] = <<k, j>>
  BY <1>1 DEF Text
<1>3. /\ EndOfLine \in Seq(Bytes) /\ Len(EndOfLine) = 2
      /\ EndOfLine[1] = CR /\ EndOfLine[2] = LF
  BY DEF EndOfLine, CR, LF, Bytes
<1>4. PICK x \in Seq(Bytes), y \in Seq(Bytes) : x = Text(k, len) /\ y = EndOfLine
  BY <1>2, <1>3
<1>5. /\ x \o y \in Seq(Bytes) /\ Len(x \o y) = Len(x) + Len(y)
      /\ \A i \in 1..Len(x) : (x \o y)[i] = x[i]
      /\ \A i \in 1..Len(y) : (x \o y)[Len(x) + i] = y[i]
  BY Joined
<1>6. /\ Len(x) = len /\ \A j \in 1..len : x[j] = <<k, j>>
      /\ Len(y) = 2 /\ y[1] = CR /\ y[2] = LF
  BY <1>2, <1>3, <1>4
<1>7. ASSUME NEW j \in 1..len + 2
      PROVE  (x \o y)[j] = ByteOf(k, j, len)
  <2>1. CASE j <= len
    <3>1. (x \o y)[j] = <<k, j>>
      BY <1>5, <1>6, <2>1
    <3> QED
      BY <2>1, <3>1 DEF ByteOf
  <2>2. CASE j = len + 1
    <3>1. (x \o y)[j] = CR
      BY <1>5, <1>6, <2>2
    <3> QED
      BY <2>2, <3>1 DEF ByteOf
  <2>3. CASE j = len + 2
    <3>1. (x \o y)[j] = LF
      BY <1>5, <1>6, <2>3
    <3> QED
      BY <2>3, <3>1 DEF ByteOf
  <2>4. j <= len \/ j = len + 1 \/ j = len + 2
    OBVIOUS
  <2> QED
    BY <2>1, <2>2, <2>3, <2>4
<1> QED
  BY <1>2, <1>3, <1>4, <1>5, <1>6, <1>7

\* Where the lines of a stream end after one more was sent.
Longer(E, m, n, len) == [i \in m..n + 1 |-> IF i <= n THEN E[i] ELSE E[n] + len + 2]

\* The stream gets longer by a line.
LEMMA LineAdded ==
  ASSUME NEW b \in Seq(Bytes), NEW c \in Seq(Bytes), NEW m \in Nat, NEW n \in Nat, m <= n,
         NEW E, NEW L, Framed(b, m, n, E, L), NEW len \in Nat,
         Len(c) = len + 2, \A j \in 1..len + 2 : c[j] = ByteOf(n + 1, j, len)
  PROVE  \E M : Framed(b \o c, m, n + 1, Longer(E, m, n, len), M)
<1>1. PICK l \in Nat : l = Len(b)
  BY LenProperties
<1>2. PICK F : F = Longer(E, m, n, len)
  OBVIOUS
<1>3. PICK M : M = [i \in 1..l + len + 2 |-> IF i <= l THEN L[i] ELSE n + 1]
  OBVIOUS
<1>4. /\ E \in [m..n -> Int] /\ E[m] <= 0 /\ E[n] = l /\ L \in [1..l -> m + 1..n]
      /\ \A i, j \in m..n : i < j => E[i] + 2 <= E[j]
  BY <1>1 DEF Framed
<1>5. \A i \in 1..l : In(b, i, L[i], E[L[i] - 1], E[L[i]])
  BY <1>1 DEF Framed
<1>6. F \in [m..n + 1 -> Int] /\ F[n + 1] = l + len + 2
  BY <1>2, <1>4 DEF Longer
<1>7. (\A i \in m..n : F[i] = E[i]) /\ F[n] = l
  BY <1>2, <1>4 DEF Longer
<1>8. ASSUME NEW i \in m..n + 1, NEW j \in m..n + 1, i < j
      PROVE  F[i] + 2 <= F[j]
  <2>1. CASE j <= n
    <3>1. i \in m..n /\ j \in m..n
      BY <1>8, <2>1
    <3> QED
      BY <1>4, <1>7, <1>8, <3>1
  <2>2. CASE j = n + 1
    <3>1. i \in m..n /\ n \in m..n /\ i <= n
      BY <1>8, <2>2
    <3>2. E[i] \in Int /\ E[i] <= E[n]
      BY <3>1, InOrder
    <3>3. F[i] = E[i] /\ F[j] = l + len + 2
      BY <1>6, <1>7, <2>2, <3>1
    <3> QED
      BY <1>4, <3>2, <3>3
  <2> QED
    BY <2>1, <2>2
<1>9. /\ b \o c \in Seq(Bytes) /\ Len(b \o c) = Len(b) + Len(c)
      /\ \A i \in 1..Len(b) : (b \o c)[i] = b[i]
      /\ \A i \in 1..Len(c) : (b \o c)[Len(b) + i] = c[i]
  BY Joined
<1>10. /\ b \o c \in Seq(Bytes) /\ Len(b \o c) = l + (len + 2)
       /\ \A i \in 1..l : (b \o c)[i] = b[i]
       /\ \A i \in 1..len + 2 : (b \o c)[l + i] = c[i]
  BY <1>1, <1>9
<1>11. M \in [1..l + len + 2 -> m + 1..n + 1]
  BY <1>3, <1>4
<1>12. ASSUME NEW i \in 1..l + len + 2
       PROVE  In(b \o c, i, M[i], F[M[i] - 1], F[M[i]])
  <2>1. CASE i <= l
    <3>1. PICK k \in m + 1..n : k = L[i]
      BY <1>4, <2>1
    <3>2. k \in m..n /\ k - 1 \in m..n /\ M[i] = k /\ i \in 1..l
      BY <1>3, <2>1, <3>1
    <3>3. F[k] = E[k] /\ F[k - 1] = E[k - 1]
      BY <1>7, <3>2
    <3>4. (b \o c)[i] = b[i] /\ In(b, i, k, E[k - 1], E[k])
      BY <1>5, <1>10, <3>1, <3>2
    <3> QED
      BY <3>2, <3>3, <3>4 DEF In
  <2>2. CASE l < i
    <3>1. PICK j \in 1..len + 2 : i = l + j
      <4>1. i - l \in 1..len + 2 /\ i = l + (i - l)
        BY <2>2
      <4> QED
        BY <4>1
    <3>2. M[i] = n + 1
      BY <1>3, <2>2
    <3>3. F[M[i]] = l + len + 2 /\ F[M[i] - 1] = l
      <4>1. M[i] - 1 = n
        BY <3>2
      <4> QED
        BY <1>6, <1>7, <3>2, <4>1
    <3>4. (b \o c)[i] = ByteOf(n + 1, j, len)
      BY <1>10, <3>1
    <3>5. i - l = j /\ l + len + 2 - l - 2 = len /\ l + 2 <= l + len + 2 /\ l < i
      BY <3>1
    <3>6. i <= l + len + 2
      OBVIOUS
    <3> QED
      BY <3>2, <3>3, <3>4, <3>5, <3>6 DEF In
  <2> QED
    BY <2>1, <2>2
<1>13. F[m] <= 0
  BY <1>4, <1>7
<1>14. Framed(b \o c, m, n + 1, F, M)
  <2>1. Len(b \o c) = l + len + 2
    BY <1>10
  <2> QED
    BY <1>6, <1>8, <1>11, <1>12, <1>13, <2>1 DEF Framed
<1> QED
  BY <1>2, <1>14

\* A line is sent behind what is in the buffer, x, and on the wire, y.
LEMMA MoreLines ==
  ASSUME NEW x \in Seq(Bytes), NEW y \in Seq(Bytes), NEW m \in Nat, NEW n \in Nat, m <= n,
         NEW E, NEW L, Framed(x \o y, m, n, E, L), NEW len \in Nat
  PROVE  /\ y \o Text(n + 1, len) \o EndOfLine \in Seq(Bytes)
         /\ \E M : Framed(x \o (y \o Text(n + 1, len) \o EndOfLine),
                          m, n + 1, Longer(E, m, n, len), M)
<1>1. PICK k \in Nat : k = n + 1
  OBVIOUS
<1>2. PICK t \in Seq(Bytes) : t = Text(k, len)
  BY LineSent
<1>3. PICK c \in Seq(Bytes) : c = t \o EndOfLine
  BY <1>2, LineSent
<1>4. EndOfLine \in Seq(Bytes) /\ Len(c) = len + 2
  BY <1>2, <1>3, LineSent
<1>5. \A j \in 1..len + 2 : c[j] = ByteOf(n + 1, j, len)
  BY <1>1, <1>2, <1>3, LineSent
<1>6. x \o y \in Seq(Bytes) /\ y \o c \in Seq(Bytes)
  BY ConcatProperties
<1>7. y \o t \o EndOfLine = y \o c
  BY <1>3, <1>4, Regrouped
<1>8. (x \o y) \o c = x \o (y \o c)
  BY Regrouped
<1>9. \E M : Framed((x \o y) \o c, m, n + 1, Longer(E, m, n, len), M)
  BY <1>4, <1>5, <1>6, LineAdded
<1> QED
  BY <1>1, <1>2, <1>6, <1>7, <1>8, <1>9

\* The end of a sequence of bytes, behind c of them.
LEMMA EndOf ==
  ASSUME NEW x \in Seq(Bytes), NEW l \in Nat, l = Len(x), NEW c \in 0..l
  PROVE  /\ SubSeq(x, c + 1, l) \in Seq(Bytes) /\ Len(SubSeq(x, c + 1, l)) = l - c
         /\ \A i \in 1..l - c : SubSeq(x, c + 1, l)[i] = x[i + c]
<1>1. /\ SubSeq(x, c + 1, l) \in Seq(Bytes)
      /\ Len(SubSeq(x, c + 1, l)) = IF c + 1 <= l THEN l - (c + 1) + 1 ELSE 0
      /\ \A i \in 1..l - (c + 1) + 1 : SubSeq(x, c + 1, l)[i] = x[c + 1 + i - 1]
  <2>1. \A i \in c + 1..l : x[i] \in Bytes
    BY ElementOfSeq
  <2> QED
    BY <2>1, SubSeqProperties
<1>2. (IF c + 1 <= l THEN l - (c + 1) + 1 ELSE 0) = l - c
  OBVIOUS
<1>3. l - (c + 1) + 1 = l - c /\ \A i \in 1..l - c : c + 1 + i - 1 = i + c
  OBVIOUS
<1> QED
  BY <1>1, <1>2, <1>3

\* The end of an end.
LEMMA EndOfEnd ==
  ASSUME NEW x \in Seq(Bytes), NEW l \in Nat, l = Len(x), NEW c \in 0..l, NEW g \in 0..l - c
  PROVE  SubSeq(SubSeq(x, c + 1, l), g + 1, l - c) = SubSeq(x, c + g + 1, l)
<1>1. PICK z \in Seq(Bytes) : z = SubSeq(x, c + 1, l)
  BY EndOf
<1>2. Len(z) = l - c /\ \A i \in 1..l - c : z[i] = x[i + c]
  BY <1>1, EndOf
<1>3. PICK h \in 0..l, d \in Nat : h = c + g /\ d = l - c /\ d - g = l - h
  <2>1. c + g \in 0..l /\ l - c \in Nat /\ l - c - g = l - (c + g)
    OBVIOUS
  <2> QED
    BY <2>1
<1>4. PICK u : u = SubSeq(z, g + 1, d)
  OBVIOUS
<1>5. PICK v : v = SubSeq(x, h + 1, l)
  OBVIOUS
<1>6. u \in Seq(Bytes) /\ Len(u) = l - h /\ \A i \in 1..l - h : u[i] = z[i + g]
  <2>1. g \in 0..d /\ d = Len(z)
    BY <1>2, <1>3
  <2>2. u \in Seq(Bytes) /\ Len(u) = d - g /\ \A i \in 1..d - g : u[i] = z[i + g]
    BY <1>4, <2>1, EndOf
  <2> QED
    BY <1>3, <2>2
<1>7. v \in Seq(Bytes) /\ Len(v) = l - h /\ \A i \in 1..l - h : v[i] = x[i + h]
  BY <1>5, EndOf
<1>8. ASSUME NEW i \in 1..l - h PROVE u[i] = v[i]
  <2>1. PICK j \in 1..l - c : j = i + g /\ j + c = i + h
    <3>1. i + g \in 1..l - c /\ i + g + c = i + h
      BY <1>3
    <3> QED
      BY <3>1
  <2>2. u[i] = z[j]
    BY <1>6, <2>1
  <2>3. z[j] = x[i + h]
    BY <1>2, <2>1
  <2> QED
    BY <1>7, <2>2, <2>3
<1>9. u = v
  BY <1>6, <1>7, <1>8, SeqEqual
<1> QED
  BY <1>1, <1>3, <1>4, <1>5, <1>9

\* Where they end after c bytes and the lines up to m were dropped.
Shorter(E, m, n, c) == [i \in m..n |-> E[i] - c]

\* What is left of a stream.
LEMMA LinesDropped ==
  ASSUME NEW b \in Seq(Bytes), NEW d \in Seq(Bytes), NEW m \in Nat, NEW n \in Nat,
         NEW E, NEW L, Framed(b, m, n, E, L),
         NEW k \in m..n, NEW c \in Nat, c <= Len(b), E[k] <= c,
         Len(d) = Len(b) - c, \A i \in 1..Len(d) : d[i] = b[i + c]
  PROVE  \E M : Framed(d, k, n, Shorter(E, k, n, c), M)
<1>1. PICK l \in Nat : l = Len(d) /\ l + c = Len(b)
  BY LenProperties
<1>2. PICK F : F = Shorter(E, k, n, c)
  OBVIOUS
<1>3. PICK M : M = [i \in 1..l |-> L[i + c]]
  OBVIOUS
<1>4. /\ E \in [m..n -> Int] /\ E[n] = l + c /\ L \in [1..l + c -> m + 1..n]
      /\ \A i, j \in m..n : i < j => E[i] + 2 <= E[j]
  BY <1>1 DEF Framed
<1>5. \A i \in 1..l + c : In(b, i, L[i], E[L[i] - 1], E[L[i]])
  BY <1>1 DEF Framed
<1>6. F \in [k..n -> Int] /\ \A i \in k..n : F[i] = E[i] - c
  BY <1>2, <1>4 DEF Shorter
<1>7. F[k] <= 0 /\ F[n] = l
  <2>1. k \in k..n /\ n \in k..n /\ E[k] \in Int
    BY <1>4
  <2> QED
    BY <1>4, <1>6, <2>1
<1>8. ASSUME NEW i \in k..n, NEW j \in k..n, i < j PROVE F[i] + 2 <= F[j]
  <2>1. i \in m..n /\ j \in m..n
    OBVIOUS
  <2>2. E[i] \in Int /\ E[j] \in Int /\ E[i] + 2 <= E[j]
    BY <1>4, <1>8, <2>1
  <2>3. F[i] = E[i] - c /\ F[j] = E[j] - c
    BY <1>6
  <2> QED
    BY <2>2, <2>3
<1>9. ASSUME NEW i \in 1..l
      PROVE  M[i] \in k + 1..n /\ In(d, i, M[i], F[M[i] - 1], F[M[i]])
  <2>1. i + c \in 1..l + c
    OBVIOUS
  <2>2. PICK h \in m + 1..n : h = L[i + c]
    BY <1>4, <2>1
  <2>3. h \in m..n /\ h - 1 \in m..n
    BY <2>2
  <2>4. PICK p \in Int, e \in Int : p = E[h - 1] /\ e = E[h]
    BY <1>4, <2>3
  <2>5. In(b, i + c, h, p, e)
    BY <1>5, <2>1, <2>2, <2>4
  <2>6. p + 2 <= e /\ p < i + c /\ i + c <= e /\ b[i + c] = ByteOf(h, i + c - p, e - p - 2)
    BY <2>5 DEF In
  <2>7. k < h
    <3>1. SUFFICES ASSUME h <= k PROVE FALSE
      OBVIOUS
    <3>2. PICK g \in Int : g = E[k] /\ g <= c
      BY <1>4
    <3>3. h = k \/ h < k
      BY <3>1
    <3>4. e <= g
      <4>1. h < k => E[h] + 2 <= E[k]
        BY <1>4, <2>3
      <4> QED
        BY <2>4, <3>2, <3>3, <4>1
    <3>5. i + c <= e /\ 1 <= i
      BY <2>6
    <3> QED
      BY <3>2, <3>4, <3>5
  <2>8. h \in k + 1..n /\ h \in k..n /\ h - 1 \in k..n /\ M[i] = h
    BY <1>3, <2>2, <2>7
  <2>9. F[h] = e - c /\ F[h - 1] = p - c
    BY <1>6, <2>4, <2>8
  <2>10. d[i] = b[i + c]
    BY <1>1
  <2>11. /\ p - c + 2 <= e - c /\ p - c < i /\ i <= e - c
         /\ i - (p - c) = i + c - p /\ e - c - (p - c) - 2 = e - p - 2
    BY <2>6
  <2>12. In(d, i, h, p - c, e - c)
    BY <2>6, <2>10, <2>11 DEF In
  <2> QED
    BY <2>8, <2>9, <2>12
<1>10. M \in [1..l -> k + 1..n]
  BY <1>3, <1>9
<1>11. Framed(d, k, n, F, M)
  BY <1>1, <1>6, <1>7, <1>8, <1>9, <1>10 DEF Framed
<1> QED
  BY <1>2, <1>11

\* The buffer, x, loses its first bytes; the wire, y, keeps its own.
LEMMA Dropped ==
  ASSUME NEW x \in Seq(Bytes), NEW y \in Seq(Bytes), NEW m \in Nat, NEW n \in Nat,
         NEW E, NEW L, Framed(x \o y, m, n, E, L),
         NEW c \in 0..Len(x), NEW k \in m..n, E[k] <= c
  PROVE  /\ SubSeq(x, c + 1, Len(x)) \in Seq(Bytes)
         /\ Len(SubSeq(x, c + 1, Len(x))) = Len(x) - c
         /\ \E M : Framed(SubSeq(x, c + 1, Len(x)) \o y, k, n, Shorter(E, k, n, c), M)
<1>1. PICK p \in Nat, q \in Nat : p = Len(x) /\ q = Len(y)
  BY LenProperties
<1>2. PICK b \in Seq(Bytes) : b = x \o y
  BY Joined
<1>3. /\ Len(b) = p + q
      /\ \A i \in 1..p : b[i] = x[i]
      /\ \A i \in 1..q : b[p + i] = y[i]
  <2>1. /\ Len(x \o y) = Len(x) + Len(y)
        /\ \A i \in 1..Len(x) : (x \o y)[i] = x[i]
        /\ \A i \in 1..Len(y) : (x \o y)[Len(x) + i] = y[i]
    BY Joined
  <2> QED
    BY <1>1, <1>2, <2>1
<1>4. PICK z : z = SubSeq(x, c + 1, p)
  OBVIOUS
<1>5. /\ z \in Seq(Bytes) /\ Len(z) = p - c
      /\ \A i \in 1..p - c : z[i] = x[i + c]
  BY <1>1, <1>4, EndOf
<1>6. PICK d \in Seq(Bytes) : d = z \o y
  BY <1>5, Joined
<1>7. /\ Len(d) = p - c + q
      /\ \A i \in 1..p - c : d[i] = z[i]
      /\ \A i \in 1..q : d[p - c + i] = y[i]
  <2>1. /\ Len(z \o y) = Len(z) + Len(y)
        /\ \A i \in 1..Len(z) : (z \o y)[i] = z[i]
        /\ \A i \in 1..Len(y) : (z \o y)[Len(z) + i] = y[i]
    BY <1>5, Joined
  <2> QED
    BY <1>1, <1>5, <1>6, <2>1
<1>8. c \in Nat /\ c <= p
  BY <1>1
<1>9. ASSUME NEW i \in 1..p - c + q PROVE d[i] = b[i + c]
  <2>1. CASE i <= p - c
    <3>1. i \in 1..p - c /\ i + c \in 1..p
      BY <1>8, <2>1
    <3> QED
      BY <1>3, <1>5, <1>7, <3>1
  <2>2. CASE ~(i <= p - c)
    <3>1. PICK j \in 1..q : j = i - (p - c)
      BY <1>8, <2>2
    <3>2. i = p - c + j /\ i + c = p + j
      BY <1>8, <3>1
    <3> QED
      BY <1>3, <1>7, <3>2
  <2> QED
    BY <2>1, <2>2
<1>10. c <= Len(b) /\ Len(d) = Len(b) - c
  BY <1>3, <1>7, <1>8
<1>11. \A i \in 1..Len(d) : d[i] = b[i + c]
  BY <1>7, <1>9
<1>12. \E M : Framed(d, k, n, Shorter(E, k, n, c), M)
  BY <1>2, <1>8, <1>10, <1>11, LinesDropped
<1> QED
  BY <1>1, <1>4, <1>5, <1>6, <1>12

-----------------------------------------------------------------------------
(* getline() in a stream of lines                                            *)

\* The bytes before the first LF are of one line, which begins at the first or before it.
LEMMA OneLineOnly ==
  ASSUME NEW b \in Seq(Bytes), NEW m \in Nat, NEW n \in Nat,
         NEW E, NEW L, Framed(b, m, n, E, L),
         NEW q \in 1..Len(b), \A i \in 1..q - 1 : b[i] # LF
  PROVE  \E k \in m + 1..n :
           /\ E[k - 1] \in Int /\ E[k] \in Int /\ E[k - 1] <= 0 /\ q <= E[k]
           /\ \A i \in 1..q : In(b, i, k, E[k - 1], E[k])
<1>1. PICK l \in Nat : l = Len(b)
  BY LenProperties
<1>2. PICK k \in m + 1..n : k = L[q]
  BY DEF Framed
<1>3. k - 1 \in m..n /\ k \in m..n
  BY <1>2
<1>4. E[k - 1] \in Int /\ E[k] \in Int
  BY <1>3 DEF Framed
<1>5. In(b, q, k, E[k - 1], E[k])
  BY <1>2 DEF Framed
<1>6. E[k - 1] < q /\ q <= E[k]
  BY <1>5 DEF In
<1>7. E[k - 1] <= 0
  <2>1. SUFFICES ASSUME ~(E[k - 1] <= 0) PROVE FALSE
    OBVIOUS
  <2>2. E[k - 1] \in 1..Len(b) /\ E[k - 1] \in 1..q - 1
    BY <1>1, <1>4, <1>6, <2>1
  <2>3. b[E[k - 1]] = LF
    BY <1>3, <2>2, EndsAreLF
  <2> QED
    BY <2>2, <2>3
<1>8. ASSUME NEW i \in 1..q PROVE In(b, i, k, E[k - 1], E[k])
  <2>1. i \in 1..Len(b) /\ E[k - 1] < i /\ i <= E[k]
    BY <1>1, <1>4, <1>6, <1>7
  <2> QED
    BY <2>1, LineOf
<1> QED
  BY <1>4, <1>6, <1>7, <1>8

\* The line that getline() takes from the buffer, x.
LEMMA FirstLine ==
  ASSUME NEW x \in Seq(Bytes), x # <<>>, NEW y \in Seq(Bytes),
         NEW m \in Nat, NEW n \in Nat, NEW E, NEW L, Framed(x \o y, m, n, E, L)
  PROVE  \E k \in m + 1..n :
           /\ E[k - 1] \in Int /\ E[k] \in Int /\ E[k - 1] <= 0
           /\ Line(x) \in Seq(Bytes) /\ Len(Line(x)) < E[k]
           /\ \A i \in 1..Len(Line(x)) : In(Line(x), i, k, E[k - 1], E[k])
           /\ HasLF(x) => /\ Len(Line(x)) = E[k] - 1 /\ E[k] <= Len(x)
                          /\ AfterLine(x) = SubSeq(x, E[k] + 1, Len(x))
           /\ ~HasLF(x) => Line(x) = x
<1>1. PICK l \in Nat \ {0} : l = Len(x)
  BY EmptySeq
<1>2. PICK b \in Seq(Bytes) : b = x \o y
  BY Joined
<1>3. /\ \A i \in 1..Len(x) : b[i] = x[i]
      /\ \A i \in 1..Len(x) : i \in 1..Len(b)
  <2>1. PICK h \in Nat : h = Len(y)
    BY LenProperties
  <2>2. Len(b) = l + h /\ \A i \in 1..Len(x) : b[i] = x[i]
    BY <1>1, <1>2, <2>1, Joined
  <2> QED
    BY <1>1, <2>2
<1>4. CASE HasLF(x)
  <2>1. PICK q \in 1..Len(x) : x[q] = LF /\ \A i \in 1..q - 1 : x[i] # LF
    BY <1>4, FirstLF
  <2>2. q \in 1..Len(b) /\ b[q] = LF /\ \A i \in 1..q - 1 : b[i] = x[i]
    BY <1>1, <1>3, <2>1
  <2>3. \A i \in 1..q - 1 : b[i] # LF
    BY <2>1, <2>2
  <2>4. PICK k \in m + 1..n :
          /\ E[k - 1] \in Int /\ E[k] \in Int /\ E[k - 1] <= 0 /\ q <= E[k]
          /\ \A i \in 1..q : In(b, i, k, E[k - 1], E[k])
    BY <1>2, <2>2, <2>3, OneLineOnly
  <2>5. q \in Int /\ q \in 1..q /\ k \in Nat \ {0}
    BY <1>1
  <2>6. q = E[k]
    BY <2>2, <2>4, <2>5, ByteIs
  <2>7. /\ Line(x) \in Seq(Bytes) /\ Len(Line(x)) = q - 1
        /\ \A i \in 1..q - 1 : Line(x)[i] = x[i]
        /\ AfterLine(x) = SubSeq(x, q + 1, Len(x))
    BY <2>1, LineIs
  <2>8. ASSUME NEW i \in 1..q - 1 PROVE In(Line(x), i, k, E[k - 1], E[k])
    <3>1. In(b, i, k, E[k - 1], E[k])
      BY <2>4, <2>5
    <3>2. Line(x)[i] = b[i]
      BY <2>2, <2>7
    <3> QED
      BY <3>1, <3>2 DEF In
  <2>9. q - 1 < q /\ q <= Len(x)
    BY <1>1
  <2> QED
    BY <1>4, <2>4, <2>6, <2>7, <2>8, <2>9
<1>5. CASE ~HasLF(x)
  <2>1. Line(x) = x /\ \A i \in 1..Len(x) : x[i] # LF
    BY <1>5, NoLineIs DEF HasLF, Contains
  <2>2. l \in 1..Len(b) /\ b[l] # LF /\ \A i \in 1..l - 1 : b[i] = x[i] /\ b[i] # LF
    BY <1>1, <1>3, <2>1
  <2>3. PICK k \in m + 1..n :
          /\ E[k - 1] \in Int /\ E[k] \in Int /\ E[k - 1] <= 0 /\ l <= E[k]
          /\ \A i \in 1..l : In(b, i, k, E[k - 1], E[k])
    BY <1>2, <2>2, OneLineOnly
  <2>4. l \in Int /\ l \in 1..l /\ k \in Nat \ {0}
    OBVIOUS
  <2>5. l # E[k]
    BY <2>2, <2>3, <2>4, ByteIs
  <2>6. ASSUME NEW i \in 1..l PROVE In(x, i, k, E[k - 1], E[k])
    <3>1. In(b, i, k, E[k - 1], E[k])
      BY <2>3
    <3>2. x[i] = b[i]
      BY <1>1, <1>3
    <3> QED
      BY <3>1, <3>2 DEF In
  <2>7. l < E[k]
    BY <2>3, <2>5
  <2> QED
    BY <1>1, <1>5, <2>1, <2>3, <2>6, <2>7
<1> QED
  BY <1>4, <1>5

\* A part of a line that ends in a CR is all of it but the LF.
LEMMA EndsInCR ==
  ASSUME NEW x \in Seq(Bytes), x # <<>>, NEW k \in Nat \ {0}, NEW p \in Int, NEW e \in Int,
         Len(x) < e, \A i \in 1..Len(x) : In(x, i, k, p, e)
  PROVE  Last(x) = CR <=> Len(x) = e - 1
<1>1. PICK l \in Nat \ {0} : l = Len(x)
  BY EmptySeq
<1>2. In(x, l, k, p, e) /\ l \in Int /\ l < e
  BY <1>1
<1>3. l = e - 1 => x[l] = CR
  BY <1>2, ByteIs
<1>4. l < e - 1 => x[l] = <<k, l - p>>
  BY <1>2, ByteIs
<1>5. <<k, l - p>> # CR
  BY DEF CR
<1>6. l = e - 1 \/ l < e - 1
  BY <1>2
<1> QED
  BY <1>1, <1>3, <1>4, <1>5, <1>6 DEF Last

\* What comes behind the last LF.
LEMMA UnfinishedIs ==
  ASSUME NEW b \in Seq(Bytes), NEW h \in 1..Len(b), b[h] = LF,
         \A i \in 1..Len(b) : b[i] = LF => i <= h
  PROVE  Unfinished(b) = SubSeq(b, h + 1, Len(b))
<1> DEFINE I == {i \in 1..Len(b) : b[i] = LF}
<1>1. h \in I /\ Len(b) \in Nat /\ \A i \in I : i <= h
  BY LenProperties
<1>2. Max(I) = h
  BY <1>1 DEF Max
<1>3. SelectLastInSeq(b, LAMBDA c : c = LF) = h
  BY <1>1, <1>2 DEF SelectLastInSeq
<1> QED
  BY <1>3 DEF Unfinished

\* It is the same behind the first line.
LEMMA UnfinishedBehind ==
  ASSUME NEW x \in Seq(Bytes), NEW q \in 1..Len(x), x[q] = LF
  PROVE  Unfinished(SubSeq(x, q + 1, Len(x))) = Unfinished(x)
<1>1. PICK l \in Nat : l = Len(x)
  BY LenProperties
<1>2. PICK z : z = SubSeq(x, q + 1, l)
  OBVIOUS
<1>3. z \in Seq(Bytes) /\ Len(z) = l - q /\ \A i \in 1..l - q : z[i] = x[i + q]
  BY <1>1, <1>2, EndOf
<1>4. PICK h \in 1..l : x[h] = LF /\ \A i \in 1..l : x[i] = LF => i <= h
  <2> DEFINE I == {i \in 1..l : x[i] = LF}
  <2>1. I \in SUBSET (1..l) /\ I # {}
    BY <1>1
  <2>2. PICK h \in I : \A i \in I : i <= h
    BY <2>1, Greatest
  <2> QED
    BY <2>2
<1>5. Unfinished(x) = SubSeq(x, h + 1, l)
  BY <1>1, <1>4, UnfinishedIs
<1>6. q <= h
  BY <1>1, <1>4
<1>7. CASE h = q
  <2>1. ~HasLF(z)
    <3>1. SUFFICES ASSUME NEW i \in 1..l - q, z[i] = LF PROVE FALSE
      BY <1>3 DEF HasLF, Contains
    <3>2. i + q \in 1..l /\ x[i + q] = LF /\ ~(i + q <= h)
      BY <1>1, <1>3, <1>7, <3>1
    <3> QED
      BY <1>4, <3>2
  <2>2. Unfinished(z) = z
    BY <1>3, <2>1, NoLineIs
  <2> QED
    BY <1>1, <1>2, <1>5, <1>7, <2>2
<1>8. CASE q < h
  <2>1. PICK g \in 1..l - q : g + q = h
    <3>1. h - q \in 1..l - q /\ h - q + q = h
      BY <1>1, <1>8
    <3> QED
      BY <3>1
  <2>2. z[g] = LF
    BY <1>3, <1>4, <2>1
  <2>3. ASSUME NEW i \in 1..l - q, z[i] = LF PROVE i <= g
    <3>1. i + q \in 1..l /\ x[i + q] = LF
      BY <1>1, <1>3, <2>3
    <3>2. i + q <= h
      BY <1>4, <3>1
    <3> QED
      BY <1>1, <2>1, <3>2
  <2>4. Unfinished(z) = SubSeq(z, g + 1, l - q)
    BY <1>3, <2>1, <2>2, <2>3, UnfinishedIs
  <2>5. SubSeq(z, g + 1, l - q) = SubSeq(x, q + g + 1, l)
    BY <1>1, <1>2, <2>1, EndOfEnd
  <2>6. q + g + 1 = h + 1
    BY <1>1, <2>1
  <2> QED
    BY <1>1, <1>2, <1>5, <2>4, <2>5, <2>6
<1> QED
  BY <1>1, <1>6, <1>7, <1>8

-----------------------------------------------------------------------------
(* RedisReply                                                                *)

ReplyTypes ==
  /\ inBuf \in Seq(Bytes) /\ fromServer \in Seq(Bytes)
  /\ asked \in Nat
  /\ replies \in [Requests -> {"none", "good", "error"}]
  /\ answers \in [Requests -> {"none", "ok", "failed"}]

\* The numbers behind m up to n.
Row(q, m, n) == q \in Seq(Nat) /\ m + Len(q) = n /\ \A j \in 1..Len(q) : q[j] = m + j

\* b begins with the first byte of line m + 1, and no line is shorter than MinLine.
Ahead(b, m, n, E, L) ==
  Framed(b, m, n, E, L) /\ E[m] = 0 /\ \A i \in m + 1..n : E[i - 1] + MinLine <= E[i]

\* m requests were answered, n have their replies in in_buf_ or on the way.
Replying ==
  \E m, n \in Nat :
    /\ m <= n /\ Row(callbacks, m, asked) /\ Row(toServer, n, asked)
    /\ \A r \in Requests : answers[r] = "ok" => r <= m /\ replies[r] = "good"
    /\ \E E, L : Ahead(inBuf \o fromServer, m, n, E, L)

\* What handle_read relies on where it stands.
StepInv ==
  /\ step \in {"idle", "reading", "parsing"}
  /\ step = "idle" => callbacks = <<>>
  /\ step = "reading" => callbacks # <<>> /\ (toServer = <<>> => fromServer # <<>>)
  /\ step = "parsing" => ~eof /\ left = Len(inBuf) /\ SafeCut(inBuf)

CleanInv == ReplyTypes /\ Replying /\ StepInv

ReplyInv == clean \in BOOLEAN /\ (clean => CleanInv)

\* The first request of a row, and the others.
LEMMA RowTaken ==
  ASSUME NEW q, NEW m \in Nat, NEW n \in Nat, Row(q, m, n), q # <<>>
  PROVE  /\ Head(q) = m + 1 /\ Last(q) = n /\ n \in ToSet(q) /\ m + 1 <= n
         /\ Row(Tail(q), m + 1, n)
<1>1. q \in Seq(Nat) /\ m + Len(q) = n /\ \A j \in 1..Len(q) : q[j] = m + j
  BY DEF Row
<1>2. PICK l \in Nat \ {0} : l = Len(q)
  BY <1>1, EmptySeq
<1>3. q[1] = m + 1 /\ q[l] = n /\ 1 \in 1..l /\ l \in 1..l /\ m + 1 <= n
  BY <1>1, <1>2
<1>4. Head(q) = m + 1
  BY <1>1, <1>3
<1>5. Last(q) = n /\ n \in ToSet(q)
  BY <1>2, <1>3 DEF Last, ToSet
<1>6. /\ Tail(q) \in Seq(Nat) /\ Len(Tail(q)) = l - 1
      /\ \A j \in 1..Len(Tail(q)) : Tail(q)[j] = q[j + 1]
  BY <1>1, <1>2, HeadTailProperties
<1>7. ASSUME NEW j \in 1..l - 1 PROVE Tail(q)[j] = m + 1 + j
  <2>1. j + 1 \in 1..l /\ m + (j + 1) = m + 1 + j
    OBVIOUS
  <2> QED
    BY <1>1, <1>2, <1>6, <2>1
<1>8. m + 1 + (l - 1) = n
  BY <1>1, <1>2
<1>9. Row(Tail(q), m + 1, n)
  BY <1>6, <1>7, <1>8 DEF Row
<1> QED
  BY <1>3, <1>4, <1>5, <1>9

\* No request is left of an empty row, nor another of one that is not empty.
LEMMA RowEmpty ==
  ASSUME NEW q, NEW m \in Nat, NEW n \in Nat, Row(q, m, n)
  PROVE  q \in Seq(Nat) /\ m <= n /\ (q = <<>> <=> m = n)
<1>1. q \in Seq(Nat) /\ m + Len(q) = n /\ Len(q) \in Nat
  BY LenProperties DEF Row
<1>2. q = <<>> <=> Len(q) = 0
  BY <1>1, EmptySeq
<1> QED
  BY <1>1, <1>2

LEMMA EmptyRow ==
  ASSUME NEW n \in Nat
  PROVE  Row(<<>>, n, n)
<1>1. <<>> \in Seq(Nat) /\ Len(<<>>) = 0
  OBVIOUS
<1> QED
  BY <1>1 DEF Row

\* The requests of a batch.
LEMMA NewRow ==
  ASSUME NEW m \in Nat, NEW k \in Nat \ {0}, NEW q, q = [j \in 1..k |-> m + j]
  PROVE  Row(q, m, m + k) /\ q # <<>> /\ <<>> \o q = q
<1>1. q \in Seq(Nat) /\ Len(q) = k /\ \A j \in 1..k : q[j] = m + j
  OBVIOUS
<1>2. q # <<>> /\ <<>> \o q = q
  BY <1>1, EmptySeq, ConcatEmptySeq
<1> QED
  BY <1>1, <1>2 DEF Row

\* The stream before a reader that has no buffer and waits for nothing.
LEMMA AheadEmpty ==
  ASSUME NEW m \in Nat
  PROVE  \E E, L : Ahead(<<>> \o <<>>, m, m, E, L)
<1>1. PICK E : E = [i \in m..m |-> 0]
  OBVIOUS
<1>2. Framed(<<>>, m, m, E, <<>>)
  BY <1>1, FramedEmpty
<1>3. E[m] = 0 /\ m + 1..m = {}
  BY <1>1
<1>4. <<>> \o <<>> = <<>>
  OBVIOUS
<1>5. Ahead(<<>>, m, m, E, <<>>)
  BY <1>2, <1>3 DEF Ahead
<1> QED
  BY <1>4, <1>5

\* The server replies.
LEMMA AheadMore ==
  ASSUME NEW x \in Seq(Bytes), NEW y \in Seq(Bytes), NEW m \in Nat, NEW n \in Nat, m <= n,
         NEW E, NEW L, Ahead(x \o y, m, n, E, L), NEW len \in Nat \ {0, 1}
  PROVE  /\ y \o Text(n + 1, len) \o EndOfLine \in Seq(Bytes)
         /\ \E F, M : Ahead(x \o (y \o Text(n + 1, len) \o EndOfLine), m, n + 1, F, M)
<1>1. /\ Framed(x \o y, m, n, E, L) /\ E[m] = 0
      /\ \A i \in m + 1..n : E[i - 1] + MinLine <= E[i]
  BY DEF Ahead
<1>2. E \in [m..n -> Int]
  BY <1>1 DEF Framed
<1>3. PICK F : F = Longer(E, m, n, len)
  OBVIOUS
<1>4. /\ y \o Text(n + 1, len) \o EndOfLine \in Seq(Bytes)
      /\ \E M : Framed(x \o (y \o Text(n + 1, len) \o EndOfLine), m, n + 1, F, M)
  BY <1>1, <1>3, MoreLines
<1>5. /\ \A i \in m..n : F[i] = E[i]
      /\ F[n + 1] = E[n] + len + 2
  BY <1>2, <1>3 DEF Longer
<1>6. F[m] = 0
  BY <1>1, <1>5
<1>7. ASSUME NEW i \in m + 1..n + 1 PROVE F[i - 1] + MinLine <= F[i]
  <2>1. CASE i \in m + 1..n
    <3>1. i \in m..n /\ i - 1 \in m..n
      BY <2>1
    <3> QED
      BY <1>1, <1>5, <2>1, <3>1
  <2>2. CASE i = n + 1
    <3>1. i - 1 = n /\ n \in m..n
      BY <2>2
    <3>2. F[i - 1] = E[n] /\ E[n] \in Int
      BY <1>2, <1>5, <3>1
    <3> QED
      BY <1>5, <2>2, <3>2 DEF MinLine
  <2> QED
    BY <2>1, <2>2
<1> QED
  BY <1>4, <1>6, <1>7 DEF Ahead

\* A line is taken from the buffer.
LEMMA AheadTaken ==
  ASSUME NEW x \in Seq(Bytes), NEW y \in Seq(Bytes), NEW m \in Nat, NEW n \in Nat, m < n,
         NEW E, NEW L, Ahead(x \o y, m, n, E, L), E[m + 1] <= Len(x)
  PROVE  /\ SubSeq(x, E[m + 1] + 1, Len(x)) \in Seq(Bytes)
         /\ Len(SubSeq(x, E[m + 1] + 1, Len(x))) = Len(x) - E[m + 1]
         /\ \E F, M : Ahead(SubSeq(x, E[m + 1] + 1, Len(x)) \o y, m + 1, n, F, M)
<1>1. /\ Framed(x \o y, m, n, E, L) /\ E[m] = 0
      /\ \A i \in m + 1..n : E[i - 1] + MinLine <= E[i]
  BY DEF Ahead
<1>2. E \in [m..n -> Int]
  BY <1>1 DEF Framed
<1>3. PICK c \in Int : c = E[m + 1]
  BY <1>2
<1>4. c \in 0..Len(x) /\ m + 1 \in m..n
  <2>1. m + 1 \in m + 1..n /\ m + 1 - 1 = m
    OBVIOUS
  <2>2. E[m] + MinLine <= c
    BY <1>1, <1>3, <2>1
  <2> QED
    BY <1>1, <1>3, <2>2, LenProperties DEF MinLine
<1>5. PICK F : F = Shorter(E, m + 1, n, c)
  OBVIOUS
<1>6. /\ SubSeq(x, c + 1, Len(x)) \in Seq(Bytes)
      /\ Len(SubSeq(x, c + 1, Len(x))) = Len(x) - c
      /\ \E M : Framed(SubSeq(x, c + 1, Len(x)) \o y, m + 1, n, F, M)
  <2>1. PICK k \in m..n : k = m + 1
    BY <1>4
  <2>2. E[k] <= c
    BY <1>3, <2>1
  <2>3. /\ SubSeq(x, c + 1, Len(x)) \in Seq(Bytes)
        /\ Len(SubSeq(x, c + 1, Len(x))) = Len(x) - c
        /\ \E M : Framed(SubSeq(x, c + 1, Len(x)) \o y, k, n, Shorter(E, k, n, c), M)
    BY <1>1, <1>4, <2>2, Dropped
  <2> QED
    BY <1>5, <2>1, <2>3
<1>7. \A i \in m + 1..n : F[i] = E[i] - c
  BY <1>5 DEF Shorter
<1>8. F[m + 1] = 0
  BY <1>3, <1>7
<1>9. ASSUME NEW i \in m + 1 + 1..n PROVE F[i - 1] + MinLine <= F[i]
  <2>1. i \in m + 1..n /\ i - 1 \in m + 1..n /\ i \in m..n /\ i - 1 \in m..n
    OBVIOUS
  <2>2. E[i - 1] + MinLine <= E[i] /\ E[i - 1] \in Int /\ E[i] \in Int
    BY <1>1, <1>2, <2>1
  <2>3. F[i] = E[i] - c /\ F[i - 1] = E[i - 1] - c
    BY <1>7, <2>1
  <2> QED
    BY <2>2, <2>3 DEF MinLine
<1> QED
  BY <1>3, <1>6, <1>8, <1>9 DEF Ahead

\* What getline() gives when all of the stream is lines of their own.
LEMMA AheadLine ==
  ASSUME NEW x \in Seq(Bytes), MinLine <= Len(x), NEW y \in Seq(Bytes),
         NEW m \in Nat, NEW n \in Nat, NEW E, NEW L, Ahead(x \o y, m, n, E, L)
  PROVE  /\ m < n /\ E[m + 1] \in Int /\ Line(x) # <<>>
         /\ Len(Line(x)) < E[m + 1] /\ Line(x)[1] = <<m + 1, 1>>
         /\ Complete(Line(x)) <=> Len(Line(x)) = E[m + 1] - 1
         /\ HasLF(x) => /\ Len(Line(x)) = E[m + 1] - 1 /\ E[m + 1] <= Len(x)
                        /\ AfterLine(x) = SubSeq(x, E[m + 1] + 1, Len(x))
                        /\ x[E[m + 1]] = LF
         /\ ~HasLF(x) => Line(x) = x /\ Unfinished(x) = x
<1>1. /\ Framed(x \o y, m, n, E, L) /\ E[m] = 0
      /\ \A i \in m + 1..n : E[i - 1] + MinLine <= E[i]
  BY DEF Ahead
<1>2. PICK l \in Nat : l = Len(x) /\ 4 <= l
  BY LenProperties DEF MinLine
<1>3. x # <<>>
  BY <1>2, EmptySeq
<1>4. PICK k \in m + 1..n :
        /\ E[k - 1] \in Int /\ E[k] \in Int /\ E[k - 1] <= 0
        /\ Line(x) \in Seq(Bytes) /\ Len(Line(x)) < E[k]
        /\ \A i \in 1..Len(Line(x)) : In(Line(x), i, k, E[k - 1], E[k])
        /\ HasLF(x) => /\ Len(Line(x)) = E[k] - 1 /\ E[k] <= Len(x)
                       /\ AfterLine(x) = SubSeq(x, E[k] + 1, Len(x))
        /\ ~HasLF(x) => Line(x) = x
  BY <1>1, <1>3, FirstLine
<1>5. k = m + 1
  <2>1. SUFFICES ASSUME m + 1 < k PROVE FALSE
    BY <1>4
  <2>2. m \in m..n /\ k - 1 \in m..n /\ m < k - 1
    BY <2>1
  <2>3. E[m] + 2 <= E[k - 1]
    BY <1>1, <2>2 DEF Framed
  <2> QED
    BY <1>1, <1>4, <2>3
<1>6. m < n /\ k - 1 = m /\ k \in Nat \ {0}
  BY <1>5
<1>7. E[k - 1] = 0 /\ 4 <= E[k]
  <2>1. E[k - 1] + MinLine <= E[k]
    BY <1>1, <1>4
  <2> QED
    BY <1>1, <1>4, <1>6, <2>1 DEF MinLine
<1>8. PICK h \in Nat : h = Len(Line(x)) /\ 3 <= h /\ h < E[k]
  <2>1. CASE HasLF(x)
    BY <1>4, <1>7, <2>1, LenProperties
  <2>2. CASE ~HasLF(x)
    BY <1>2, <1>4, <2>2
  <2> QED
    BY <2>1, <2>2
<1>9. Line(x) # <<>>
  BY <1>8, EmptySeq
<1>10. Line(x)[1] = <<k, 1>>
  <2>1. In(Line(x), 1, k, E[k - 1], E[k]) /\ 1 < E[k] - 1 /\ 1 - E[k - 1] = 1
    BY <1>4, <1>7, <1>8
  <2> QED
    BY <1>4, <1>6, <2>1, ByteIs
<1>11. Complete(Line(x)) <=> Len(Line(x)) = E[k] - 1
  <2>1. Last(Line(x)) = CR <=> Len(Line(x)) = E[k] - 1
    BY <1>4, <1>6, <1>9, EndsInCR
  <2> QED
    BY <1>9, <2>1 DEF Complete
<1>12. ASSUME HasLF(x) PROVE x[E[k]] = LF
  <2>1. E[k] \in 1..Len(x) /\ k \in m..n
    BY <1>2, <1>4, <1>7, <1>12
  <2>2. PICK i \in 1..Len(x) : i = E[k]
    BY <2>1
  <2>3. x \o y \in Seq(Bytes) /\ i \in 1..Len(x \o y) /\ (x \o y)[i] = x[i]
    <3>1. /\ x \o y \in Seq(Bytes) /\ Len(x \o y) = Len(x) + Len(y)
          /\ \A j \in 1..Len(x) : (x \o y)[j] = x[j]
      BY Joined
    <3> QED
      BY <1>2, <3>1, LenProperties
  <2>4. (x \o y)[i] = LF
    <3>1. PICK b \in Seq(Bytes) : b = x \o y
      BY <2>3
    <3>2. Framed(b, m, n, E, L) /\ i \in 1..Len(b) /\ k \in m..n /\ E[k] = i
      BY <1>1, <2>1, <2>2, <2>3, <3>1
    <3>3. b[i] = LF
      BY <3>2, EndsAreLF
    <3> QED
      BY <3>1, <3>3
  <2> QED
    BY <2>2, <2>3, <2>4
<1>13. ~HasLF(x) => Unfinished(x) = x
  BY NoLineIs
<1> QED
  BY <1>4, <1>5, <1>6, <1>9, <1>10, <1>11, <1>12, <1>13

\* A batch is written when the callbacks of the last one have been called.
LEMMA WriteInv ==
  ASSUME CleanInv, NEW k \in 1..MaxBatch, Write(k)
  PROVE  CleanInv'
<1>1. /\ callbacks' = [j \in 1..k |-> asked + j] /\ toServer' = toServer \o callbacks'
      /\ asked' = asked + k /\ step' = "reading" /\ step = "idle"
      /\ UNCHANGED <<inBuf, fromServer, replies, answers>>
  BY DEF Write, parse
<1>2. ReplyTypes /\ callbacks = <<>> /\ k \in Nat \ {0} /\ asked \in Nat
  BY <1>1, ReplyAssumption DEF CleanInv, StepInv, ReplyTypes
<1>3. PICK m \in Nat, n \in Nat :
        /\ m <= n /\ Row(callbacks, m, asked) /\ Row(toServer, n, asked)
        /\ \A r \in Requests : answers[r] = "ok" => r <= m /\ replies[r] = "good"
        /\ \E E, L : Ahead(inBuf \o fromServer, m, n, E, L)
  BY DEF CleanInv, Replying
<1>4. m = asked /\ n = asked /\ toServer = <<>>
  <2>1. m = asked
    BY <1>2, <1>3, RowEmpty
  <2>2. n <= asked /\ (toServer = <<>> <=> n = asked)
    BY <1>2, <1>3, RowEmpty
  <2> QED
    BY <1>2, <1>3, <2>1, <2>2
<1>5. Row(callbacks', asked, asked') /\ callbacks' # <<>> /\ toServer' = callbacks'
  BY <1>1, <1>2, <1>4, NewRow
<1>6. ReplyTypes'
  BY <1>1, <1>2 DEF ReplyTypes
<1>7. Replying'
  BY <1>1, <1>3, <1>4, <1>5 DEF Replying
<1>8. StepInv'
  BY <1>1, <1>5 DEF StepInv
<1> QED
  BY <1>6, <1>7, <1>8 DEF CleanInv

\* The server replies to the next request.
LEMMA ReplyKeeps ==
  ASSUME CleanInv, NEW kind \in {"good", "error"}, NEW len \in ReplyLengths, Reply(kind, len)
  PROVE  CleanInv'
<1>1. /\ toServer # <<>> /\ toServer' = Tail(toServer)
      /\ fromServer' = fromServer \o Text(Head(toServer), len) \o EndOfLine
      /\ replies' = [replies EXCEPT ![Head(toServer)] = kind]
      /\ UNCHANGED <<step, callbacks, asked, inBuf, left, eof, answers, wraps>>
  BY DEF Reply, batch, parse
<1>2. ReplyTypes /\ len \in Nat \ {0, 1} /\ StepInv /\ asked \in Nat
  BY ReplyAssumption DEF CleanInv, ReplyTypes
<1>3. PICK m \in Nat, n \in Nat :
        /\ m <= n /\ Row(callbacks, m, asked) /\ Row(toServer, n, asked)
        /\ \A r \in Requests : answers[r] = "ok" => r <= m /\ replies[r] = "good"
        /\ \E E, L : Ahead(inBuf \o fromServer, m, n, E, L)
  BY DEF CleanInv, Replying
<1>4. Head(toServer) = n + 1 /\ Row(toServer', n + 1, asked)
  BY <1>1, <1>2, <1>3, RowTaken
<1>5. PICK E, L : Ahead(inBuf \o fromServer, m, n, E, L)
  BY <1>3
<1>6. /\ fromServer' \in Seq(Bytes)
      /\ \E F, M : Ahead(inBuf \o fromServer', m, n + 1, F, M)
  <2>1. inBuf \in Seq(Bytes) /\ fromServer \in Seq(Bytes)
    BY <1>2 DEF ReplyTypes
  <2> QED
    BY <1>1, <1>2, <1>3, <1>4, <1>5, <2>1, AheadMore
<1>7. fromServer' # <<>>
  <2>1. fromServer \in Seq(Bytes) /\ n + 1 \in Nat /\ len \in Nat
    BY <1>2 DEF ReplyTypes
  <2>2. PICK t \in Seq(Bytes) : t = Text(n + 1, len)
    BY <2>1, LineSent
  <2>3. EndOfLine \in Seq(Bytes) /\ EndOfLine # <<>> /\ fromServer \o t \in Seq(Bytes)
    BY <2>1, <2>2, LineSent, ConcatProperties DEF EndOfLine
  <2> QED
    BY <1>1, <1>4, <2>2, <2>3, ConcatEqualIffEmpty
<1>8. \A r \in Requests : answers'[r] = "ok" => r <= m /\ replies'[r] = "good"
  <2>1. ASSUME NEW r \in Requests, answers[r] = "ok" PROVE r <= m /\ replies'[r] = "good"
    <3>1. r <= m /\ replies[r] = "good" /\ r # n + 1
      BY <1>3, <2>1 DEF Requests
    <3> QED
      BY <1>1, <1>2, <1>4, <3>1 DEF ReplyTypes
  <2> QED
    BY <1>1, <2>1
<1>9. ReplyTypes'
  BY <1>1, <1>2, <1>6 DEF ReplyTypes
<1>10. Replying'
  <2>1. m \in Nat /\ n + 1 \in Nat /\ m <= n + 1
    BY <1>3
  <2> QED
    BY <1>1, <1>3, <1>4, <1>6, <1>8, <2>1 DEF Replying
<1>11. StepInv'
  BY <1>1, <1>2, <1>7 DEF StepInv, SafeCut
<1> QED
  BY <1>9, <1>10, <1>11 DEF CleanInv

\* A piece of the replies arrives.
LEMMA HandleReadInv ==
  ASSUME CleanInv, NEW k \in 1..Len(fromServer), HandleReadReplies(k), clean'
  PROVE  CleanInv'
<1>1. /\ step = "reading" /\ step' = "parsing"
      /\ inBuf' = inBuf \o Piece(fromServer, k) /\ fromServer' = AfterPiece(fromServer, k)
      /\ left' = Len(inBuf') /\ eof' = FALSE
      /\ UNCHANGED <<callbacks, asked, toServer, replies, answers, wraps>>
  BY DEF HandleReadReplies, batch
<1>2. SafeCut(inBuf)'
  <2>1. SafeCut(inBuf')
    BY DEF HandleReadReplies
  <2> QED
    BY <1>1, <2>1 DEF SafeCut
<1>3. ReplyTypes /\ Replying
  BY DEF CleanInv
<1>4. /\ inBuf' \in Seq(Bytes) /\ fromServer' \in Seq(Bytes)
      /\ inBuf' \o fromServer' = inBuf \o fromServer
  BY <1>1, <1>3, Moved DEF ReplyTypes
<1>5. ReplyTypes'
  BY <1>1, <1>3, <1>4 DEF ReplyTypes
<1>6. Replying'
  BY <1>1, <1>3, <1>4 DEF Replying
<1>7. StepInv'
  BY <1>1, <1>2 DEF StepInv
<1> QED
  BY <1>5, <1>6, <1>7 DEF CleanInv

\* The loop runs before a whole line and its request, or before a part that is put back.
LEMMA LoopRuns ==
  ASSUME CleanInv, More
  PROVE  \E m, n, E, L :
           /\ m \in Nat /\ n \in Nat
           /\ m < n /\ Row(callbacks, m, asked) /\ Row(toServer, n, asked)
           /\ \A r \in Requests : answers[r] = "ok" => r <= m /\ replies[r] = "good"
           /\ Ahead(inBuf \o fromServer, m, n, E, L)
           /\ E[m + 1] \in Int /\ Got = Line(inBuf) /\ Got # <<>>
           /\ Len(Got) < E[m + 1] /\ Got[1] = <<m + 1, 1>>
           /\ Complete(Got) => /\ HasLF(inBuf) /\ Len(Got) = E[m + 1] - 1
                               /\ E[m + 1] <= Len(inBuf) /\ inBuf[E[m + 1]] = LF
                               /\ AfterLine(inBuf) = SubSeq(inBuf, E[m + 1] + 1, Len(inBuf))
           /\ ~Complete(Got) => wraps /\ Got = inBuf
<1>1. /\ step = "parsing" /\ callbacks # <<>>
      /\ ~eof /\ left = Len(inBuf) /\ SafeCut(inBuf)
  BY DEF More, CleanInv, StepInv
<1>2. inBuf \in Seq(Bytes) /\ fromServer \in Seq(Bytes)
  BY DEF CleanInv, ReplyTypes
<1>3. MinLine <= Len(inBuf)
  <2>1. Len(inBuf) \in Nat
    BY <1>2, LenProperties
  <2> QED
    BY <1>1, <2>1 DEF More
<1>4. PICK m \in Nat, n \in Nat :
        /\ m <= n /\ Row(callbacks, m, asked) /\ Row(toServer, n, asked)
        /\ \A r \in Requests : answers[r] = "ok" => r <= m /\ replies[r] = "good"
        /\ \E E, L : Ahead(inBuf \o fromServer, m, n, E, L)
  BY DEF CleanInv, Replying
<1>5. PICK E, L : Ahead(inBuf \o fromServer, m, n, E, L)
  BY <1>4
<1>6. /\ m < n /\ E[m + 1] \in Int /\ Line(inBuf) # <<>>
      /\ Len(Line(inBuf)) < E[m + 1] /\ Line(inBuf)[1] = <<m + 1, 1>>
      /\ Complete(Line(inBuf)) <=> Len(Line(inBuf)) = E[m + 1] - 1
      /\ HasLF(inBuf) => /\ Len(Line(inBuf)) = E[m + 1] - 1 /\ E[m + 1] <= Len(inBuf)
                         /\ AfterLine(inBuf) = SubSeq(inBuf, E[m + 1] + 1, Len(inBuf))
                         /\ inBuf[E[m + 1]] = LF
      /\ ~HasLF(inBuf) => Line(inBuf) = inBuf /\ Unfinished(inBuf) = inBuf
  BY <1>2, <1>3, <1>5, AheadLine
<1>7. Got = Line(inBuf)
  BY <1>1 DEF Got
<1>8. ASSUME ~HasLF(inBuf) PROVE wraps /\ Last(inBuf) # CR
  <2>1. ~(Len(inBuf) < MinLine)
    BY <1>2, <1>3, LenProperties DEF MinLine
  <2> QED
    BY <1>1, <1>6, <1>8, <2>1 DEF SafeCut
<1>9. ASSUME Complete(Got) PROVE HasLF(inBuf)
  <2>1. Last(Line(inBuf)) = CR
    BY <1>7, <1>9 DEF Complete
  <2> QED
    BY <1>6, <1>8, <2>1
<1>10. ASSUME ~Complete(Got) PROVE wraps /\ Got = inBuf
  <2>1. ~HasLF(inBuf)
    BY <1>6, <1>7, <1>10
  <2> QED
    BY <1>6, <1>7, <1>8, <2>1
<1> QED
  BY <1>4, <1>5, <1>6, <1>7, <1>9, <1>10

\* No line is empty.
LEMMA EmptyLineInv ==
  ASSUME CleanInv, EmptyLine
  PROVE  FALSE
  BY LoopRuns DEF EmptyLine

\* A part of a line is put back.
LEMMA UnterminatedInv ==
  ASSUME CleanInv, Unterminated
  PROVE  CleanInv'
<1>1. /\ More /\ ~Complete(Got) /\ step' = "reading"
      /\ inBuf' = IF wraps THEN inBuf ELSE <<>>
      /\ UNCHANGED <<callbacks, asked, toServer, fromServer, replies, answers>>
  BY DEF Unterminated, batch, stream
<1>2. PICK m, n, E, L :
        /\ m \in Nat /\ n \in Nat
        /\ m < n /\ Row(toServer, n, asked)
        /\ Ahead(inBuf \o fromServer, m, n, E, L)
        /\ E[m + 1] \in Int /\ Len(Got) < E[m + 1]
        /\ wraps /\ Got = inBuf
  BY <1>1, LoopRuns
<1> m \in Nat /\ n \in Nat
  BY <1>2
<1>3. ReplyTypes /\ Replying
  BY DEF CleanInv
<1>4. inBuf' = inBuf
  BY <1>1, <1>2
<1>5. callbacks # <<>>
  BY <1>1 DEF More
<1>6. ASSUME fromServer = <<>> PROVE FALSE
  <2>1. inBuf \o fromServer = inBuf /\ inBuf \in Seq(Bytes)
    BY <1>3, <1>6, ConcatEmptySeq DEF ReplyTypes
  <2>2. Framed(inBuf, m, n, E, L)
    BY <1>2, <2>1 DEF Ahead
  <2>3. E[n] = Len(inBuf) /\ Len(inBuf) \in Nat
    BY <2>1, <2>2, LenProperties DEF Framed
  <2>4. m + 1 \in m..n /\ n \in m..n /\ m + 1 <= n
    BY <1>2
  <2>5. E[m + 1] <= E[n]
    BY <2>1, <2>2, <2>4, InOrder
  <2> QED
    BY <1>2, <2>3, <2>5
<1>7. ReplyTypes' /\ Replying'
  BY <1>1, <1>3, <1>4 DEF ReplyTypes, Replying
<1>8. StepInv'
  BY <1>1, <1>5, <1>6 DEF StepInv
<1> QED
  BY <1>7, <1>8 DEF CleanInv

\* The batch fails; nothing is left in the buffer when the next connection is made.
LEMMA ReconnectInv ==
  ASSUME CleanInv, inBuf' = <<>>, Reconnect(inBuf'), UNCHANGED <<asked, replies>>
  PROVE  CleanInv'
<1>1. /\ answers' = [r \in Requests |->
                       IF Contains(callbacks, r) THEN "failed" ELSE answers[r]]
      /\ callbacks' = <<>> /\ toServer' = <<>> /\ fromServer' = <<>> /\ step' = "idle"
  BY DEF Reconnect
<1>2. ReplyTypes /\ asked \in Nat
  BY DEF CleanInv, ReplyTypes
<1>3. PICK m \in Nat :
        /\ Row(callbacks, m, asked)
        /\ \A r \in Requests : answers[r] = "ok" => r <= m /\ replies[r] = "good"
  BY DEF CleanInv, Replying
<1>4. m <= asked
  BY <1>2, <1>3, RowEmpty
<1>5. ASSUME NEW r \in Requests, answers'[r] = "ok"
      PROVE  r <= asked' /\ replies'[r] = "good"
  <2>1. answers[r] = "ok"
    BY <1>1, <1>5
  <2>2. r <= m /\ replies[r] = "good" /\ r \in Nat
    BY <1>3, <2>1 DEF Requests
  <2> QED
    BY <1>2, <1>4, <2>2
<1>6. ReplyTypes'
  <2>1. answers' \in [Requests -> {"none", "ok", "failed"}]
    BY <1>1, <1>2 DEF ReplyTypes
  <2>2. inBuf' \in Seq(Bytes) /\ fromServer' \in Seq(Bytes)
    BY <1>1
  <2> QED
    BY <1>2, <2>1, <2>2 DEF ReplyTypes
<1>7. Row(callbacks', asked', asked') /\ Row(toServer', asked', asked')
  BY <1>1, <1>2, EmptyRow
<1>8. \E E, L : Ahead(inBuf' \o fromServer', asked', asked', E, L)
  BY <1>1, <1>2, AheadEmpty
<1>9. Replying'
  BY <1>2, <1>5, <1>7, <1>8 DEF Replying
<1>10. StepInv'
  BY <1>1 DEF StepInv
<1> QED
  BY <1>6, <1>9, <1>10 DEF CleanInv

\* A request gets its reply.
LEMMA TakeInv ==
  ASSUME CleanInv, Take
  PROVE  CleanInv'
<1>1. /\ More /\ Complete(Got) /\ Good(Got)
      /\ eof' = (eof \/ ~HasLF(inBuf)) /\ inBuf' = IF eof THEN inBuf ELSE AfterLine(inBuf)
      /\ answers' = [answers EXCEPT ![Head(callbacks)] = "ok"]
      /\ callbacks' = Tail(callbacks) /\ left' = left - (Len(Got) + 1)
      /\ UNCHANGED <<step, asked, toServer, fromServer, replies, wraps>>
  BY DEF Take, GetLine, stream
<1>2. /\ ReplyTypes /\ asked \in Nat /\ step = "parsing" /\ callbacks # <<>>
      /\ ~eof /\ left = Len(inBuf) /\ SafeCut(inBuf)
      /\ inBuf \in Seq(Bytes) /\ fromServer \in Seq(Bytes)
  BY <1>1 DEF CleanInv, StepInv, ReplyTypes, More
<1>3. PICK m, n, E, L :
        /\ m \in Nat /\ n \in Nat
        /\ m < n /\ Row(callbacks, m, asked) /\ Row(toServer, n, asked)
        /\ \A r \in Requests : answers[r] = "ok" => r <= m /\ replies[r] = "good"
        /\ Ahead(inBuf \o fromServer, m, n, E, L)
        /\ E[m + 1] \in Int /\ Got # <<>> /\ Got[1] = <<m + 1, 1>>
        /\ HasLF(inBuf) /\ Len(Got) = E[m + 1] - 1
        /\ E[m + 1] <= Len(inBuf) /\ inBuf[E[m + 1]] = LF
        /\ AfterLine(inBuf) = SubSeq(inBuf, E[m + 1] + 1, Len(inBuf))
  BY <1>1, LoopRuns
<1> m \in Nat /\ n \in Nat
  BY <1>3
<1>4. Head(callbacks) = m + 1 /\ Row(callbacks', m + 1, asked)
  BY <1>1, <1>2, <1>3, RowTaken
<1>5. replies[m + 1] = "good"
  <2>1. PICK r \in Requests : Got[1] = <<r, 1>> /\ replies[r] = "good"
    BY <1>1 DEF Good
  <2>2. r = m + 1
    BY <1>3, <2>1
  <2> QED
    BY <2>1, <2>2
<1>6. /\ inBuf' = SubSeq(inBuf, E[m + 1] + 1, Len(inBuf)) /\ eof' = FALSE
  BY <1>1, <1>2, <1>3
<1>7. /\ inBuf' \in Seq(Bytes) /\ Len(inBuf') = Len(inBuf) - E[m + 1]
      /\ \E F, M : Ahead(inBuf' \o fromServer, m + 1, n, F, M)
  <2>1. m \in Nat /\ n \in Nat /\ m < n
    BY <1>3
  <2>2. Ahead(inBuf \o fromServer, m, n, E, L) /\ E[m + 1] <= Len(inBuf)
    BY <1>3
  <2>3. /\ SubSeq(inBuf, E[m + 1] + 1, Len(inBuf)) \in Seq(Bytes)
        /\ Len(SubSeq(inBuf, E[m + 1] + 1, Len(inBuf))) = Len(inBuf) - E[m + 1]
        /\ \E F, M : Ahead(SubSeq(inBuf, E[m + 1] + 1, Len(inBuf)) \o fromServer,
                           m + 1, n, F, M)
    BY <1>2, <2>1, <2>2, AheadTaken
  <2> QED
    BY <1>6, <2>3
<1>8. left' = Len(inBuf')
  BY <1>1, <1>2, <1>3, <1>7, LenProperties
<1>9. SafeCut(inBuf)'
  <2>1. E[m + 1] \in 1..Len(inBuf)
    <3>1. Len(Got) \in Nat
      <4>1. Got = Line(inBuf)
        BY <1>2 DEF Got
      <4>2. Line(inBuf) \in Seq(Bytes)
        <5>1. PICK q \in 1..Len(inBuf) : inBuf[q] = LF /\ \A i \in 1..q - 1 : inBuf[i] # LF
          BY <1>2, <1>3, FirstLF
        <5> QED
          BY <1>2, <5>1, LineIs
      <4> QED
        BY <4>1, <4>2, LenProperties
    <3> QED
      BY <1>2, <1>3, <3>1, LenProperties
  <2>2. Unfinished(inBuf') = Unfinished(inBuf)
    BY <1>2, <1>3, <1>6, <2>1, UnfinishedBehind
  <2> QED
    BY <1>1, <1>2, <2>2 DEF SafeCut
<1>10. ASSUME NEW r \in Requests, answers'[r] = "ok"
       PROVE  r <= m + 1 /\ replies'[r] = "good"
  <2>1. CASE r = m + 1
    BY <1>1, <1>5, <2>1
  <2>2. CASE r # m + 1
    <3>1. answers[r] = "ok" /\ r \in Nat
      BY <1>1, <1>2, <1>4, <1>10, <2>2 DEF ReplyTypes, Requests
    <3>2. r <= m /\ replies[r] = "good"
      BY <1>3, <3>1
    <3> QED
      BY <1>1, <3>1, <3>2
  <2> QED
    BY <2>1, <2>2
<1>11. ReplyTypes'
  BY <1>1, <1>2, <1>7 DEF ReplyTypes
<1>12. Replying'
  <2>1. m + 1 \in Nat /\ m + 1 <= n
    BY <1>3
  <2> QED
    BY <1>1, <1>3, <1>4, <1>7, <1>10, <2>1 DEF Replying
<1>13. StepInv'
  BY <1>1, <1>2, <1>6, <1>8, <1>9 DEF StepInv
<1> QED
  BY <1>11, <1>12, <1>13 DEF CleanInv

\* The rest of a line stays in the buffer.
LEMMA LoopEndsInv ==
  ASSUME CleanInv, LoopEnds
  PROVE  CleanInv'
<1>1. /\ step = "parsing" /\ ~More /\ inBuf' = Consume(inBuf, Len(inBuf) - left)
      /\ step' = IF callbacks # <<>> THEN "reading" ELSE "idle"
      /\ UNCHANGED <<callbacks, asked, toServer, fromServer, replies, answers>>
  BY DEF LoopEnds, batch, stream
<1>2. /\ ReplyTypes /\ Replying /\ left = Len(inBuf)
      /\ inBuf \in Seq(Bytes) /\ fromServer \in Seq(Bytes) /\ asked \in Nat
  BY <1>1 DEF CleanInv, StepInv, ReplyTypes
<1>3. inBuf' = inBuf
  <2>1. Len(inBuf) \in Nat /\ Len(inBuf) - left + 1 = 1
    BY <1>2, LenProperties
  <2>2. inBuf' = SubSeq(inBuf, 1, Len(inBuf))
    BY <1>1, <2>1 DEF Consume
  <2> QED
    BY <1>2, <2>2, SubSeqFull
<1>4. ASSUME callbacks # <<>>, toServer = <<>> PROVE fromServer # <<>>
  <2>1. Len(inBuf) \in Nat /\ Len(inBuf) < MinLine
    BY <1>1, <1>2, <1>4, LenProperties DEF More, MinLine
  <2>2. PICK m, n, E, L :
          /\ m \in Nat /\ n \in Nat
          /\ m <= n /\ Row(callbacks, m, asked) /\ Row(toServer, n, asked)
          /\ Ahead(inBuf \o fromServer, m, n, E, L)
    BY <1>2 DEF Replying
  <2> m \in Nat /\ n \in Nat
    BY <2>2
  <2>3. m < n
    <3>1. n = asked
      BY <1>2, <1>4, <2>2, RowEmpty
    <3>2. m <= asked /\ m # asked
      BY <1>2, <1>4, <2>2, RowEmpty
    <3> QED
      BY <1>2, <2>2, <3>1, <3>2
  <2>4. SUFFICES ASSUME fromServer = <<>> PROVE FALSE
    OBVIOUS
  <2>5. inBuf \o fromServer = inBuf
    BY <1>2, <2>4, ConcatEmptySeq
  <2>6. Framed(inBuf, m, n, E, L) /\ E[m] = 0 /\ E[m] + MinLine <= E[m + 1]
    <3>1. m + 1 \in m + 1..n /\ m + 1 - 1 = m
      BY <2>3
    <3> QED
      BY <2>2, <2>5, <3>1 DEF Ahead
  <2>7. E[n] = Len(inBuf)
    BY <2>6 DEF Framed
  <2>8. m + 1 \in m..n /\ n \in m..n /\ m + 1 <= n
    BY <2>3
  <2>9. E[m + 1] \in Int /\ E[m + 1] <= E[n]
    BY <1>2, <2>6, <2>8, InOrder
  <2> QED
    BY <2>1, <2>6, <2>7, <2>9 DEF MinLine
<1>5. ReplyTypes' /\ Replying'
  BY <1>1, <1>2, <1>3 DEF ReplyTypes, Replying
<1>6. StepInv'
  BY <1>1, <1>4 DEF StepInv
<1> QED
  BY <1>5, <1>6 DEF CleanInv

\* The invariant holds at first.
LEMMA ReplyInitInv ==
  ASSUME ReplyInit
  PROVE  ReplyInv
<1>1. ReplyTypes
  BY ReplyAssumption DEF ReplyInit, ReplyTypes, Requests
<1>2. callbacks = <<>> /\ toServer = <<>> /\ asked = 0 /\ inBuf = <<>> /\ fromServer = <<>>
  BY DEF ReplyInit
<1>3. Row(callbacks, 0, asked) /\ Row(toServer, 0, asked)
  BY <1>2, EmptyRow
<1>4. \E E, L : Ahead(inBuf \o fromServer, 0, 0, E, L)
  BY <1>2, AheadEmpty
<1>5. \A r \in Requests : answers[r] # "ok"
  BY DEF ReplyInit
<1>6. Replying
  <2>1. 0 \in Nat /\ 0 <= 0
    OBVIOUS
  <2> QED
    BY <1>3, <1>4, <1>5, <2>1 DEF Replying
<1>7. StepInv
  BY DEF ReplyInit, StepInv
<1>8. clean = TRUE
  BY DEF ReplyInit
<1> QED
  BY <1>1, <1>6, <1>7, <1>8 DEF CleanInv, ReplyInv

\* Every step preserves it.
LEMMA ReplyNextInv ==
  ASSUME ReplyInv, [ReplyNext]_replyVars
  PROVE  ReplyInv'
<1>1. clean \in BOOLEAN /\ (clean => CleanInv)
  BY DEF ReplyInv
<1>2. CASE UNCHANGED replyVars
  <2>1. /\ UNCHANGED <<step, callbacks, asked, inBuf, left, eof, toServer>>
        /\ UNCHANGED <<fromServer, replies, answers, wraps, clean>>
    BY <1>2 DEF replyVars, batch, parse, stream
  <2> QED
    BY <1>1, <2>1
       DEF ReplyInv, CleanInv, ReplyTypes, Replying, StepInv, SafeCut
<1>3. ASSUME NEW k \in 1..MaxBatch, Write(k) PROVE ReplyInv'
  <2>1. clean' = clean
    BY <1>3 DEF Write
  <2> QED
    BY <1>1, <1>3, <2>1, WriteInv DEF ReplyInv
<1>4. ASSUME NEW kind \in {"good", "error"}, NEW len \in ReplyLengths, Reply(kind, len)
      PROVE  ReplyInv'
  <2>1. clean' = clean
    BY <1>4 DEF Reply
  <2> QED
    BY <1>1, <1>4, <2>1, ReplyKeeps DEF ReplyInv
<1>5. ASSUME NEW k \in 1..Len(fromServer), HandleReadReplies(k) PROVE ReplyInv'
  <2>1. clean' = (clean /\ SafeCut(inBuf'))
    BY <1>5 DEF HandleReadReplies
  <2>2. clean' \in BOOLEAN /\ (clean' => clean)
    BY <2>1
  <2> QED
    BY <1>1, <1>5, <2>2, HandleReadInv DEF ReplyInv
<1>6. CASE EmptyLine
  <2>1. clean' = clean
    BY <1>6 DEF EmptyLine
  <2> QED
    BY <1>1, <1>6, <2>1, EmptyLineInv DEF ReplyInv
<1>7. CASE Unterminated
  <2>1. clean' = clean
    BY <1>7 DEF Unterminated
  <2> QED
    BY <1>1, <1>7, <2>1, UnterminatedInv DEF ReplyInv
<1>8. CASE Unknown
  <2>1. Reconnect(inBuf') /\ UNCHANGED <<asked, replies>>
    BY <1>8 DEF Unknown
  <2>2. clean' = (clean /\ inBuf' = <<>>)
    BY <2>1 DEF Reconnect
  <2>3. clean' \in BOOLEAN /\ (clean' => clean /\ inBuf' = <<>>)
    BY <2>2
  <2> QED
    BY <1>1, <2>1, <2>3, ReconnectInv DEF ReplyInv
<1>9. CASE Take
  <2>1. clean' = clean
    BY <1>9 DEF Take
  <2> QED
    BY <1>1, <1>9, <2>1, TakeInv DEF ReplyInv
<1>10. CASE LoopEnds
  <2>1. clean' = clean
    BY <1>10 DEF LoopEnds
  <2> QED
    BY <1>1, <1>10, <2>1, LoopEndsInv DEF ReplyInv
<1>11. CASE HandleReadFails
  <2>1. Reconnect(inBuf) /\ UNCHANGED <<asked, inBuf, replies>>
    BY <1>11 DEF HandleReadFails
  <2>2. clean' = (clean /\ inBuf = <<>>) /\ Reconnect(inBuf')
    BY <2>1 DEF Reconnect
  <2>3. clean' \in BOOLEAN /\ (clean' => clean /\ inBuf' = <<>>)
    BY <2>1, <2>2
  <2> QED
    BY <1>1, <2>1, <2>2, <2>3, ReconnectInv DEF ReplyInv
<1> QED
  BY <1>2, <1>3, <1>4, <1>5, <1>6, <1>7, <1>8, <1>9, <1>10, <1>11 DEF ReplyNext, Parse

\* A byte that is on the way is of a line that has not been read.
LEMMA NotYetRead ==
  ASSUME NEW x \in Seq(Bytes), NEW y \in Seq(Bytes), NEW m \in Nat, NEW n \in Nat,
         NEW E, NEW L, Framed(x \o y, m, n, E, L), NEW j \in 1..Len(y)
  PROVE  y[j][1] = 0 \/ y[j][1] > m
<1>1. PICK p \in Nat, q \in Nat : p = Len(x) /\ q = Len(y)
  BY LenProperties
<1>2. PICK b \in Seq(Bytes) : b = x \o y
  BY Joined
<1>3. Len(b) = p + q /\ b[p + j] = y[j]
  <2>1. Len(x \o y) = Len(x) + Len(y) /\ \A i \in 1..Len(y) : (x \o y)[Len(x) + i] = y[i]
    BY Joined
  <2> QED
    BY <1>1, <1>2, <2>1
<1>4. PICK i \in 1..Len(b) : i = p + j /\ i \in Int
  <2>1. p + j \in 1..Len(b) /\ p + j \in Int
    BY <1>1, <1>3
  <2> QED
    BY <2>1
<1>5. PICK k \in m + 1..n : k = L[i]
  BY <1>2 DEF Framed
<1>6. PICK f \in Int, e \in Int : f = E[k - 1] /\ e = E[k] /\ In(b, i, k, f, e)
  <2>1. k \in m..n /\ k - 1 \in m..n
    OBVIOUS
  <2>2. E[k - 1] \in Int /\ E[k] \in Int
    BY <1>2, <2>1 DEF Framed
  <2>3. In(b, i, k, E[k - 1], E[k])
    BY <1>2, <1>5 DEF Framed
  <2> QED
    BY <2>2, <2>3
<1>7. k \in Nat \ {0} /\ k > m
  OBVIOUS
<1>8. b[i] = LF \/ b[i] = CR \/ b[i] = <<k, i - f>>
  <2>1. /\ i = e => b[i] = LF
        /\ i = e - 1 => b[i] = CR
        /\ i < e - 1 => b[i] = <<k, i - f>>
    <3>1. In(b, i, k, f, e) /\ i \in Int /\ k \in Nat \ {0}
      BY <1>4, <1>6, <1>7
    <3>2. /\ i = e <=> b[i] = LF
          /\ i = e - 1 => b[i] = CR
          /\ i < e - 1 => b[i] = <<k, i - f>> /\ i - f \in Nat
      BY <3>1, ByteIs
    <3> QED
      BY <3>2
  <2>2. i <= e
    BY <1>6 DEF In
  <2>3. i = e \/ i = e - 1 \/ i < e - 1
    BY <1>4, <2>2
  <2> QED
    BY <2>1, <2>3
<1>9. b[i][1] = 0 \/ b[i][1] = k
  BY <1>8 DEF LF, CR
<1> QED
  BY <1>3, <1>4, <1>7, <1>9

(* A callback is called with true only when its own reply has come, whole    *)
(* and good, whatever the replies are and however many bytes each read of    *)
(* handle_read (redis_connection.cpp:252-287) gets, as long as every piece   *)
(* ends at a SafeCut and no reconnect leaves anything in in_buf_.            *)
THEOREM RepliesAreMatched == ReplySpec => []OwnReply
<1>1. ReplyInit => ReplyInv
  BY ReplyInitInv
<1>2. ReplyInv /\ [ReplyNext]_replyVars => ReplyInv'
  BY ReplyNextInv
<1>3. ASSUME ReplyInv PROVE OwnReply
  <2>1. SUFFICES ASSUME clean
                 PROVE  /\ step # "crashed"
                        /\ \A r \in Requests : answers[r] = "ok" =>
                             replies[r] = "good" /\ \A j \in 1..Len(fromServer) :
                                                      fromServer[j][1] # r
    BY DEF OwnReply
  <2>2. ReplyTypes /\ Replying /\ StepInv
    BY <1>3, <2>1 DEF ReplyInv, CleanInv
  <2>3. PICK m, n, E, L :
          /\ m \in Nat /\ n \in Nat
          /\ \A r \in Requests : answers[r] = "ok" => r <= m /\ replies[r] = "good"
          /\ Framed(inBuf \o fromServer, m, n, E, L)
    BY <2>2 DEF Replying, Ahead
  <2> m \in Nat /\ n \in Nat
    BY <2>3
  <2>4. ASSUME NEW r \in Requests, answers[r] = "ok", NEW j \in 1..Len(fromServer)
        PROVE  fromServer[j][1] # r
    <3>1. r <= m /\ r \in Nat \ {0}
      BY <2>3, <2>4 DEF Requests
    <3>2. fromServer[j][1] = 0 \/ fromServer[j][1] > m
      BY <2>2, <2>3, NotYetRead DEF ReplyTypes
    <3> QED
      BY <3>1, <3>2
  <2>5. step # "crashed"
    BY <2>2 DEF StepInv
  <2> QED
    BY <2>3, <2>4, <2>5
<1> QED
  BY <1>1, <1>2, <1>3, PTL DEF ReplySpec

(* handle_read reads on only while a reply is still to come: the callback of *)
(* the last request of the batch (redis_connection.cpp:284-287) has a reply  *)
(* that the server has still to send, or that is on the way.  As above, the *)
(* pieces end at a SafeCut.                                                  *)
THEOREM ReadsOnlyForMore == ReplySpec => []ReadsForMore
<1>1. ReplyInit => ReplyInv
  BY ReplyInitInv
<1>2. ReplyInv /\ [ReplyNext]_replyVars => ReplyInv'
  BY ReplyNextInv
<1>3. ASSUME ReplyInv PROVE ReadsForMore
  <2>1. SUFFICES ASSUME clean, step = "reading", fromServer = <<>>
                 PROVE  Last(callbacks) \in ToSet(toServer)
    BY DEF ReadsForMore
  <2>2. asked \in Nat /\ Replying /\ callbacks # <<>> /\ toServer # <<>>
    BY <1>3, <2>1 DEF ReplyInv, CleanInv, ReplyTypes, StepInv
  <2>3. PICK m \in Nat, n \in Nat : Row(callbacks, m, asked) /\ Row(toServer, n, asked)
    BY <2>2 DEF Replying
  <2>4. Last(callbacks) = asked
    BY <2>2, <2>3, RowTaken
  <2>5. asked \in ToSet(toServer)
    BY <2>2, <2>3, RowTaken
  <2> QED
    BY <2>4, <2>5
<1> QED
  BY <1>1, <1>2, <1>3, PTL DEF ReplySpec

-----------------------------------------------------------------------------
(* WialonInput                                                               *)

InputTypes ==
  /\ lockStep \in BOOLEAN
  /\ sbuf \in Seq(Bytes) /\ wire \in Seq(Bytes) /\ msg \in Seq(Bytes)
  /\ sent \in Seq(Seq(Bytes)) /\ handled \in Seq(Seq(Bytes))

\* The lines that a device has sent, none after line h was taken for a message.
Coming(h, n, E) ==
  /\ h <= n /\ E[h] <= 1
  /\ \A k \in 1..n : sent[k] = Text(k, E[k] - E[k - 1] - 2)
  /\ lockStep => E[h] = 0 /\ n <= h + 1

\* The messages are the ends of lines up to h, in their order, and those lines themselves
\* when the device waits.
Handled(h) ==
  /\ \E lineOf \in [1..Len(handled) -> 1..h] :
       /\ \A i, j \in 1..Len(handled) : i < j => lineOf[i] < lineOf[j]
       /\ \A i \in 1..Len(handled) : EndsLine(handled[i], sent[lineOf[i]])
  /\ lockStep => h = Len(handled) /\ \A i \in 1..h : handled[i] = sent[i]

Reading ==
  \E h, E, L :
    /\ h \in Nat /\ Handled(h)
    /\ Framed(sbuf \o wire, 0, Len(sent), E, L) /\ Coming(h, Len(sent), E)

\* What handle_read relies on in its loop.
Looping ==
  /\ pc = "looping" => sbuf = <<>> \/ \A j \in 1..Len(msg) : msg[j] = LF
  /\ lockStep => /\ pc \in {"reading", "looping"}
                 /\ pc = "looping" => msg = <<>> /\ Delimited(sbuf)

LinesInv == InputTypes /\ Reading /\ Looping

InputInv == WellFormed => LinesInv

\* The end of a sequence of bytes.
LEMMA SuffixIs ==
  ASSUME NEW x \in Seq(Bytes), NEW y \in Seq(Bytes), NEW c \in Nat, Len(y) = c + Len(x),
         \A i \in 1..Len(x) : x[i] = y[c + i]
  PROVE  IsSuffix(x, y)
<1>1. PICK p \in Nat : p = Len(x)
  BY LenProperties
<1>2. PICK u : u = Reverse(x)
  OBVIOUS
<1>3. PICK v : v = Reverse(y)
  OBVIOUS
<1>4. \A i \in 1..p : x[i] \in Bytes
  BY <1>1, ElementOfSeq
<1>5. /\ Len(u) = p /\ \A i \in 1..p : u[i] = x[p - i + 1]
      /\ \A i \in 1..p : u[i] \in Bytes
  <2>1. u = [i \in 1..p |-> x[p - i + 1]]
    BY <1>1, <1>2 DEF Reverse
  <2>2. \A i \in 1..p : p - i + 1 \in 1..p
    OBVIOUS
  <2> QED
    BY <1>4, <2>1, <2>2
<1>6. Len(v) = c + p /\ \A i \in 1..c + p : v[i] = y[c + p - i + 1]
  <2>1. v = [i \in 1..c + p |-> y[c + p - i + 1]]
    BY <1>1, <1>3 DEF Reverse
  <2> QED
    BY <2>1
<1>7. ASSUME NEW i \in 1..p PROVE v[i] = u[i]
  <2>1. PICK j \in 1..p : j = p - i + 1
    <3>1. p - i + 1 \in 1..p
      OBVIOUS
    <3> QED
      BY <3>1
  <2>2. c + p - i + 1 = c + j /\ i \in 1..c + p
    BY <2>1
  <2>3. v[i] = y[c + j]
    BY <1>6, <2>2
  <2>4. u[i] = x[j]
    BY <1>5, <2>1
  <2> QED
    BY <1>1, <2>3, <2>4
<1>8. /\ SubSeq(u, 1, p) \in Seq(Bytes) /\ Len(SubSeq(u, 1, p)) = p
      /\ \A i \in 1..p : SubSeq(u, 1, p)[i] = u[i]
  <2>1. /\ SubSeq(u, 1, p) \in Seq(Bytes)
        /\ Len(SubSeq(u, 1, p)) = IF 1 <= p THEN p - 1 + 1 ELSE 0
        /\ \A i \in 1..p - 1 + 1 : SubSeq(u, 1, p)[i] = u[1 + i - 1]
    BY <1>5, SubSeqProperties
  <2> QED
    BY <2>1
<1>9. /\ SubSeq(v, 1, p) \in Seq(Bytes) /\ Len(SubSeq(v, 1, p)) = p
      /\ \A i \in 1..p : SubSeq(v, 1, p)[i] = v[i]
  <2>1. \A i \in 1..p : v[i] \in Bytes
    BY <1>5, <1>7
  <2>2. /\ SubSeq(v, 1, p) \in Seq(Bytes)
        /\ Len(SubSeq(v, 1, p)) = IF 1 <= p THEN p - 1 + 1 ELSE 0
        /\ \A i \in 1..p - 1 + 1 : SubSeq(v, 1, p)[i] = v[1 + i - 1]
    BY <2>1, SubSeqProperties
  <2> QED
    BY <2>2
<1>10. SubSeq(u, 1, p) = SubSeq(v, 1, p)
  <2>1. \A i \in 1..p : SubSeq(u, 1, p)[i] = SubSeq(v, 1, p)[i]
    BY <1>7, <1>8, <1>9
  <2> QED
    BY <1>8, <1>9, <2>1, SeqEqual
<1>11. IsPrefix(u, v)
  <2>1. p <= c + p
    BY <1>1
  <2> QED
    BY <1>5, <1>6, <1>10, <2>1 DEF IsPrefix
<1> QED
  BY <1>2, <1>3, <1>11 DEF IsSuffix

\* The first elements of a sequence.
LEMMA PrefixIs ==
  ASSUME NEW S, NEW x \in Seq(S), NEW y \in Seq(S), Len(x) <= Len(y),
         \A i \in 1..Len(x) : x[i] = y[i]
  PROVE  IsPrefix(x, y)
<1>1. PICK p \in Nat, q \in Nat : p = Len(x) /\ q = Len(y) /\ p <= q
  BY LenProperties
<1>2. \A i \in 1..p : x[i] \in S
  BY <1>1, ElementOfSeq
<1>3. /\ SubSeq(x, 1, p) \in Seq(S) /\ Len(SubSeq(x, 1, p)) = p
      /\ \A i \in 1..p : SubSeq(x, 1, p)[i] = x[i]
  <2>1. /\ SubSeq(x, 1, p) \in Seq(S)
        /\ Len(SubSeq(x, 1, p)) = IF 1 <= p THEN p - 1 + 1 ELSE 0
        /\ \A i \in 1..p - 1 + 1 : SubSeq(x, 1, p)[i] = x[1 + i - 1]
    BY <1>2, SubSeqProperties
  <2> QED
    BY <2>1
<1>4. /\ SubSeq(y, 1, p) \in Seq(S) /\ Len(SubSeq(y, 1, p)) = p
      /\ \A i \in 1..p : SubSeq(y, 1, p)[i] = y[i]
  <2>1. \A i \in 1..p : y[i] \in S
    BY <1>1, <1>2
  <2>2. /\ SubSeq(y, 1, p) \in Seq(S)
        /\ Len(SubSeq(y, 1, p)) = IF 1 <= p THEN p - 1 + 1 ELSE 0
        /\ \A i \in 1..p - 1 + 1 : SubSeq(y, 1, p)[i] = y[1 + i - 1]
    BY <2>1, SubSeqProperties
  <2> QED
    BY <2>2
<1>5. SubSeq(x, 1, p) = SubSeq(y, 1, p)
  <2>1. \A i \in 1..p : SubSeq(x, 1, p)[i] = SubSeq(y, 1, p)[i]
    BY <1>1, <1>3, <1>4
  <2> QED
    BY <1>3, <1>4, <2>1, SeqEqual
<1> QED
  BY <1>1, <1>5 DEF IsPrefix

\* What one turn of the loop takes from the buffer, x: the rest of a line, k, and bytes behind.
LEMMA LineTaken ==
  ASSUME NEW x \in Seq(Bytes), x # <<>>, NEW y \in Seq(Bytes),
         NEW n \in Nat, NEW E, NEW L, Framed(x \o y, 0, n, E, L)
  PROVE  \E k \in 1..n, c \in 0..Len(x) :
           /\ E[k - 1] \in Int /\ E[k] \in Int /\ E[k - 1] <= 0 /\ 1 <= E[k]
           /\ Line(x) \in Seq(Bytes)
           /\ \A i \in 1..Len(Line(x)) : In(Line(x), i, k, E[k - 1], E[k])
           /\ AfterGetLine(x) = SubSeq(x, c + 1, Len(x))
           /\ EndsMessage(x) => /\ Line(x) # <<>> /\ Len(Line(x)) = E[k] - 1
                                /\ 2 <= E[k] /\ E[k] - 1 <= c
           /\ ~EndsMessage(x) => AfterGetLine(x) = <<>> \/ Line(x) = <<>>
           /\ HasLF(x) /\ E[k - 1] = 0 =>
                EndsMessage(x) /\ Line(x) # <<>> /\ E[k] <= c
<1>1. PICK l \in Nat \ {0} : l = Len(x)
  BY EmptySeq
<1>2. PICK k \in 1..n :
        /\ E[k - 1] \in Int /\ E[k] \in Int /\ E[k - 1] <= 0
        /\ Line(x) \in Seq(Bytes) /\ Len(Line(x)) < E[k]
        /\ \A i \in 1..Len(Line(x)) : In(Line(x), i, k, E[k - 1], E[k])
        /\ HasLF(x) => /\ Len(Line(x)) = E[k] - 1 /\ E[k] <= Len(x)
                       /\ AfterLine(x) = SubSeq(x, E[k] + 1, Len(x))
        /\ ~HasLF(x) => Line(x) = x
  <2>1. PICK m \in Nat : m = 0
    OBVIOUS
  <2>2. Framed(x \o y, m, n, E, L)
    BY <2>1
  <2>3. PICK k \in m + 1..n :
          /\ E[k - 1] \in Int /\ E[k] \in Int /\ E[k - 1] <= 0
          /\ Line(x) \in Seq(Bytes) /\ Len(Line(x)) < E[k]
          /\ \A i \in 1..Len(Line(x)) : In(Line(x), i, k, E[k - 1], E[k])
          /\ HasLF(x) => /\ Len(Line(x)) = E[k] - 1 /\ E[k] <= Len(x)
                         /\ AfterLine(x) = SubSeq(x, E[k] + 1, Len(x))
          /\ ~HasLF(x) => Line(x) = x
    BY <2>2, FirstLine
  <2>4. k \in 1..n
    BY <2>1
  <2> QED
    BY <2>3, <2>4
<1>3. PICK p \in Nat : p = Len(Line(x))
  BY <1>2, LenProperties
<1>4. PICK e \in Nat \ {0} : e = E[k] /\ 1 <= e
  BY <1>2, <1>3
<1>5. Line(x) # <<>> => (Last(Line(x)) = CR <=> p = e - 1)
  <2>1. k \in Nat \ {0}
    OBVIOUS
  <2> QED
    BY <1>2, <1>3, <1>4, <2>1, EndsInCR
<1>6. Line(x) = <<>> <=> p = 0
  BY <1>2, <1>3, EmptySeq
<1>7. EndsMessage(x) <=> p # 0 /\ p = e - 1
  BY <1>5, <1>6 DEF EndsMessage
<1>8. k - 1 \in 0..n /\ k \in 0..n /\ k - 1 < k
  OBVIOUS
<1>9. E[k - 1] = 0 => 2 <= e
  <2>1. E[k - 1] + 2 <= E[k]
    BY <1>8 DEF Framed
  <2> QED
    BY <1>2, <1>4, <2>1
<1>10. CASE HasLF(x)
  <2>1. p = e - 1 /\ e <= l /\ AfterLine(x) = SubSeq(x, e + 1, l)
    BY <1>1, <1>2, <1>3, <1>4, <1>10
  <2>2. /\ AfterLine(x) \in Seq(Bytes) /\ Len(AfterLine(x)) = l - e
        /\ AfterGetLine(x) = SubSeq(AfterLine(x), e + 1, l - e)
    <3>1. AfterLine(x) \in Seq(Bytes) /\ Len(AfterLine(x)) = l - e
      BY <1>1, <2>1, EndOf
    <3>2. p + 1 + 1 = e + 1
      BY <2>1
    <3> QED
      BY <1>3, <3>1, <3>2 DEF AfterGetLine, Consume
  <2>3. PICK c \in 0..l : AfterGetLine(x) = SubSeq(x, c + 1, l) /\ e <= c
    <3>1. CASE e <= l - e
      <4>1. AfterGetLine(x) = SubSeq(x, e + e + 1, l)
        <5>1. e \in 0..l /\ e \in 0..l - e
          BY <2>1, <3>1
        <5> QED
          BY <1>1, <2>1, <2>2, <5>1, EndOfEnd
      <4>2. e + e \in 0..l /\ e <= e + e
        BY <2>1, <3>1
      <4> QED
        BY <4>1, <4>2
    <3>2. CASE l - e < e
      <4>1. AfterGetLine(x) = <<>>
        <5>1. l - e < e + 1 /\ l - e \in Int /\ e + 1 \in Int
          BY <3>2
        <5> QED
          BY <2>2, <5>1, SubSeqEmpty
      <4>2. SubSeq(x, l + 1, l) = <<>> /\ l \in 0..l
        BY SubSeqEmpty
      <4> QED
        BY <2>1, <4>1, <4>2
    <3> QED
      BY <3>1, <3>2
  <2>4. EndsMessage(x) => 2 <= e
    BY <1>7, <2>1
  <2>5. ~EndsMessage(x) => p = 0
    BY <1>7, <2>1
  <2>6. E[k - 1] = 0 => EndsMessage(x) /\ p # 0
    BY <1>7, <1>9, <2>1
  <2>7. e - 1 <= c
    BY <2>3
  <2> QED
    BY <1>1, <1>2, <1>3, <1>4, <1>6, <1>7, <2>1, <2>3, <2>4, <2>5, <2>6, <2>7
<1>11. CASE ~HasLF(x)
  <2>1. Line(x) = x /\ p = l
    BY <1>1, <1>2, <1>3, <1>11
  <2>2. AfterGetLine(x) = <<>>
    <3>1. AfterLine(x) = <<>>
      BY <1>11, NoLineIs
    <3>2. Len(<<>>) = 0 /\ p + 1 + 1 \in Int /\ 0 < p + 1 + 1
      OBVIOUS
    <3> QED
      BY <1>3, <3>1, <3>2, SubSeqEmpty DEF AfterGetLine, Consume
  <2>3. SubSeq(x, l + 1, l) = <<>> /\ l \in 0..l
    BY SubSeqEmpty
  <2>4. EndsMessage(x) => 2 <= e /\ e - 1 <= l
    BY <1>7, <2>1
  <2> QED
    BY <1>1, <1>2, <1>3, <1>4, <1>6, <1>7, <1>11, <2>2, <2>3, <2>4
<1> QED
  BY <1>10, <1>11

\* Fewer bytes are before the reader.
LEMMA ComingDropped ==
  ASSUME InputTypes, NEW h \in Nat, NEW n \in Nat, NEW E, Coming(h, n, E),
         E \in [0..n -> Int], NEW c \in Nat, lockStep => c = 0
  PROVE  Coming(h, n, Shorter(E, 0, n, c))
<1>1. PICK F : F = Shorter(E, 0, n, c)
  OBVIOUS
<1>2. \A i \in 0..n : F[i] = E[i] - c /\ E[i] \in Int
  BY <1>1 DEF Shorter
<1>3. /\ h <= n /\ E[h] <= 1
      /\ \A k \in 1..n : sent[k] = Text(k, E[k] - E[k - 1] - 2)
      /\ lockStep => E[h] = 0 /\ n <= h + 1
  BY DEF Coming
<1>4. F[h] = E[h] - c /\ E[h] \in Int
  BY <1>2, <1>3
<1>5. ASSUME NEW k \in 1..n PROVE sent[k] = Text(k, F[k] - F[k - 1] - 2)
  <2>1. k \in 0..n /\ k - 1 \in 0..n
    OBVIOUS
  <2>2. F[k] - F[k - 1] - 2 = E[k] - E[k - 1] - 2
    BY <1>2, <2>1
  <2> QED
    BY <1>3, <2>2
<1>6. F[h] <= 1
  BY <1>3, <1>4
<1>7. lockStep => F[h] = 0 /\ n <= h + 1
  BY <1>3, <1>4
<1> QED
  BY <1>1, <1>3, <1>5, <1>6, <1>7 DEF Coming

\* A complete line has an LF.
LEMMA DelimitedHasLF ==
  ASSUME NEW b \in Seq(Bytes), Delimited(b)
  PROVE  HasLF(b)
<1>1. PICK i \in 1..(Len(b) - 1) : SubSeq(b, i, i + 1) = EndOfLine
  BY DEF Delimited
<1>2. PICK l \in Nat : l = Len(b)
  BY LenProperties
<1>3. i + 1 \in 1..l /\ \A j \in i..i + 1 : j \in 1..l
  BY <1>1, <1>2
<1>4. \A j \in 1..i + 1 - i + 1 : SubSeq(b, i, i + 1)[j] = b[i + j - 1]
  <2>1. \A j \in i..i + 1 : b[j] \in Bytes
    BY <1>2, <1>3, ElementOfSeq
  <2> QED
    BY <2>1, SubSeqProperties
<1>5. SubSeq(b, i, i + 1)[2] = b[i + 1]
  <2>1. 2 \in 1..i + 1 - i + 1 /\ i + 2 - 1 = i + 1
    BY <1>2
  <2> QED
    BY <1>4, <2>1
<1>6. EndOfLine[2] = LF
  BY DEF EndOfLine
<1>7. b[i + 1] = LF
  BY <1>1, <1>5, <1>6
<1> QED
  BY <1>2, <1>3, <1>7 DEF HasLF, Contains

\* The text of a message, which begins at the place p of line k.
LEMMA MessageIs ==
  ASSUME NEW x \in Seq(Bytes), x # <<>>, NEW k \in Nat \ {0},
         NEW p \in Int, NEW e \in Int, p <= 0, Len(x) = e - 1,
         \A i \in 1..Len(x) : In(x, i, k, p, e)
  PROVE  /\ Front(x) \in Seq(Bytes) /\ IsSuffix(Front(x), Text(k, e - p - 2))
         /\ p = 0 => Front(x) = Text(k, e - p - 2)
<1>1. PICK l \in Nat \ {0} : l = Len(x)
  BY EmptySeq
<1>2. PICK f : f = Front(x)
  OBVIOUS
<1>3. \A i \in 1..l - 1 : i \in 1..Len(x) /\ x[i] \in Bytes
  BY <1>1, ElementOfSeq
<1>4. f \in Seq(Bytes) /\ Len(f) = l - 1 /\ \A i \in 1..l - 1 : f[i] = x[i]
  <2>1. f = SubSeq(x, 1, l - 1)
    BY <1>1, <1>2 DEF Front
  <2>2. /\ SubSeq(x, 1, l - 1) \in Seq(Bytes)
        /\ Len(SubSeq(x, 1, l - 1)) = IF 1 <= l - 1 THEN l - 1 - 1 + 1 ELSE 0
        /\ \A i \in 1..l - 1 - 1 + 1 : SubSeq(x, 1, l - 1)[i] = x[1 + i - 1]
    BY <1>3, SubSeqProperties
  <2>3. (IF 1 <= l - 1 THEN l - 1 - 1 + 1 ELSE 0) = l - 1
    OBVIOUS
  <2> QED
    BY <2>1, <2>2, <2>3
<1>5. PICK c \in Nat, t \in Nat : c = 0 - p /\ t = e - p - 2 /\ t = c + (l - 1)
  <2>1. 0 - p \in Nat /\ e - p - 2 \in Nat /\ e - p - 2 = 0 - p + (l - 1)
    BY <1>1
  <2> QED
    BY <2>1
<1>6. PICK y \in Seq(Bytes) : y = Text(k, t)
  BY LineSent
<1>7. Len(y) = t /\ \A j \in 1..t : y[j] = <<k, j>>
  BY <1>6, LineSent DEF Text
<1>8. ASSUME NEW i \in 1..l - 1 PROVE f[i] = y[c + i]
  <2>1. In(x, i, k, p, e) /\ i < e - 1 /\ i \in Int
    BY <1>1, <1>3
  <2>2. x[i] = <<k, i - p>>
    BY <2>1, ByteIs
  <2>3. i - p = c + i /\ c + i \in 1..t
    BY <1>5
  <2> QED
    BY <1>4, <1>7, <2>2, <2>3
<1>9. IsSuffix(f, y)
  <2>1. Len(y) = c + Len(f)
    BY <1>4, <1>5, <1>7
  <2> QED
    BY <1>4, <1>8, <2>1, SuffixIs
<1>10. ASSUME p = 0 PROVE f = y
  <2>1. c = 0 /\ t = l - 1
    BY <1>5, <1>10
  <2>2. Len(f) = Len(y) /\ \A i \in 1..Len(f) : f[i] = y[i]
    BY <1>4, <1>7, <1>8, <2>1
  <2> QED
    BY <1>4, <2>2, SeqEqual
<1> QED
  BY <1>2, <1>4, <1>5, <1>6, <1>9, <1>10

\* Behind the LFs in front of it.
LEMMA BehindLFs ==
  ASSUME NEW x \in Seq(Bytes), NEW f \in Seq(Bytes), \A j \in 1..Len(x) : x[j] = LF
  PROVE  /\ x \o f \in Seq(Bytes) /\ Len(x) \in 0..Len(x \o f)
         /\ \A j \in 1..Len(x) : (x \o f)[j] = LF
         /\ SubSeq(x \o f, Len(x) + 1, Len(x \o f)) = f
<1>1. PICK p \in Nat, q \in Nat : p = Len(x) /\ q = Len(f)
  BY LenProperties
<1>2. PICK y \in Seq(Bytes) : y = x \o f
  BY Joined
<1>3. /\ Len(y) = p + q /\ \A i \in 1..p : y[i] = x[i]
      /\ \A i \in 1..q : y[p + i] = f[i]
  <2>1. /\ Len(x \o f) = Len(x) + Len(f)
        /\ \A i \in 1..Len(x) : (x \o f)[i] = x[i]
        /\ \A i \in 1..Len(f) : (x \o f)[Len(x) + i] = f[i]
    BY Joined
  <2> QED
    BY <1>1, <1>2, <2>1
<1>4. PICK l \in Nat : l = p + q /\ p \in 0..l /\ l - p = q
  OBVIOUS
<1>5. PICK z : z = SubSeq(y, p + 1, l)
  OBVIOUS
<1>6. z \in Seq(Bytes) /\ Len(z) = q /\ \A i \in 1..q : z[i] = y[i + p]
  BY <1>3, <1>4, <1>5, EndOf
<1>7. \A i \in 1..q : i + p = p + i
  OBVIOUS
<1>8. \A i \in 1..q : z[i] = f[i]
  BY <1>3, <1>6, <1>7
<1>9. z = f
  BY <1>1, <1>6, <1>8, SeqEqual
<1> QED
  BY <1>1, <1>2, <1>3, <1>4, <1>5, <1>9

\* One turn of the loop takes the rest of line k, which was not taken before, and c bytes
\* in all; it is the last line, and taken whole, when the device waits.
Turn(h, n, E, L, k, c) ==
  /\ Handled(h) /\ n = Len(sent)
  /\ Framed(sbuf \o wire, 0, n, E, L) /\ Coming(h, n, E)
  /\ E[k - 1] \in Int /\ E[k] \in Int /\ E[k - 1] <= 0
  /\ Line(sbuf) \in Seq(Bytes)
  /\ \A i \in 1..Len(Line(sbuf)) : In(Line(sbuf), i, k, E[k - 1], E[k])
  /\ AfterGetLine(sbuf) = SubSeq(sbuf, c + 1, Len(sbuf))
  /\ EndsMessage(sbuf) => /\ Line(sbuf) # <<>> /\ Len(Line(sbuf)) = E[k] - 1
                          /\ h + 1 <= k /\ E[k] - 1 <= c
  /\ ~EndsMessage(sbuf) => AfterGetLine(sbuf) = <<>> \/ Line(sbuf) = <<>>
  /\ lockStep => /\ k = h + 1 /\ n = h + 1 /\ E[k - 1] = 0 /\ c = E[k]
                 /\ EndsMessage(sbuf) /\ Line(sbuf) # <<>> /\ msg = <<>>

LEMMA LoopTakes ==
  ASSUME LinesInv, pc = "looping", sbuf # <<>>
  PROVE  \E h, n, E, L :
           /\ h \in Nat /\ n \in Nat
           /\ \E k \in 1..n, c \in 0..Len(sbuf) : Turn(h, n, E, L, k, c)
<1>1. PICK h, n, E, L :
        /\ h \in Nat /\ n \in Nat
        /\ Handled(h) /\ n = Len(sent)
        /\ Framed(sbuf \o wire, 0, n, E, L) /\ Coming(h, n, E)
  BY LenProperties DEF LinesInv, InputTypes, Reading
<1> h \in Nat /\ n \in Nat
  BY <1>1
<1>2. sbuf \in Seq(Bytes) /\ wire \in Seq(Bytes) /\ Len(sbuf) \in Nat
  BY LenProperties DEF LinesInv, InputTypes
<1>3. PICK k \in 1..n, c \in 0..Len(sbuf) :
        /\ E[k - 1] \in Int /\ E[k] \in Int /\ E[k - 1] <= 0 /\ 1 <= E[k]
        /\ Line(sbuf) \in Seq(Bytes)
        /\ \A i \in 1..Len(Line(sbuf)) : In(Line(sbuf), i, k, E[k - 1], E[k])
        /\ AfterGetLine(sbuf) = SubSeq(sbuf, c + 1, Len(sbuf))
        /\ EndsMessage(sbuf) => /\ Line(sbuf) # <<>> /\ Len(Line(sbuf)) = E[k] - 1
                                /\ 2 <= E[k] /\ E[k] - 1 <= c
        /\ ~EndsMessage(sbuf) => AfterGetLine(sbuf) = <<>> \/ Line(sbuf) = <<>>
        /\ HasLF(sbuf) /\ E[k - 1] = 0 =>
             EndsMessage(sbuf) /\ Line(sbuf) # <<>> /\ E[k] <= c
  BY <1>1, <1>2, LineTaken
<1>4. h <= n /\ E[h] <= 1 /\ (lockStep => E[h] = 0 /\ n <= h + 1)
  BY <1>1 DEF Coming
<1>5. PICK b \in Seq(Bytes) : b = sbuf \o wire
  BY <1>2, Joined
<1>6. Len(sbuf) <= Len(b) /\ E[n] = Len(b) /\ Framed(b, 0, n, E, L)
  <2>1. Len(sbuf \o wire) = Len(sbuf) + Len(wire) /\ Len(wire) \in Nat
    BY <1>2, Joined, LenProperties
  <2> QED
    BY <1>1, <1>2, <1>5, <2>1 DEF Framed
<1>7. ASSUME E[h] < E[k] PROVE h + 1 <= k
  <2>1. SUFFICES ASSUME k <= h PROVE FALSE
    BY <1>7
  <2>2. k \in 0..n /\ h \in 0..n
    BY <1>4
  <2>3. E[k] <= E[h] /\ E[h] \in Int
    BY <1>6, <2>1, <2>2, InOrder
  <2> QED
    BY <1>3, <1>7, <2>3
<1>8. E[h] \in Int
  <2>1. h \in 0..n
    BY <1>4
  <2> QED
    BY <1>1, <2>1 DEF Framed
<1>9. EndsMessage(sbuf) => h + 1 <= k
  BY <1>3, <1>4, <1>7, <1>8
<1>10. ASSUME lockStep
       PROVE  /\ k = h + 1 /\ n = h + 1 /\ E[k - 1] = 0 /\ c = E[k]
              /\ EndsMessage(sbuf) /\ Line(sbuf) # <<>> /\ msg = <<>>
  <2>1. msg = <<>> /\ HasLF(sbuf)
    BY <1>2, <1>10, DelimitedHasLF DEF LinesInv, Looping
  <2>2. h + 1 <= k
    BY <1>3, <1>4, <1>7, <1>10
  <2>3. k = h + 1 /\ n = h + 1
    BY <1>4, <1>10, <2>2
  <2>4. E[k - 1] = 0
    <3>1. k - 1 = h
      BY <2>3
    <3> QED
      BY <1>4, <1>10, <3>1
  <2>5. EndsMessage(sbuf) /\ Line(sbuf) # <<>> /\ E[k] <= c
    BY <1>3, <2>1, <2>4
  <2>6. c <= E[k]
    BY <1>2, <1>3, <1>6, <2>3
  <2>7. c = E[k]
    BY <1>2, <1>3, <2>5, <2>6
  <2> QED
    BY <2>1, <2>3, <2>4, <2>5, <2>7
<1>11. Turn(h, n, E, L, k, c)
  BY <1>1, <1>3, <1>9, <1>10 DEF Turn
<1> QED
  BY <1>11

\* The device sends a line.
LEMMA SendInv ==
  ASSUME LinesInv, NEW len \in Lengths, NEW brk \in Breaks, Send(len, brk), WellFormed'
  PROVE  LinesInv'
<1>1. InputTypes /\ Reading /\ Looping /\ len \in Nat
  BY InputAssumption DEF LinesInv
<1>2. brk = 0
  BY DEF Send, WellFormed
<1>3. /\ sent' = Append(sent, Text(Len(sent) + 1, len))
      /\ wire' = wire \o Last(sent') \o EndOfLine
      /\ lockStep => Len(handled) = Len(sent) /\ pc = "reading"
      /\ UNCHANGED <<lockStep, pc, sbuf, msg, handled>>
  BY <1>2 DEF Send
<1>4. PICK h, n, E, L :
        /\ h \in Nat /\ n \in Nat
        /\ Handled(h) /\ n = Len(sent)
        /\ Framed(sbuf \o wire, 0, n, E, L) /\ Coming(h, n, E)
  BY <1>1, LenProperties DEF InputTypes, Reading
<1> h \in Nat /\ n \in Nat
  BY <1>4
<1>5. Text(n + 1, len) \in Seq(Bytes)
  BY <1>1, LineSent
<1>6. /\ sent' \in Seq(Seq(Bytes)) /\ Len(sent') = n + 1 /\ sent'[n + 1] = Text(n + 1, len)
      /\ \A i \in 1..n : sent'[i] = sent[i]
  BY <1>1, <1>3, <1>4, <1>5, AppendProperties DEF InputTypes
<1>7. wire' = wire \o Text(n + 1, len) \o EndOfLine
  BY <1>3, <1>6 DEF Last
<1>8. PICK F : F = Longer(E, 0, n, len)
  OBVIOUS
<1>9. wire' \in Seq(Bytes) /\ \E M : Framed(sbuf \o wire', 0, n + 1, F, M)
  <2>1. sbuf \in Seq(Bytes) /\ wire \in Seq(Bytes) /\ 0 \in Nat /\ 0 <= n
    BY <1>1 DEF InputTypes
  <2> QED
    BY <1>1, <1>4, <1>7, <1>8, <2>1, MoreLines
<1>10. /\ h <= n /\ E[h] <= 1
       /\ \A k \in 1..n : sent[k] = Text(k, E[k] - E[k - 1] - 2)
       /\ lockStep => E[h] = 0 /\ n <= h + 1
  BY <1>4 DEF Coming
<1>11. (\A i \in 0..n : F[i] = E[i] /\ E[i] \in Int) /\ F[n + 1] = E[n] + len + 2
  <2>1. E \in [0..n -> Int]
    BY <1>4 DEF Framed
  <2>2. \A i \in 0..n : E[i] \in Int /\ i \in 0..n + 1 /\ i <= n
    BY <2>1
  <2>3. n + 1 \in 0..n + 1 /\ ~(n + 1 <= n)
    OBVIOUS
  <2> QED
    BY <1>8, <2>2, <2>3 DEF Longer
<1>12. ASSUME NEW k \in 1..n + 1 PROVE sent'[k] = Text(k, F[k] - F[k - 1] - 2)
  <2>1. CASE k \in 1..n
    <3>1. k \in 0..n /\ k - 1 \in 0..n
      BY <2>1
    <3> QED
      BY <1>6, <1>10, <1>11, <2>1, <3>1
  <2>2. CASE k = n + 1
    <3>1. k - 1 = n /\ n \in 0..n
      BY <2>2
    <3>2. F[k] - F[k - 1] - 2 = len
      BY <1>1, <1>11, <2>2, <3>1
    <3> QED
      BY <1>6, <2>2, <3>2
  <2> QED
    BY <2>1, <2>2
<1>13. Coming(h, n + 1, F)'
  <2>1. h \in 0..n
    BY <1>10
  <2>2. h <= n + 1 /\ F[h] <= 1
    BY <1>10, <1>11, <2>1
  <2>3. lockStep' => F[h] = 0 /\ n + 1 <= h + 1
    BY <1>3, <1>4, <1>10, <1>11, <2>1 DEF Handled
  <2> QED
    BY <1>12, <2>2, <2>3 DEF Coming
<1>14. Handled(h)'
  <2>1. PICK lineOf \in [1..Len(handled) -> 1..h] :
          /\ \A i, j \in 1..Len(handled) : i < j => lineOf[i] < lineOf[j]
          /\ \A i \in 1..Len(handled) : EndsLine(handled[i], sent[lineOf[i]])
    BY <1>4 DEF Handled
  <2>2. \A i \in 1..h : i \in 1..n /\ sent'[i] = sent[i]
    BY <1>6, <1>10
  <2>3. \A i \in 1..Len(handled) : EndsLine(handled[i], sent'[lineOf[i]])
    BY <2>1, <2>2
  <2>4. lockStep => h = Len(handled) /\ \A i \in 1..h : handled[i] = sent'[i]
    BY <1>4, <2>2 DEF Handled
  <2> QED
    BY <1>3, <2>1, <2>3, <2>4 DEF Handled
<1>15. Reading'
  <2>1. sbuf' = sbuf
    BY <1>3
  <2> QED
    BY <1>6, <1>9, <1>13, <1>14, <2>1 DEF Reading
<1>16. InputTypes' /\ Looping'
  BY <1>1, <1>3, <1>6, <1>9 DEF InputTypes, Looping
<1> QED
  BY <1>15, <1>16 DEF LinesInv

\* A piece arrives, or the loop begins or ends: nothing is taken.
LEMMA NothingTaken ==
  ASSUME LinesInv, UNCHANGED <<lockStep, sent, handled>>, sbuf' \o wire' = sbuf \o wire
  PROVE  Reading'
  BY DEF LinesInv, Reading, Coming, Handled

LEMMA ArriveInv ==
  ASSUME LinesInv, NEW n \in 1..Len(wire), Arrive(n)
  PROVE  LinesInv'
<1>1. /\ pc = "reading" /\ sbuf' = sbuf \o Piece(wire, n) /\ wire' = AfterPiece(wire, n)
      /\ UNCHANGED <<lockStep, pc, msg, sent, handled>>
  BY DEF Arrive
<1>2. InputTypes /\ Looping
  BY DEF LinesInv
<1>3. sbuf' \in Seq(Bytes) /\ wire' \in Seq(Bytes) /\ sbuf' \o wire' = sbuf \o wire
  BY <1>1, <1>2, Moved DEF InputTypes
<1>4. Reading'
  BY <1>1, <1>3, NothingTaken
<1>5. InputTypes' /\ Looping'
  BY <1>1, <1>2, <1>3 DEF InputTypes, Looping
<1> QED
  BY <1>4, <1>5 DEF LinesInv

LEMMA LoopBeginsInv ==
  ASSUME LinesInv, HandleRead
  PROVE  LinesInv'
<1>1. /\ Delimited(sbuf) /\ pc' = "looping" /\ msg' = <<>>
      /\ UNCHANGED <<lockStep, wire, sbuf, sent, handled>>
  BY DEF HandleRead
<1>2. InputTypes /\ Looping
  BY DEF LinesInv
<1>3. Reading'
  BY <1>1, NothingTaken
<1>4. InputTypes' /\ Looping'
  BY <1>1, <1>2 DEF InputTypes, Looping, Delimited
<1> QED
  BY <1>3, <1>4 DEF LinesInv

LEMMA LoopEndsBadly ==
  ASSUME LinesInv, NothingLeft \/ IteratorChecked
  PROVE  LinesInv'
<1>1. /\ pc = "looping" /\ pc' # "looping"
      /\ UNCHANGED <<lockStep, wire, sbuf, msg, sent, handled>>
  BY DEF NothingLeft, IteratorChecked
<1>2. InputTypes /\ Looping
  BY DEF LinesInv
<1>3. ~lockStep
  <2>1. SUFFICES ASSUME lockStep PROVE FALSE
    OBVIOUS
  <2>2. sbuf # <<>>
    <3>1. sbuf \in Seq(Bytes) /\ HasLF(sbuf)
      BY <1>1, <1>2, <2>1, DelimitedHasLF DEF InputTypes, Looping
    <3>2. PICK q \in 1..Len(sbuf) : TRUE
      BY <3>1 DEF HasLF, Contains
    <3> QED
      BY <3>2
  <2>3. IteratorChecked
    BY <2>2 DEF NothingLeft
  <2>4. Line(sbuf) # <<>>
    BY <1>1, <2>1, <2>2, LoopTakes DEF Turn
  <2> QED
    BY <2>3, <2>4 DEF IteratorChecked
<1>4. Reading'
  BY <1>1, NothingTaken
<1>5. InputTypes' /\ Looping'
  BY <1>1, <1>2, <1>3 DEF InputTypes, Looping
<1> QED
  BY <1>4, <1>5 DEF LinesInv

\* What is left of the stream when c bytes of the buffer were dropped.
LEMMA BytesTaken ==
  ASSUME LinesInv, NEW h, NEW n, NEW E, NEW L, NEW k \in 1..n, NEW c \in 0..Len(sbuf),
         Turn(h, n, E, L, k, c), NEW x, x = SubSeq(sbuf, c + 1, Len(sbuf))
  PROVE  /\ x \in Seq(Bytes) /\ n \in Nat /\ E \in [0..n -> Int] /\ c \in Nat
         /\ Coming(h, n, E)
         /\ \E M : Framed(x \o wire, 0, n, Shorter(E, 0, n, c), M)
<1>1. /\ n = Len(sent)
      /\ Framed(sbuf \o wire, 0, n, E, L) /\ Coming(h, n, E)
  BY DEF Turn
<1>2. InputTypes
  BY DEF LinesInv
<1>3. n \in Nat
  BY <1>1, <1>2, LenProperties DEF InputTypes
<1>4. sbuf \in Seq(Bytes) /\ wire \in Seq(Bytes) /\ Len(sbuf) \in Nat
  BY <1>2, LenProperties DEF InputTypes
<1>5. E \in [0..n -> Int] /\ E[0] <= 0 /\ 0 \in 0..n
  <2>1. E \in [0..n -> Int] /\ E[0] <= 0
    BY <1>1 DEF Framed
  <2>2. 0 \in 0..n
    BY <1>3
  <2> QED
    BY <2>1, <2>2
<1>6. c \in Nat /\ E[0] <= c
  <2>1. E[0] \in Int /\ c \in Nat
    BY <1>4, <1>5
  <2> QED
    BY <1>5, <2>1
<1>7. x \in Seq(Bytes) /\ \E M : Framed(x \o wire, 0, n, Shorter(E, 0, n, c), M)
  <2>1. PICK m \in Nat : m = 0
    OBVIOUS
  <2>2. Framed(sbuf \o wire, m, n, E, L) /\ m \in m..n /\ E[m] <= c
    BY <1>1, <1>5, <1>6, <2>1
  <2>3. /\ SubSeq(sbuf, c + 1, Len(sbuf)) \in Seq(Bytes)
        /\ \E M : Framed(SubSeq(sbuf, c + 1, Len(sbuf)) \o wire, m, n, Shorter(E, m, n, c), M)
    BY <1>3, <1>4, <2>2, Dropped
  <2> QED
    BY <2>1, <2>3
<1> QED
  BY <1>1, <1>3, <1>5, <1>6, <1>7

\* Part of a message was taken.  A device that waits never sends one.
LEMMA PartInv ==
  ASSUME LinesInv, Part
  PROVE  LinesInv'
<1>1. /\ pc = "looping" /\ sbuf # <<>> /\ ~EndsMessage(sbuf)
      /\ msg' = msg \o Line(sbuf) \o <<LF>> /\ sbuf' = AfterGetLine(sbuf)
      /\ UNCHANGED <<lockStep, pc, wire, sent, handled>>
  BY DEF Part
<1>2. InputTypes /\ Looping
  BY DEF LinesInv
<1>3. PICK h, n, E, L :
        /\ h \in Nat /\ n \in Nat
        /\ \E k \in 1..n, c \in 0..Len(sbuf) : Turn(h, n, E, L, k, c)
  BY <1>1, LoopTakes
<1> h \in Nat /\ n \in Nat
  BY <1>3
<1>4. PICK k \in 1..n, c \in 0..Len(sbuf) : Turn(h, n, E, L, k, c)
  BY <1>3
<1>5. sbuf' = SubSeq(sbuf, c + 1, Len(sbuf))
  BY <1>1, <1>4 DEF Turn
<1>6. ~lockStep
  BY <1>1, <1>4 DEF Turn
<1>7. /\ sbuf' \in Seq(Bytes) /\ E \in [0..n -> Int] /\ c \in Nat /\ Coming(h, n, E)
      /\ \E M : Framed(sbuf' \o wire, 0, n, Shorter(E, 0, n, c), M)
  BY <1>4, <1>5, BytesTaken
<1>8. Coming(h, n, Shorter(E, 0, n, c))
  BY <1>2, <1>6, <1>7, ComingDropped
<1>9. Handled(h) /\ n = Len(sent)
  BY <1>4 DEF Turn
<1>10. Reading'
  <2>1. Coming(h, n, Shorter(E, 0, n, c))'
    BY <1>1, <1>8 DEF Coming
  <2>2. Handled(h)'
    BY <1>1, <1>9 DEF Handled
  <2>3. (sbuf \o wire)' = sbuf' \o wire /\ Len(sent') = n
    BY <1>1, <1>9
  <2> QED
    BY <1>7, <2>1, <2>2, <2>3 DEF Reading
<1>11. PICK l \in Seq(Bytes) : l = Line(sbuf)
  BY <1>4 DEF Turn
<1>12. <<LF>> \in Seq(Bytes)
  BY DEF LF, Bytes
<1>13. msg' \in Seq(Bytes)
  <2>1. msg \o l \in Seq(Bytes)
    BY <1>2, Joined DEF InputTypes
  <2>2. (msg \o l) \o <<LF>> \in Seq(Bytes)
    BY <1>12, <2>1, Joined
  <2> QED
    BY <1>1, <1>11, <2>2
<1>14. sbuf' = <<>> \/ \A j \in 1..Len(msg') : msg'[j] = LF
  <2>1. SUFFICES ASSUME sbuf' # <<>> PROVE \A j \in 1..Len(msg') : msg'[j] = LF
    OBVIOUS
  <2>2. l = <<>>
    BY <1>1, <1>4, <1>11, <2>1 DEF Turn
  <2>3. \A j \in 1..Len(msg) : msg[j] = LF
    BY <1>1, <1>2 DEF Looping
  <2>4. PICK p \in Nat : p = Len(msg)
    BY <1>2, LenProperties DEF InputTypes
  <2>5. msg' = msg \o <<LF>>
    BY <1>1, <1>2, <1>11, <2>2, ConcatEmptySeq DEF InputTypes
  <2>6. Len(<<LF>>) = 1 /\ <<LF>>[1] = LF
    OBVIOUS
  <2>7. /\ Len(msg') = p + 1 /\ \A i \in 1..p : msg'[i] = msg[i]
        /\ msg'[p + 1] = LF
    BY <1>2, <1>12, <2>4, <2>5, <2>6, Joined DEF InputTypes
  <2> QED
    BY <2>3, <2>4, <2>7
<1>15. InputTypes' /\ Looping'
  BY <1>1, <1>2, <1>6, <1>7, <1>13, <1>14 DEF InputTypes, Looping
<1> QED
  BY <1>10, <1>15 DEF LinesInv

\* A message is the end of the line that is taken, behind LFs.
LEMMA MessageOfLine ==
  ASSUME LinesInv, pc = "looping", sbuf # <<>>, EndsMessage(sbuf),
         NEW h \in Nat, NEW n \in Nat, NEW E, NEW L, NEW k \in 1..n, NEW c \in 0..Len(sbuf),
         Turn(h, n, E, L, k, c), NEW f, f = Front(Line(sbuf))
  PROVE  /\ msg \o f \in Seq(Bytes) /\ EndsLine(msg \o f, sent[k])
         /\ lockStep => msg \o f = sent[h + 1]
<1>1. /\ n = Len(sent) /\ Coming(h, n, E)
      /\ Line(sbuf) \in Seq(Bytes) /\ Line(sbuf) # <<>>
      /\ \A i \in 1..Len(Line(sbuf)) : In(Line(sbuf), i, k, E[k - 1], E[k])
      /\ Len(Line(sbuf)) = E[k] - 1
      /\ lockStep => k = h + 1 /\ E[k - 1] = 0 /\ msg = <<>>
  BY DEF Turn
<1>2. PICK p \in Int, e \in Int : p = E[k - 1] /\ e = E[k] /\ p <= 0
  BY DEF Turn
<1>3. sent[k] = Text(k, e - p - 2)
  BY <1>1, <1>2 DEF Coming
<1>4. f \in Seq(Bytes) /\ IsSuffix(f, sent[k]) /\ (p = 0 => f = sent[k])
  <2>1. k \in Nat \ {0}
    OBVIOUS
  <2>2. \A i \in 1..Len(Line(sbuf)) : In(Line(sbuf), i, k, p, e)
    BY <1>1, <1>2
  <2>3. Len(Line(sbuf)) = e - 1
    BY <1>1, <1>2
  <2> QED
    BY <1>1, <1>2, <1>3, <2>1, <2>2, <2>3, MessageIs
<1>5. msg \in Seq(Bytes) /\ \A j \in 1..Len(msg) : msg[j] = LF
  BY DEF LinesInv, InputTypes, Looping
<1>6. /\ msg \o f \in Seq(Bytes) /\ Len(msg) \in 0..Len(msg \o f)
      /\ \A j \in 1..Len(msg) : (msg \o f)[j] = LF
      /\ SubSeq(msg \o f, Len(msg) + 1, Len(msg \o f)) = f
  BY <1>4, <1>5, BehindLFs
<1>7. EndsLine(msg \o f, sent[k])
  <2>1. IsSuffix(SubSeq(msg \o f, Len(msg) + 1, Len(msg \o f)), sent[k])
    BY <1>4, <1>6
  <2> QED
    BY <1>6, <2>1 DEF EndsLine
<1>8. lockStep => msg \o f = sent[h + 1]
  <2>1. SUFFICES ASSUME lockStep PROVE msg \o f = sent[h + 1]
    OBVIOUS
  <2>2. msg = <<>> /\ k = h + 1 /\ p = 0
    BY <1>1, <1>2, <2>1
  <2>3. msg \o f = f
    BY <1>4, <2>2, ConcatEmptySeq
  <2> QED
    BY <1>4, <2>2, <2>3
<1> QED
  BY <1>6, <1>7, <1>8

\* The lines to come when one more message was taken.
LEMMA ComingTaken ==
  ASSUME LinesInv, EndsMessage(sbuf), NEW h \in Nat, NEW n \in Nat, NEW E, NEW L,
         NEW k \in 1..n, NEW c \in 0..Len(sbuf), Turn(h, n, E, L, k, c)
  PROVE  Coming(k, n, Shorter(E, 0, n, c))
<1>1. PICK F : F = Shorter(E, 0, n, c)
  OBVIOUS
<1>2. /\ Coming(h, n, E) /\ Framed(sbuf \o wire, 0, n, E, L)
      /\ E[k] - 1 <= c /\ (lockStep => n = k /\ c = E[k])
  BY DEF Turn
<1>3. sbuf \in Seq(Bytes) /\ wire \in Seq(Bytes) /\ Len(sbuf) \in Nat
  BY LenProperties DEF LinesInv, InputTypes
<1>4. E \in [0..n -> Int] /\ c \in Int
  BY <1>2, <1>3 DEF Framed
<1>5. \A i \in 0..n : F[i] = E[i] - c /\ E[i] \in Int
  BY <1>1, <1>4 DEF Shorter
<1>6. F[k] <= 1 /\ (lockStep => F[k] = 0)
  <2>1. k \in 0..n
    OBVIOUS
  <2>2. F[k] = E[k] - c /\ E[k] \in Int
    BY <1>5, <2>1
  <2> QED
    BY <1>2, <1>4, <2>2
<1>7. ASSUME NEW j \in 1..n PROVE sent[j] = Text(j, F[j] - F[j - 1] - 2)
  <2>1. j \in 0..n /\ j - 1 \in 0..n
    OBVIOUS
  <2>2. F[j] - F[j - 1] - 2 = E[j] - E[j - 1] - 2
    BY <1>4, <1>5, <2>1
  <2> QED
    BY <1>2, <2>2 DEF Coming
<1>8. k <= n /\ (lockStep => n <= k + 1)
  BY <1>2
<1> QED
  BY <1>1, <1>6, <1>7, <1>8 DEF Coming

\* A message was taken.
LEMMA MessageInv ==
  ASSUME LinesInv, Message
  PROVE  LinesInv'
<1>1. PICK f : f = Front(Line(sbuf))
  OBVIOUS
<1>2. /\ pc = "looping" /\ sbuf # <<>> /\ EndsMessage(sbuf)
      /\ handled' = Append(handled, msg \o f) /\ sbuf' = AfterGetLine(sbuf)
      /\ pc' = "reading" /\ UNCHANGED <<lockStep, wire, msg, sent>>
  BY <1>1 DEF Message
<1>3. InputTypes /\ Looping
  BY DEF LinesInv
<1>4. PICK h, n, E, L :
        /\ h \in Nat /\ n \in Nat
        /\ \E k \in 1..n, c \in 0..Len(sbuf) : Turn(h, n, E, L, k, c)
  BY <1>2, LoopTakes
<1> h \in Nat /\ n \in Nat
  BY <1>4
<1>5. PICK k \in 1..n, c \in 0..Len(sbuf) : Turn(h, n, E, L, k, c)
  BY <1>4
<1>6. Handled(h) /\ n = Len(sent) /\ h + 1 <= k /\ (lockStep => k = h + 1)
  BY <1>2, <1>5 DEF Turn
<1>7. PICK l \in Nat : l = Len(handled)
  BY <1>3, LenProperties DEF InputTypes
<1>8. PICK g \in Seq(Bytes) : /\ g = msg \o f /\ EndsLine(g, sent[k])
                              /\ lockStep => g = sent[h + 1]
  BY <1>1, <1>2, <1>5, MessageOfLine
<1>9. /\ handled' \in Seq(Seq(Bytes)) /\ Len(handled') = l + 1 /\ handled'[l + 1] = g
      /\ \A i \in 1..l : handled'[i] = handled[i]
  BY <1>2, <1>3, <1>7, <1>8, AppendProperties DEF InputTypes
<1>10. sbuf' = SubSeq(sbuf, c + 1, Len(sbuf))
  BY <1>2, <1>5 DEF Turn
<1>11. /\ sbuf' \in Seq(Bytes)
       /\ \E M : Framed(sbuf' \o wire, 0, n, Shorter(E, 0, n, c), M)
  BY <1>5, <1>10, BytesTaken
<1>12. Coming(k, n, Shorter(E, 0, n, c))
  BY <1>2, <1>5, ComingTaken
<1>13. Handled(k)'
  <2>1. PICK old \in [1..l -> 1..h] :
          /\ \A i, j \in 1..l : i < j => old[i] < old[j]
          /\ \A i \in 1..l : EndsLine(handled[i], sent[old[i]])
    BY <1>6, <1>7 DEF Handled
  <2>2. PICK lineOf : lineOf = [i \in 1..l + 1 |-> IF i <= l THEN old[i] ELSE k]
    OBVIOUS
  <2>3. \A i \in 1..l : lineOf[i] = old[i] /\ old[i] \in 1..h
    BY <2>1, <2>2
  <2>4. lineOf[l + 1] = k
    BY <2>2
  <2>5. \A i \in 1..l + 1 : i \in 1..l \/ i = l + 1
    OBVIOUS
  <2>6. lineOf \in [1..l + 1 -> 1..k]
    <3>1. \A i \in 1..l : lineOf[i] \in 1..k
      BY <1>6, <2>3
    <3>2. k \in 1..k
      OBVIOUS
    <3>3. \A i \in 1..l + 1 : lineOf[i] \in 1..k
      BY <2>4, <2>5, <3>1, <3>2
    <3> QED
      BY <2>2, <3>3
  <2>7. ASSUME NEW i \in 1..l + 1, NEW j \in 1..l + 1, i < j PROVE lineOf[i] < lineOf[j]
    <3>1. i \in 1..l
      BY <2>7
    <3>2. CASE j \in 1..l
      BY <2>1, <2>3, <2>7, <3>1, <3>2
    <3>3. CASE j = l + 1
      BY <1>6, <2>3, <2>4, <3>1, <3>3
    <3> QED
      BY <2>5, <3>2, <3>3
  <2>8. ASSUME NEW i \in 1..l + 1 PROVE EndsLine(handled'[i], sent[lineOf[i]])
    <3>1. CASE i \in 1..l
      BY <1>9, <2>1, <2>3, <3>1
    <3>2. CASE i = l + 1
      BY <1>8, <1>9, <2>4, <3>2
    <3> QED
      BY <2>5, <3>1, <3>2
  <2>9. lockStep => k = l + 1 /\ \A i \in 1..k : handled'[i] = sent[i]
    <3>1. SUFFICES ASSUME lockStep PROVE k = l + 1 /\ \A i \in 1..k : handled'[i] = sent[i]
      OBVIOUS
    <3>2. h = l /\ k = l + 1 /\ \A i \in 1..l : handled[i] = sent[i]
      BY <1>6, <1>7, <3>1 DEF Handled
    <3>3. handled'[l + 1] = sent[l + 1]
      BY <1>8, <1>9, <3>1, <3>2
    <3> QED
      BY <1>9, <2>5, <3>2, <3>3
  <2>10. lockStep' = lockStep /\ sent' = sent
    BY <1>2
  <2>11. \E of \in [1..Len(handled') -> 1..k] :
           /\ \A i, j \in 1..Len(handled') : i < j => of[i] < of[j]
           /\ \A i \in 1..Len(handled') : EndsLine(handled'[i], sent'[of[i]])
    BY <1>9, <2>6, <2>7, <2>8, <2>10
  <2>12. lockStep' => k = Len(handled') /\ \A i \in 1..k : handled'[i] = sent'[i]
    BY <1>9, <2>9, <2>10
  <2> QED
    BY <2>11, <2>12 DEF Handled
<1>14. Reading'
  <2>1. Coming(k, n, Shorter(E, 0, n, c))'
    BY <1>2, <1>12 DEF Coming
  <2>2. (sbuf \o wire)' = sbuf' \o wire /\ Len(sent') = n
    BY <1>2, <1>6
  <2> QED
    BY <1>11, <1>13, <2>1, <2>2 DEF Reading
<1>15. InputTypes' /\ Looping'
  BY <1>2, <1>3, <1>9, <1>11 DEF InputTypes, Looping
<1> QED
  BY <1>14, <1>15 DEF LinesInv

LEMMA InputInitInv ==
  ASSUME Init
  PROVE  InputInv
<1>1. /\ lockStep \in BOOLEAN /\ pc = "reading" /\ wire = <<>> /\ sbuf = <<>>
      /\ msg = <<>> /\ sent = <<>> /\ handled = <<>>
  BY DEF Init
<1>2. InputTypes /\ Looping
  BY <1>1 DEF InputTypes, Looping
<1>3. Len(<<>>) = 0 /\ 1..0 = {}
  OBVIOUS
<1>4. PICK m \in Nat : m = 0
  OBVIOUS
<1>5. PICK E : E = [i \in m..m |-> 0]
  OBVIOUS
<1>6. sbuf \o wire = <<>>
  BY <1>1
<1>7. Framed(sbuf \o wire, m, m, E, <<>>)
  BY <1>5, <1>6, FramedEmpty
<1>8. Coming(m, m, E)
  <2>1. E[m] = 0
    BY <1>4, <1>5
  <2> QED
    BY <1>3, <1>4, <2>1 DEF Coming
<1>9. Handled(m)
  <2>1. PICK lineOf : lineOf = [i \in 1..0 |-> 0]
    OBVIOUS
  <2>2. lineOf \in [1..0 -> 1..m]
    BY <1>3, <2>1
  <2> QED
    BY <1>1, <1>3, <1>4, <2>2 DEF Handled
<1>10. Reading
  BY <1>1, <1>3, <1>4, <1>7, <1>8, <1>9 DEF Reading
<1> QED
  BY <1>2, <1>10 DEF InputInv, LinesInv

LEMMA InputNextInv ==
  ASSUME InputInv, [Next]_vars
  PROVE  InputInv'
<1>1. SUFFICES ASSUME WellFormed' PROVE LinesInv'
  BY DEF InputInv
<1>2. WellFormed
  BY <1>1 DEF WellFormed, Next, Send, Arrive, HandleRead, Loop, NothingLeft, Message, Part,
              IteratorChecked, vars
<1>3. LinesInv
  BY <1>2 DEF InputInv
<1>4. CASE \E len \in Lengths, b \in Breaks : Send(len, b)
  BY <1>1, <1>3, <1>4, SendInv
<1>5. CASE \E n \in 1..Len(wire) : Arrive(n)
  BY <1>3, <1>5, ArriveInv
<1>6. CASE HandleRead
  BY <1>3, <1>6, LoopBeginsInv
<1>7. CASE NothingLeft \/ IteratorChecked
  BY <1>3, <1>7, LoopEndsBadly
<1>8. CASE Message
  BY <1>3, <1>8, MessageInv
<1>9. CASE Part
  BY <1>3, <1>9, PartInv
<1>10. CASE UNCHANGED vars
  <2>1. UNCHANGED <<lockStep, pc, wire, sbuf, msg, sent, handled>>
    BY <1>10 DEF vars
  <2>2. Reading'
    BY <1>3, <2>1, NothingTaken
  <2>3. InputTypes' /\ Looping'
    BY <1>3, <2>1 DEF LinesInv, InputTypes, Looping
  <2> QED
    BY <2>2, <2>3 DEF LinesInv
<1> QED
  BY <1>4, <1>5, <1>6, <1>7, <1>8, <1>9, <1>10 DEF Next, Loop

LEMMA InputInvariant == Spec => []InputInv
<1>1. Init => InputInv
  BY InputInitInv
<1>2. InputInv /\ [Next]_vars => InputInv'
  BY InputNextInv
<1> QED
  BY <1>1, <1>2, PTL DEF Spec

(* handle_read() hands every line of a device that waits for each reply, and  *)
(* sends no bare LF, to parse_string, in order and whole, however the stream  *)
(* is cut, and goes on reading (wialon_plugin.cpp:114-134): at the first byte *)
(* of a line what consume() drops behind it is at most the line itself.       *)
THEOREM WaitingDeviceIsHeard == Spec => []LinesKept
<1>1. InputInv => LinesKept
  <2>1. SUFFICES ASSUME InputInv, lockStep, WellFormed
                 PROVE  IsPrefix(handled, sent) /\ pc \notin {"ended", "crashed"}
    BY DEF LinesKept
  <2>2. InputTypes /\ Reading /\ Looping
    BY <2>1 DEF InputInv, LinesInv
  <2>3. Len(handled) <= Len(sent) /\ \A i \in 1..Len(handled) : handled[i] = sent[i]
    BY <2>1, <2>2 DEF Reading, Coming, Handled
  <2>4. IsPrefix(handled, sent)
    BY <2>2, <2>3, PrefixIs DEF InputTypes
  <2> QED
    BY <2>1, <2>2, <2>4 DEF Looping
<1> QED
  BY <1>1, InputInvariant, PTL

(* Whatever handle_read() drops of a device that does not wait, a message it  *)
(* hands to parse_string is the end of one line, never of two, and of a line  *)
(* after the line of the message before (wialon_plugin.cpp:114-134): what a   *)
(* turn of the loop takes ends in the line that it begins in, and a message   *)
(* is put together only of that and of the LFs of empty ones.                 *)
THEOREM MessagesAreOfOneLine == Spec => []OneLine
<1>1. InputInv => OneLine
  <2>1. SUFFICES ASSUME InputInv, WellFormed
                 PROVE  \E lineOf \in [1..Len(handled) -> 1..Len(sent)] :
                          /\ \A i, j \in 1..Len(handled) : i < j => lineOf[i] < lineOf[j]
                          /\ \A i \in 1..Len(handled) : EndsLine(handled[i], sent[lineOf[i]])
    BY DEF OneLine
  <2>2. InputTypes /\ Reading
    BY <2>1 DEF InputInv, LinesInv
  <2>3. PICK n \in Nat : n = Len(sent)
    BY <2>2, LenProperties DEF InputTypes
  <2>4. PICK h \in Nat : h <= n /\ Handled(h)
    BY <2>2, <2>3 DEF Reading, Coming
  <2>5. PICK lineOf \in [1..Len(handled) -> 1..h] :
          /\ \A i, j \in 1..Len(handled) : i < j => lineOf[i] < lineOf[j]
          /\ \A i \in 1..Len(handled) : EndsLine(handled[i], sent[lineOf[i]])
    BY <2>4 DEF Handled
  <2>6. lineOf \in [1..Len(handled) -> 1..n]
    BY <2>4, <2>5
  <2> QED
    BY <2>3, <2>5, <2>6
<1> QED
  BY <1>1, InputInvariant, PTL

==============================================================================
