------------------------ MODULE PostingIterator_proofs ------------------------
(***************************************************************************)
(* Proofs about PostingIterator: it implements PostingCursor for lists of  *)
(* any length, in blocks of any size.                                      *)
(*                                                                         *)
(* First numbers and blocks: what a block holds is what is written at its  *)
(* place in the list.  Then positions: each is the place of a posting, or  *)
(* the end.  Then the steps of the iterator.                               *)
(***************************************************************************)
EXTENDS PostingIterator, Induction

LEMMA Divided ==
  ASSUME NEW n \in Nat, NEW b \in Nat \ {0}
  PROVE  n \div b \in Nat /\ n % b \in 0..(b - 1) /\ n = b * (n \div b) + (n % b)
  <1> DEFINE q == n \div b
             r == n % b
  <1>1. n = b * q + r /\ q \in Int /\ r \in Int /\ 0 <= r /\ r < b
    OBVIOUS
  <1> HIDE DEF q, r
  <1>2. q >= 0
    <2>1. CASE q <= -1
      <3>1. b * q <= b * (-1)
        BY <1>1, <2>1
      <3>2. b * (-1) = -b /\ b * q \in Int
        BY <1>1
      <3> QED BY <1>1, <3>1, <3>2
    <2> QED BY <1>1, <2>1
  <1>3. q \in Nat /\ r \in 0..(b - 1)
    BY <1>1, <1>2
  <1> QED BY <1>1, <1>3 DEF q, r

LEMMA Times ==
  ASSUME NEW b \in Nat \ {0}, NEW m \in Nat, NEW n \in Nat
  PROVE  /\ b * m \in Nat /\ b * (m + 1) = b * m + b
         /\ m < n => b * m + b <= b * n
         /\ m <= n => b * m <= b * n
  <1>1. b * (m + 1) = b * m + b /\ b * m \in Nat
    OBVIOUS
  <1>2. ASSUME m < n PROVE b * (m + 1) <= b * n
    <2>1. m + 1 <= n
      BY <1>2
    <2> QED BY <2>1
  <1>3. ASSUME m <= n PROVE b * m <= b * n
    BY <1>3
  <1> QED BY <1>1, <1>2, <1>3

(* A number is in one place only.                                          *)
LEMMA OnePlace ==
  ASSUME NEW b \in Nat \ {0}, NEW m \in Nat, NEW n \in Nat,
         NEW i \in 0..(b - 1), NEW j \in 0..(b - 1), b * m + i = b * n + j
  PROVE  m = n /\ i = j
  <1>1. b * m \in Nat /\ b * n \in Nat
    BY Times
  <1>2. ~(m < n)
    <2> SUFFICES ASSUME m < n PROVE FALSE
      OBVIOUS
    <2>1. b * m + b <= b * n
      BY Times
    <2> QED BY <1>1, <2>1
  <1>3. ~(n < m)
    <2> SUFFICES ASSUME n < m PROVE FALSE
      OBVIOUS
    <2>1. b * n + b <= b * m
      BY Times
    <2> QED BY <1>1, <2>1
  <1>4. m = n
    BY <1>2, <1>3
  <1> QED BY <1>1, <1>4

(* As many blocks as it takes.                                             *)
LEMMA BlocksCover ==
  ASSUME NEW n \in Nat, NEW b \in Nat \ {0}
  PROVE  /\ NumberOfBlocks(n, b) \in Nat /\ b * NumberOfBlocks(n, b) \in Nat
         /\ n <= b * NumberOfBlocks(n, b) /\ b * NumberOfBlocks(n, b) < n + b
  <1> DEFINE m == n + b - 1
             q == m \div b
             r == m % b
  <1>1. m \in Nat
    OBVIOUS
  <1> HIDE DEF m
  <1>2. q \in Nat /\ r \in 0..(b - 1) /\ m = b * q + r
    BY <1>1, Divided
  <1> HIDE DEF q, r
  <1>3. b * q \in Nat
    BY <1>2, Times
  <1>4. n <= b * q /\ b * q < n + b
    BY <1>2, <1>3 DEF m
  <1>5. NumberOfBlocks(n, b) = q
    BY DEF NumberOfBlocks, q, m
  <1> QED BY <1>2, <1>3, <1>4, <1>5

-----------------------------------------------------------------------------
(* A list of n values in blocks of b.                                      *)
Sized(list, n, b) == list.length = n /\ list.block_size = b

(* Where blocks end.                                                       *)
LEMMA SizesAre ==
  ASSUME NEW n \in Nat, NEW b \in Nat \ {0}, NEW list, Sized(list, n, b), NEW k \in 0..(Blocks(list) - 1)
  PROVE  /\ Blocks(list) \in Nat /\ k \in Nat /\ b * k \in Nat /\ b * (k + 1) = b * k + b
         /\ SizeOf(list, k) \in 1..b /\ b * k + SizeOf(list, k) <= n
         /\ b * k + SizeOf(list, k) = Smaller(b * (k + 1), n)
         /\ k < Blocks(list) - 1 => SizeOf(list, k) = b
         /\ k = Blocks(list) - 1 => b * k + SizeOf(list, k) = n
  <1>1. PICK c : c = Blocks(list)
    OBVIOUS
  <1>2. c \in Nat /\ b * c \in Nat /\ n <= b * c /\ b * c < n + b
    BY <1>1, BlocksCover DEF Sized, Blocks
  <1>3. k \in Nat /\ k < c /\ b * k \in Nat /\ b * (k + 1) = b * k + b
    <2>1. k \in Nat /\ k < c
      BY <1>1, <1>2
    <2> QED BY <2>1, Times
  <1>4. SizeOf(list, k) = IF k < c - 1 THEN b ELSE n - (c - 1) * b
    BY <1>1 DEF SizeOf, Sized
  <1>5. CASE k < c - 1
    <2>1. k + 1 \in Nat /\ k + 1 < c
      BY <1>2, <1>3, <1>5
    <2>2. b * (k + 1) + b <= b * c
      BY <1>2, <2>1, Times
    <2>3. b * k + b <= n
      BY <1>2, <1>3, <2>2
    <2>4. SizeOf(list, k) = b
      BY <1>4, <1>5
    <2>5. Smaller(b * (k + 1), n) = b * k + b
      BY <2>3, <1>3 DEF Smaller
    <2>6. ~(k = c - 1)
      BY <1>5, <1>3, <1>2
    <2> QED BY <1>1, <1>2, <1>3, <2>3, <2>4, <2>5, <2>6
  <1>6. CASE k = c - 1
    <2>1. (c - 1) * b = b * k
      BY <1>6, <1>2, <1>3
    <2>2. b * c = b * k + b
      <3>1. c = k + 1
        BY <1>6, <1>2
      <3> QED BY <3>1, <1>3
    <2>3. SizeOf(list, k) = n - b * k
      BY <1>4, <1>6, <2>1
    <2>4. n - b * k \in 1..b /\ b * k + (n - b * k) = n
      BY <1>2, <1>3, <2>2
    <2>5. Smaller(b * (k + 1), n) = n
      BY <1>2, <1>3, <2>2 DEF Smaller
    <2>6. ~(k < c - 1)
      BY <1>6, <1>3, <1>2
    <2> QED BY <1>1, <1>2, <1>3, <2>3, <2>4, <2>5, <2>6
  <1> QED BY <1>2, <1>3, <1>5, <1>6

(* The place of a value is in a block.                                     *)
LEMMA PlaceInBlock ==
  ASSUME NEW n \in Nat, NEW b \in Nat \ {0}, NEW list, Sized(list, n, b),
         NEW q \in Nat, NEW r \in 0..(b - 1), b * q + r < n
  PROVE  q \in 0..(Blocks(list) - 1) /\ r + 1 \in 1..SizeOf(list, q)
  <1>1. PICK c : c = Blocks(list)
    OBVIOUS
  <1>2. c \in Nat /\ b * c \in Nat /\ n <= b * c /\ b * c < n + b
    BY <1>1, BlocksCover DEF Sized, Blocks
  <1>3. b * q \in Nat
    BY Times
  <1>4. q < c
    <2> SUFFICES ASSUME c <= q PROVE FALSE
      BY <1>2
    <2>1. b * c <= b * q
      BY <1>2, Times
    <2> QED BY <1>2, <1>3, <2>1
  <1>5. q \in 0..(Blocks(list) - 1)
    BY <1>1, <1>2, <1>4
  <1>6. /\ SizeOf(list, q) \in 1..b /\ b * q + SizeOf(list, q) = Smaller(b * (q + 1), n)
        /\ b * (q + 1) = b * q + b
    BY <1>5, SizesAre
  <1>7. PICK z \in 1..b : z = SizeOf(list, q)
    BY <1>6
  <1>8. r < z
    BY <1>3, <1>6, <1>7 DEF Smaller
  <1>9. r + 1 \in 1..z
    BY <1>8
  <1> QED BY <1>5, <1>7, <1>9

-----------------------------------------------------------------------------
LEMMA DifferencesType ==
  ASSUME NEW s \in Seq(Int), NEW p \in Int
  PROVE  /\ Differences(s, p) = [i \in 1..Len(s) |-> s[i] - (IF i = 1 THEN p ELSE s[i - 1])]
         /\ Differences(s, p) \in Seq(Int) /\ Len(Differences(s, p)) = Len(s)
  <1> DEFINE d == Differences(s, p)
  <1>1. d = [i \in 1..Len(s) |-> s[i] - (IF i = 1 THEN p ELSE s[i - 1])] /\ Len(s) \in Nat
    BY DEF Differences
  <1>2. d \in Seq(Int) /\ Len(d) = Len(s)
    BY <1>1
  <1> QED BY <1>1, <1>2

(* delta_decode() is the inverse of delta_encode().                        *)
LEMMA Decoded ==
  ASSUME NEW s \in Seq(Int), NEW p \in Int
  PROVE  Sums(Differences(s, p), p) = s
  <1> DEFINE d == Differences(s, p)
             Holds == { i \in Nat : i <= Len(s) => SumOf(SubSeq(d, 1, i)) = (IF i = 0 THEN 0 ELSE s[i] - p) }
  <1>1. d = [i \in 1..Len(s) |-> s[i] - (IF i = 1 THEN p ELSE s[i - 1])] /\ Len(s) \in Nat
    BY DifferencesType
  <1>2. d \in Seq(Int) /\ Len(d) = Len(s)
    BY DifferencesType
  <1> HIDE DEF d
  <1>3. 0 \in Holds
    <2>1. SubSeq(d, 1, 0) = << >>
      BY <1>2
    <2> QED BY <2>1, SumEmpty
  <1>4. ASSUME NEW i \in Nat, i \in Holds PROVE i + 1 \in Holds
    <2> SUFFICES ASSUME i + 1 <= Len(s) PROVE SumOf(SubSeq(d, 1, i + 1)) = s[i + 1] - p
      BY <1>4
    <2>1. /\ DOMAIN SubSeq(d, 1, i + 1) = 1..(i + 1) /\ DOMAIN SubSeq(d, 1, i) = 1..i
          /\ \A k \in 1..i : SubSeq(d, 1, i)[k] = SubSeq(d, 1, i + 1)[k]
          /\ SubSeq(d, 1, i + 1)[i + 1] = d[i + 1]
      BY <1>1, <1>2
    <2>2. SumOf(SubSeq(d, 1, i + 1)) = SumOf(SubSeq(d, 1, i)) + SubSeq(d, 1, i + 1)[i + 1]
      BY <2>1, SumStep
    <2>3. SumOf(SubSeq(d, 1, i)) = IF i = 0 THEN 0 ELSE s[i] - p
      BY <1>1, <1>4
    <2>4. d[i + 1] = s[i + 1] - (IF i = 0 THEN p ELSE s[i])
      BY <1>1
    <2>5. s[i + 1] \in Int /\ (i # 0 => s[i] \in Int)
      BY <1>1
    <2> QED BY <2>1, <2>2, <2>3, <2>4, <2>5
  <1> HIDE DEF Holds
  <1>5. \A i \in Nat : i \in Holds
    BY <1>3, <1>4, InductionFrom0
  <1>6. ASSUME NEW i \in 1..Len(s) PROVE p + SumOf(SubSeq(d, 1, i)) = s[i]
    <2>1. SumOf(SubSeq(d, 1, i)) = s[i] - p
      BY <1>1, <1>5 DEF Holds
    <2> QED BY <2>1
  <1>7. Sums(d, p) = [i \in 1..Len(s) |-> p + SumOf(SubSeq(d, 1, i))]
    BY <1>1 DEF Sums, SumOf
  <1> QED BY <1>6, <1>7 DEF d

LEMMA WholeSeq ==
  ASSUME NEW s \in Seq(Int)
  PROVE  SubSeq(s, 1, Len(s)) = s
  OBVIOUS

(* What the builder cuts for a block.                                      *)
LEMMA CutIs ==
  ASSUME NEW V \in Seq(Int), NEW b \in Nat \ {0}, NEW list, Sized(list, Len(V), b),
         NEW k \in 0..(Blocks(list) - 1)
  PROVE  /\ BlockValues(V, b, k) \in Seq(Int) /\ Len(BlockValues(V, b, k)) = SizeOf(list, k)
         /\ \A i \in 1..SizeOf(list, k) : BlockValues(V, b, k)[i] = V[b * k + i]
         /\ Last(BlockValues(V, b, k)) = V[b * k + SizeOf(list, k)] /\ Last(BlockValues(V, b, k)) \in Int
  <1>1. PICK m \in Nat : m = b * k
    BY SizesAre
  <1>2. PICK z \in 1..b : z = SizeOf(list, k)
    BY SizesAre
  <1>3. m + z <= Len(V) /\ Smaller(b * (k + 1), Len(V)) = m + z
    BY <1>1, <1>2, SizesAre
  <1>4. BlockValues(V, b, k) = SubSeq(V, m + 1, m + z)
    BY <1>1, <1>3 DEF BlockValues
  <1>5. PICK s : s = SubSeq(V, m + 1, m + z)
    OBVIOUS
  <1>6. s \in Seq(Int) /\ Len(s) = z /\ \A i \in 1..z : s[i] = V[m + i]
    BY <1>3, <1>5
  <1>7. Last(s) = s[z] /\ s[z] \in Int
    BY <1>6 DEF Last
  <1>8. s = BlockValues(V, b, k) /\ m = b * k /\ z = SizeOf(list, k)
    BY <1>1, <1>2, <1>4, <1>5
  <1>9. BlockValues(V, b, k) \in Seq(Int) /\ Len(BlockValues(V, b, k)) = SizeOf(list, k)
    BY <1>6, <1>8
  <1>10. ASSUME NEW i \in 1..SizeOf(list, k) PROVE BlockValues(V, b, k)[i] = V[b * k + i]
    <2>1. s[i] = V[m + i]
      BY <1>6, <1>8
    <2> QED BY <2>1, <1>8
  <1>11. Last(BlockValues(V, b, k)) = V[b * k + SizeOf(list, k)] /\ Last(BlockValues(V, b, k)) \in Int
    <2>1. s[z] = V[m + z]
      BY <1>6
    <2> QED BY <2>1, <1>7, <1>8
  <1> QED BY <1>9, <1>10, <1>11

(* What a reader finds of the values V, written in blocks of b.            *)
IsDocumentList(list, V, b) ==
  /\ Sized(list, Len(V), b)
  /\ \A k \in 0..(Blocks(list) - 1) :
       /\ list.upper_bounds[k] = V[b * k + SizeOf(list, k)]
       /\ Len(DocumentBlock(list, k)) = SizeOf(list, k)
       /\ \A i \in 1..SizeOf(list, k) : DocumentBlock(list, k)[i] = V[b * k + i]

IsPayloadList(list, V, b) ==
  /\ Sized(list, Len(V), b)
  /\ \A k \in 0..(Blocks(list) - 1) :
       \A i \in 1..SizeOf(list, k) : PayloadBlock(list, k)[i] = V[b * k + i]

LEMMA DocumentsWritten ==
  ASSUME NEW V \in Seq(Int), NEW b \in Nat \ {0}
  PROVE  IsDocumentList(Write(V, b, TRUE), V, b)
  <1>1. PICK list : list = Write(V, b, TRUE)
    OBVIOUS
  <1>2. PICK last : last = [n \in 0..(NumberOfBlocks(Len(V), b) - 1) |-> Last(BlockValues(V, b, n))]
    OBVIOUS
  <1>3. /\ list.length = Len(V) /\ list.block_size = b
        /\ list.upper_bounds = last
        /\ list.blocks = [n \in 0..(NumberOfBlocks(Len(V), b) - 1) |->
                            Differences(BlockValues(V, b, n), IF n = 0 THEN 0 ELSE last[n - 1])]
    BY <1>1, <1>2 DEF Write
  <1>4. Sized(list, Len(V), b) /\ Blocks(list) = NumberOfBlocks(Len(V), b)
    BY <1>3 DEF Sized, Blocks
  <1>5. ASSUME NEW k \in 0..(Blocks(list) - 1)
        PROVE  /\ list.upper_bounds[k] = V[b * k + SizeOf(list, k)]
               /\ DocumentBlock(list, k) = BlockValues(V, b, k)
    <2>1. BlockValues(V, b, k) \in Seq(Int) /\ Len(BlockValues(V, b, k)) = SizeOf(list, k)
      BY <1>4, CutIs
    <2>2. list.upper_bounds[k] = Last(BlockValues(V, b, k))
      BY <1>2, <1>3, <1>4
    <2>3. list.upper_bounds[k] = V[b * k + SizeOf(list, k)]
      BY <1>4, <2>2, CutIs
    <2>4. PICK p : p = IF k > 0 THEN list.upper_bounds[k - 1] ELSE 0
      OBVIOUS
    <2>5. p \in Int
      <3>1. CASE k > 0
        <4>1. k - 1 \in 0..(Blocks(list) - 1) /\ Blocks(list) \in Nat
          BY <1>4, <3>1, SizesAre
        <4>2. list.upper_bounds[k - 1] = Last(BlockValues(V, b, k - 1))
          BY <4>1, <1>2, <1>3, <1>4
        <4>3. Last(BlockValues(V, b, k - 1)) \in Int
          BY <4>1, <1>4, CutIs
        <4> QED BY <2>4, <3>1, <4>2, <4>3
      <3>2. CASE ~(k > 0)
        BY <2>4, <3>2
      <3> QED BY <3>1, <3>2
    <2>6. list.blocks[k] = Differences(BlockValues(V, b, k), p)
      BY <1>3, <1>4, <2>4
    <2>7. Differences(BlockValues(V, b, k), p) \in Seq(Int) /\ Len(Differences(BlockValues(V, b, k), p)) = SizeOf(list, k)
      BY <2>1, <2>5, DifferencesType
    <2>8. SubSeq(list.blocks[k], 1, SizeOf(list, k)) = Differences(BlockValues(V, b, k), p)
      BY <2>6, <2>7, WholeSeq
    <2>9. DocumentBlock(list, k) = Sums(Differences(BlockValues(V, b, k), p), p)
      BY <2>4, <2>8 DEF DocumentBlock
    <2>10. Sums(Differences(BlockValues(V, b, k), p), p) = BlockValues(V, b, k)
      BY <2>1, <2>5, Decoded
    <2> QED BY <2>3, <2>9, <2>10
  <1>6. IsDocumentList(list, V, b)
    <2> SUFFICES ASSUME NEW k \in 0..(Blocks(list) - 1)
                 PROVE  /\ list.upper_bounds[k] = V[b * k + SizeOf(list, k)]
                        /\ Len(DocumentBlock(list, k)) = SizeOf(list, k)
                        /\ \A i \in 1..SizeOf(list, k) : DocumentBlock(list, k)[i] = V[b * k + i]
      BY <1>4 DEF IsDocumentList
    <2>1. /\ Len(BlockValues(V, b, k)) = SizeOf(list, k)
          /\ \A i \in 1..SizeOf(list, k) : BlockValues(V, b, k)[i] = V[b * k + i]
      BY <1>4, CutIs
    <2>2. DocumentBlock(list, k) = BlockValues(V, b, k) /\ list.upper_bounds[k] = V[b * k + SizeOf(list, k)]
      BY <1>5
    <2>3. Len(DocumentBlock(list, k)) = SizeOf(list, k)
      BY <2>1, <2>2
    <2>4. ASSUME NEW i \in 1..SizeOf(list, k) PROVE DocumentBlock(list, k)[i] = V[b * k + i]
      <3>1. BlockValues(V, b, k)[i] = V[b * k + i]
        BY <2>1
      <3> QED BY <3>1, <2>2
    <2> QED BY <2>2, <2>3, <2>4
  <1> QED BY <1>1, <1>6

LEMMA PayloadsWritten ==
  ASSUME NEW V \in Seq(Int), NEW b \in Nat \ {0}
  PROVE  IsPayloadList(Write(V, b, FALSE), V, b)
  <1>1. PICK list : list = Write(V, b, FALSE)
    OBVIOUS
  <1>2. /\ list.length = Len(V) /\ list.block_size = b
        /\ list.blocks = [n \in 0..(NumberOfBlocks(Len(V), b) - 1) |-> BlockValues(V, b, n)]
    BY <1>1 DEF Write
  <1>3. Sized(list, Len(V), b) /\ Blocks(list) = NumberOfBlocks(Len(V), b)
    BY <1>2 DEF Sized, Blocks
  <1>4. ASSUME NEW k \in 0..(Blocks(list) - 1), NEW i \in 1..SizeOf(list, k)
        PROVE  PayloadBlock(list, k)[i] = V[b * k + i]
    <2>1. SizeOf(list, k) \in 1..b
      BY <1>3, SizesAre
    <2>2. i \in 1..b /\ i <= SizeOf(list, k)
      BY <2>1
    <2>3. PayloadBlock(list, k)[i] = list.blocks[k][i]
      BY <1>2, <2>2 DEF PayloadBlock
    <2>4. list.blocks[k] = BlockValues(V, b, k)
      BY <1>2, <1>3
    <2>5. BlockValues(V, b, k)[i] = V[b * k + i]
      BY <1>3, CutIs
    <2> QED BY <2>3, <2>4, <2>5
  <1> QED BY <1>1, <1>3, <1>4 DEF IsPayloadList

-----------------------------------------------------------------------------
(* The offset after the last one of a block is the first of the next.      *)
LEMMA Carry ==
  ASSUME NEW b \in Nat \ {0}, NEW m \in 0..b
  PROVE  /\ m < b => m \div b = 0 /\ m % b = m
         /\ m = b => m \div b = 1 /\ m % b = 0
  <1> DEFINE q == m \div b
             r == m % b
  <1>0. m \in Nat
    OBVIOUS
  <1>1. q \in Nat /\ r \in 0..(b - 1) /\ m = b * q + r
    BY <1>0, Divided
  <1> HIDE DEF q, r
  <1>2. CASE m < b
    <2>1. m \in 0..(b - 1) /\ b * 0 + m = b * q + r
      BY <1>1, <1>2
    <2>2. q = 0 /\ r = m
      BY <1>1, <2>1, OnePlace
    <2> QED BY <1>2, <2>2 DEF q, r
  <1>3. CASE m = b
    <2>1. 0 \in 0..(b - 1) /\ b * 1 + 0 = b * q + r
      BY <1>1, <1>3
    <2>2. q = 1 /\ r = 0
      BY <1>1, <2>1, OnePlace
    <2> QED BY <1>3, <2>2 DEF q, r
  <1> QED BY <1>2, <1>3

(* Where an iterator may be in a list of n values.                         *)
IsPosition(pos, n, b) ==
  /\ pos = Position(pos.block, pos.offset)
  /\ pos.block \in Nat /\ pos.offset \in 0..(b - 1)
  /\ b * pos.block + pos.offset <= n

LEMMA EndIs ==
  ASSUME NEW n \in Nat, NEW b \in Nat \ {0}, NEW list, Sized(list, n, b)
  PROVE  /\ IsPosition(End(list), n, b) /\ idx(list, End(list)) = n
         /\ \A pos : IsPosition(pos, n, b) => (pos = End(list) <=> idx(list, pos) = n)
  <1>1. PICK c : c = Blocks(list)
    OBVIOUS
  <1>2. c \in Nat /\ b * c \in Nat /\ n <= b * c /\ b * c < n + b
    BY <1>1, BlocksCover DEF Sized, Blocks
  <1>3. PICK m : m = n - (c - 1) * b
    OBVIOUS
  <1>4. (c - 1) * b = b * c - b
    BY <1>2
  <1>5. m \in 1..b /\ n = (b * c - b) + m
    BY <1>2, <1>3, <1>4
  <1>6. PICK q, r : q = n \div b /\ r = m % b
    OBVIOUS
  <1>7. q \in Nat /\ r \in 0..(b - 1) /\ n = b * q + r
    <2>1. q \in Nat /\ n % b \in 0..(b - 1) /\ n = b * q + (n % b)
      BY <1>6, Divided
    <2>2. CASE m < b
      <3>1. r = m /\ m \in 0..(b - 1)
        BY <1>5, <1>6, <2>2, Carry
      <3>2. c # 0
        <4> SUFFICES ASSUME c = 0 PROVE FALSE
          OBVIOUS
        <4>1. b * c = 0
          OBVIOUS
        <4>2. m = n + b
          BY <4>1, <1>2, <1>5
        <4> QED BY <4>2, <2>2
      <3>3. c - 1 \in Nat /\ c = (c - 1) + 1
        BY <1>2, <3>2
      <3>4. b * (c - 1) = b * c - b /\ b * (c - 1) \in Nat
        BY <1>4, <1>2, <3>3, Times
      <3>5. b * (c - 1) + m = b * q + (n % b)
        BY <1>5, <2>1, <3>4
      <3>6. c - 1 = q /\ m = n % b
        <4>1. PICK e \in Nat : e = c - 1
          BY <3>3
        <4>2. PICK t \in 0..(b - 1) : t = n % b
          BY <2>1
        <4>3. b * e + m = b * q + t
          BY <3>5, <4>1, <4>2
        <4>4. e = q /\ m = t
          BY <2>1, <3>1, <4>3, OnePlace
        <4> QED BY <4>1, <4>2, <4>4
      <3> QED BY <2>1, <3>1, <3>6
    <2>3. CASE m = b
      <3>1. r = 0
        BY <1>5, <1>6, <2>3, Carry
      <3>2. b * c + 0 = b * q + (n % b) /\ 0 \in 0..(b - 1)
        BY <1>2, <1>5, <2>1, <2>3
      <3>3. c = q /\ 0 = n % b
        BY <1>2, <2>1, <3>2, OnePlace
      <3> QED BY <2>1, <3>1, <3>3
    <2> QED BY <1>5, <2>2, <2>3
  <1>8. End(list) = Position(q, r)
    BY <1>1, <1>3, <1>6 DEF End, Sized
  <1>9. \A pos : pos.block = q /\ pos.offset = r => idx(list, pos) = b * q + r
    BY DEF idx, Sized
  <1>10. End(list).block = q /\ End(list).offset = r
    BY <1>8 DEF Position
  <1>11. IsPosition(End(list), n, b) /\ idx(list, End(list)) = n
    BY <1>7, <1>8, <1>9, <1>10 DEF IsPosition
  <1>12. ASSUME NEW pos, IsPosition(pos, n, b), idx(list, pos) = n PROVE pos = End(list)
    <2>1. PICK u, v : u = pos.block /\ v = pos.offset
      OBVIOUS
    <2>2. u \in Nat /\ v \in 0..(b - 1) /\ b * u + v = b * q + r /\ pos = Position(u, v)
      BY <1>7, <1>12, <2>1 DEF IsPosition, idx, Sized
    <2>3. u = q /\ v = r
      BY <1>7, <2>2, OnePlace
    <2> QED BY <1>8, <2>2, <2>3
  <1> QED BY <1>11, <1>12

LEMMA BeginIs ==
  ASSUME NEW n \in Nat, NEW b \in Nat \ {0}, NEW list, Sized(list, n, b)
  PROVE  IsPosition(Begin, n, b) /\ idx(list, Begin) = 0
  <1>1. Begin.block = 0 /\ Begin.offset = 0 /\ Begin = Position(0, 0)
    BY DEF Begin, Position
  <1>2. b * 0 + 0 = 0 /\ 0 \in 0..(b - 1)
    OBVIOUS
  <1> QED BY <1>1, <1>2 DEF IsPosition, idx, Sized

LEMMA IncrementIs ==
  ASSUME NEW n \in Nat, NEW b \in Nat \ {0}, NEW list, Sized(list, n, b),
         NEW pos, IsPosition(pos, n, b), idx(list, pos) < n
  PROVE  /\ IsPosition(Increment(list, pos), n, b)
         /\ idx(list, Increment(list, pos)) = idx(list, pos) + 1
  <1>1. PICK u, v : u = pos.block /\ v = pos.offset
    OBVIOUS
  <1>2. u \in Nat /\ v \in 0..(b - 1) /\ idx(list, pos) = b * u + v /\ b * u + v < n
    BY <1>1 DEF IsPosition, idx, Sized
  <1>3. PICK q, r : q = (v + 1) \div b /\ r = (v + 1) % b
    OBVIOUS
  <1>4. v + 1 \in 0..b /\ b * u \in Nat /\ b * (u + 1) = b * u + b
    BY <1>2, Times
  <1>5. u + q \in Nat /\ r \in 0..(b - 1) /\ b * (u + q) + r = b * u + v + 1
    <2>1. CASE v + 1 < b
      <3>1. q = 0 /\ r = v + 1
        BY <1>3, <1>4, <2>1, Carry
      <3>2. u + q = u
        BY <3>1, <1>2
      <3> QED BY <1>2, <1>4, <2>1, <3>1, <3>2
    <2>2. CASE v + 1 = b
      <3>1. q = 1 /\ r = 0
        BY <1>3, <1>4, <2>2, Carry
      <3>2. u + q = u + 1
        BY <3>1
      <3> QED BY <1>2, <1>4, <2>2, <3>1, <3>2
    <2> QED BY <1>2, <2>1, <2>2
  <1>6. Increment(list, pos) = Position(u + q, r)
    BY <1>1, <1>3 DEF Increment, Sized
  <1>7. Increment(list, pos).block = u + q /\ Increment(list, pos).offset = r
    BY <1>6 DEF Position
  <1>8. idx(list, Increment(list, pos)) = b * (u + q) + r
    BY <1>7 DEF idx, Sized
  <1>9. b * (u + q) + r <= n
    BY <1>2, <1>4, <1>5
  <1>10. IsPosition(Increment(list, pos), n, b)
    BY <1>5, <1>6, <1>7, <1>9 DEF IsPosition
  <1> QED BY <1>2, <1>4, <1>5, <1>8, <1>10

(* std::lower_bound.                                                       *)
LEMMA LowerBoundIs ==
  ASSUME NEW f, NEW from \in Nat, NEW to \in Nat, from <= to, NEW val \in Int,
         \A i \in from..(to - 1) : f[i] \in Int
  PROVE  /\ LowerBound(f, from, to, val) \in from..to
         /\ \A j \in from..(LowerBound(f, from, to, val) - 1) : f[j] < val
         /\ LowerBound(f, from, to, val) < to => f[LowerBound(f, from, to, val)] >= val
  <1> DEFINE S == { i \in from..to : i < to => f[i] >= val }
             Is(i) == /\ \A j \in from..(i - 1) : f[j] < val
                      /\ i < to => f[i] >= val
  <1>1. to \in S /\ S \in SUBSET Nat
    OBVIOUS
  <1>2. PICK i \in S : \A m \in S : i <= m
    BY <1>1, LeastNumber
  <1>3. \A j \in from..(i - 1) : f[j] < val
    <2> SUFFICES ASSUME NEW j \in from..(i - 1) PROVE f[j] < val
      OBVIOUS
    <2>1. j \in from..to /\ j < i /\ j \in from..(to - 1)
      BY <1>2
    <2>2. j \notin S
      BY <1>2, <2>1
    <2> QED BY <2>1, <2>2
  <1>4. i \in from..to /\ Is(i)
    BY <1>2, <1>3
  <1>5. LowerBound(f, from, to, val) = CHOOSE k \in from..to : Is(k)
    BY DEF LowerBound
  <1> HIDE DEF Is
  <1>6. \E k \in from..to : Is(k)
    BY <1>4
  <1>7. LowerBound(f, from, to, val) \in from..to /\ Is(LowerBound(f, from, to, val))
    BY <1>5, <1>6
  <1> QED BY <1>7 DEF Is

Rises(V) == \A i, j \in DOMAIN V : i < j => V[i] < V[j]

(* What a jump from one place to another promises.                         *)
IsJump(V, from, to, val) ==
  /\ to \in from..Len(V)
  /\ \A i \in (from + 1)..to : V[i] < val
  /\ to < Len(V) => V[to + 1] >= val

(* A place is in or behind every block before its own.                     *)
LEMMA AdvanceToIs ==
  ASSUME NEW V \in Seq(Int), Rises(V), NEW b \in Nat \ {0}, NEW list, IsDocumentList(list, V, b),
         NEW pos, IsPosition(pos, Len(V), b), NEW val \in Int
  PROVE  /\ IsPosition(AdvanceTo(list, pos, val), Len(V), b)
         /\ IsJump(V, idx(list, pos), idx(list, AdvanceTo(list, pos, val)), val)
  <1>1. PICK n \in Nat : n = Len(V)
    OBVIOUS
  <1>2. PICK c : c = Blocks(list)
    OBVIOUS
  <1>3. Sized(list, n, b)
    BY <1>1 DEF IsDocumentList
  <1>4. c \in Nat /\ b * c \in Nat /\ n <= b * c /\ b * c < n + b
    BY <1>2, <1>3, BlocksCover DEF Sized, Blocks
  <1>5. PICK u \in Nat, v \in 0..(b - 1) : u = pos.block /\ v = pos.offset /\ pos = Position(u, v)
    BY DEF IsPosition
  <1>6. PICK p \in Nat : p = b * u + v /\ p = idx(list, pos) /\ p <= n
    <2>1. b * u \in Nat /\ b * u + v <= n
      BY <1>1, <1>5, Times DEF IsPosition
    <2>2. idx(list, pos) = b * u + v
      BY <1>3, <1>5 DEF idx, Sized
    <2> QED BY <2>1, <2>2
  <1>7. u <= c
    <2> SUFFICES ASSUME c < u PROVE FALSE
      BY <1>4, <1>5
    <2>1. b * c + b <= b * u /\ b * u \in Nat
      BY <1>4, <1>5, Times
    <2> QED BY <1>4, <1>6, <2>1
  <1>8. ASSUME NEW k \in 0..(c - 1)
        PROVE  /\ b * k \in Nat /\ SizeOf(list, k) \in 1..b /\ b * k + SizeOf(list, k) \in 1..n
               /\ list.upper_bounds[k] = V[b * k + SizeOf(list, k)]
               /\ list.upper_bounds[k] \in Int
    <2>1. b * k \in Nat /\ SizeOf(list, k) \in 1..b /\ b * k + SizeOf(list, k) <= n
      BY <1>2, <1>3, SizesAre
    <2>2. PICK e : e = b * k + SizeOf(list, k)
      OBVIOUS
    <2>3. e \in 1..n
      BY <2>1, <2>2
    <2>4. list.upper_bounds[k] = V[e]
      BY <1>2, <2>2 DEF IsDocumentList
    <2> QED BY <1>1, <2>1, <2>2, <2>3, <2>4
  <1>9. PICK B : B = LowerBound(list.upper_bounds, u, c, val)
    OBVIOUS
  <1>10. /\ B \in u..c
         /\ \A k \in u..(B - 1) : list.upper_bounds[k] < val
         /\ B < c => list.upper_bounds[B] >= val
    <2>1. \A k \in u..(c - 1) : list.upper_bounds[k] \in Int
      BY <1>4, <1>8
    <2> QED BY <1>4, <1>7, <1>9, <2>1, LowerBoundIs
  <1>11. ASSUME NEW i \in (p + 1)..n, NEW k \in u..(B - 1), i <= b * k + SizeOf(list, k)
         PROVE  V[i] < val
    <2>1. k \in 0..(c - 1)
      BY <1>4, <1>10
    <2>2. PICK e \in 1..n : e = b * k + SizeOf(list, k) /\ V[e] < val
      BY <1>8, <1>10, <2>1
    <2>3. i \in 1..n /\ i <= e
      BY <1>11, <2>2
    <2>4. i = e \/ V[i] < V[e]
      <3>1. i \in DOMAIN V /\ e \in DOMAIN V
        BY <1>1, <2>2, <2>3
      <3> QED BY <2>2, <2>3, <3>1 DEF Rises
    <2>5. V[i] \in Int /\ V[e] \in Int
      BY <1>1, <2>2, <2>3
    <2> QED BY <2>2, <2>4, <2>5
  <1>12. PICK start : start = NextGeqPosition(list, pos, val)
    OBVIOUS
  <1>13. start = Position(B, IF B = u THEN v ELSE 0)
    BY <1>2, <1>5, <1>9, <1>12 DEF NextGeqPosition
  <1>14. start.block = B /\ start.offset = (IF B = u THEN v ELSE 0)
    BY <1>13 DEF Position
  <1>15. CASE B >= c
    <2>1. AdvanceTo(list, pos, val) = End(list)
      BY <1>2, <1>12, <1>14, <1>15 DEF AdvanceTo
    <2>2. IsPosition(End(list), n, b) /\ idx(list, End(list)) = n
      BY <1>3, EndIs
    <2>3. ASSUME NEW i \in (p + 1)..n PROVE V[i] < val
      <3>1. B = c /\ n # 0 /\ c # 0
        <4>1. B = c /\ n # 0
          BY <1>10, <1>15, <1>4
        <4>2. c # 0
          <5> SUFFICES ASSUME c = 0 PROVE FALSE
            OBVIOUS
          <5>1. b * c = 0
            OBVIOUS
          <5> QED BY <5>1, <4>1, <1>4
        <4> QED BY <4>1, <4>2
      <3>2. u < c
        <4> SUFFICES ASSUME u = c PROVE FALSE
          BY <1>7, <1>4
        <4>1. b * u = b * c
          OBVIOUS
        <4> QED BY <4>1, <1>4, <1>6
      <3>3. c - 1 \in u..(B - 1) /\ c - 1 \in 0..(c - 1)
        BY <3>1, <3>2, <1>4
      <3>4. b * (c - 1) + SizeOf(list, c - 1) = n
        BY <1>2, <1>3, <3>3, SizesAre
      <3>5. i <= b * (c - 1) + SizeOf(list, c - 1)
        BY <3>4
      <3> QED BY <3>3, <3>5, <1>11
    <2>4. IsJump(V, p, n, val)
      BY <1>1, <1>6, <2>3 DEF IsJump
    <2> QED BY <1>1, <1>6, <2>1, <2>2, <2>4
  <1>16. CASE B < c
    <2>1. B \in 0..(c - 1)
      BY <1>4, <1>10, <1>16
    <2>2. PICK o \in 0..(b - 1) : o = start.offset
      BY <1>14
    <2>3. PICK z \in 1..b : z = SizeOf(list, B)
      BY <1>8, <2>1
    <2>4. PICK m \in Nat : m = b * B /\ m + z \in 1..n /\ V[m + z] >= val
      BY <1>8, <1>10, <1>16, <2>1, <2>3
    <2>19. m + z \in 1..n
      BY <2>4
    <2>20. (B = c - 1 => m + z = n) /\ (B < c - 1 => z = b)
      <3>1. B = c - 1 => b * B + SizeOf(list, B) = n
        BY <1>2, <1>3, <2>1, SizesAre
      <3>2. B < c - 1 => SizeOf(list, B) = b
        BY <1>2, <1>3, <2>1, SizesAre
      <3>3. b * B + SizeOf(list, B) = m + z
        BY <2>3, <2>4
      <3> QED BY <2>3, <3>1, <3>2, <3>3
    <2>5. PICK s : s = DocumentBlock(list, B)
      OBVIOUS
    <2>6. Len(s) = z /\ \A i \in 1..z : s[i] = V[m + i]
      BY <1>2, <2>1, <2>3, <2>4, <2>5 DEF IsDocumentList
    <2>7. p <= m + o /\ o <= z
      <3>1. CASE B = u
        <4>1. o = v /\ m = b * u
          BY <1>14, <2>2, <2>4, <3>1
        <4>2. p = m + v
          BY <1>6, <4>1
        <4>3. CASE B = c - 1
          <5>1. m + z = n
            BY <2>20, <4>3
          <5> QED BY <1>6, <4>1, <4>2, <5>1
        <4>4. CASE B < c - 1
          <5>1. z = b
            BY <2>20, <4>4
          <5> QED BY <4>1, <4>2, <5>1
        <4> QED BY <4>3, <4>4, <2>1, <1>4
      <3>2. CASE B # u
        <4>1. o = 0 /\ u < B /\ B \in Nat
          BY <1>10, <1>14, <2>1, <2>2, <3>2
        <4>2. b * u + b <= b * B /\ b * u \in Nat
          BY <4>1, Times
        <4>3. PICK w \in Nat : w = b * u /\ w + b <= m
          BY <2>4, <4>2
        <4>4. p = w + v
          BY <1>6, <4>3
        <4> QED BY <4>1, <4>3, <4>4
      <3> QED BY <3>1, <3>2
    <2>8. PICK L : L = LowerBound(s, o + 1, z + 1, val)
      OBVIOUS
    <2>9. /\ L \in (o + 1)..(z + 1)
          /\ \A j \in (o + 1)..(L - 1) : s[j] < val
          /\ L < z + 1 => s[L] >= val
      <3>1. ASSUME NEW j \in (o + 1)..((z + 1) - 1) PROVE s[j] \in Int
        <4>0. m + z \in 1..n
          BY <2>4
        <4>1. j \in 1..z /\ m + j \in 1..n
          <5>1. j >= 1 /\ j <= z /\ j \in Int
            OBVIOUS
          <5> QED BY <4>0, <5>1
        <4> QED BY <1>1, <2>6, <4>1
      <3>2. o + 1 \in Nat /\ z + 1 \in Nat /\ o + 1 <= z + 1
        BY <2>7
      <3> QED BY <2>8, <3>1, <3>2, LowerBoundIs
    <2>10. AdvanceTo(list, pos, val) = Position(B, L - 1)
      <3>1. ~(start.block >= Blocks(list))
        BY <1>2, <1>4, <1>14, <2>1, <1>16
      <3> QED BY <1>12, <1>14, <2>2, <2>5, <2>6, <2>8, <3>1 DEF AdvanceTo
    <2>11. L - 1 \in 0..(b - 1) /\ m + (L - 1) <= n
      <3>1. CASE L <= z
        BY <2>3, <2>9, <2>19, <3>1
      <3>2. CASE L = z + 1
        <4>1. o = z
          <5> SUFFICES ASSUME o < z PROVE FALSE
            BY <2>7
          <5>1. s[z] < val
            BY <2>9, <3>2
          <5>2. s[z] = V[m + z] /\ V[m + z] \in Int
            BY <1>1, <2>4, <2>6
          <5> QED BY <2>4, <5>1, <5>2
        <4> QED BY <2>2, <2>4, <3>2, <4>1
      <3> QED BY <2>9, <3>1, <3>2
    <2>12. PICK t : t = AdvanceTo(list, pos, val)
      OBVIOUS
    <2>13. t.block = B /\ t.offset = L - 1 /\ t = Position(B, L - 1)
      BY <2>10, <2>12 DEF Position
    <2>14. idx(list, t) = m + (L - 1)
      BY <1>3, <2>4, <2>13 DEF idx, Sized
    <2>15. IsPosition(t, n, b)
      <3>1. B \in Nat /\ b * B + (L - 1) <= n
        BY <2>1, <2>4, <2>11
      <3> QED BY <2>11, <2>13, <3>1 DEF IsPosition
    <2>16. ASSUME NEW i \in (p + 1)..(m + (L - 1)) PROVE V[i] < val
      <3>0. i \in (p + 1)..n /\ i \in 1..n
        BY <2>11
      <3>1. CASE i > m + o
        <4>1. i - m \in (o + 1)..(L - 1) /\ i - m \in 1..z
          BY <2>9, <3>1
        <4>2. s[i - m] = V[m + (i - m)] /\ s[i - m] < val
          BY <2>6, <2>9, <4>1
        <4>3. m + (i - m) = i
          OBVIOUS
        <4> QED BY <4>2, <4>3
      <3>2. CASE i <= m + o
        <4>1. o = 0 /\ u < B
          <5>1. B # u
            <6> SUFFICES ASSUME B = u PROVE FALSE
              OBVIOUS
            <6>1. o = v /\ m = b * u
              BY <1>14, <2>2, <2>4
            <6> QED BY <1>6, <3>2, <6>1
          <5> QED BY <5>1, <1>10, <1>14, <2>2
        <4>2. B - 1 \in u..(B - 1) /\ B - 1 \in 0..(c - 1) /\ B - 1 < c - 1 /\ B = (B - 1) + 1
          BY <4>1, <2>1, <1>4
        <4>3. b * (B - 1) + b = b * B /\ SizeOf(list, B - 1) = b
          BY <1>2, <1>3, <4>2, SizesAre
        <4>4. i <= b * (B - 1) + SizeOf(list, B - 1)
          BY <2>4, <3>2, <4>1, <4>3
        <4> QED BY <3>0, <4>2, <4>4, <1>11
      <3> QED BY <3>1, <3>2
    <2>17. m + (L - 1) < n => V[m + (L - 1) + 1] >= val
      <3> SUFFICES ASSUME m + (L - 1) < n PROVE V[m + L] >= val
        BY <2>9
      <3>1. CASE L <= z
        BY <2>6, <2>9, <3>1
      <3>2. CASE L = z + 1
        <4>1. B < c - 1
          <5> SUFFICES ASSUME B = c - 1 PROVE FALSE
            BY <2>1, <1>4
          <5>1. m + z = n
            BY <2>20
          <5> QED BY <3>2, <5>1
        <4>2. z = b
          BY <2>20, <4>1
        <4> QED BY <2>11, <3>2, <4>2
      <3> QED BY <2>9, <3>1, <3>2
    <2>18. IsJump(V, p, m + (L - 1), val)
      <3>1. m + (L - 1) \in p..n
        BY <2>7, <2>9, <2>11
      <3> QED BY <1>1, <2>16, <2>17, <3>1 DEF IsJump
    <2> QED BY <1>1, <1>6, <2>12, <2>14, <2>15, <2>18
  <1> QED BY <1>4, <1>10, <1>15, <1>16

-----------------------------------------------------------------------------
(* The iterator.                                                           *)
Documents(list) == [i \in DOMAIN list |-> list[i].document]
Payloads(list)  == [i \in DOMAIN list |-> list[i].payload]

(* The lists in memory are those written, and both iterators are at one    *)
(* place of them.                                                          *)
IteratorInv ==
  /\ written \in Lists
  /\ documents.block_size \in Nat \ {0}
  /\ IsDocumentList(documents, Documents(written), documents.block_size)
  /\ IsPayloadList(payloads, Payloads(written), documents.block_size)
  /\ IsPosition(document_position, Len(written), documents.block_size)
  /\ payload_position = document_position

LEMMA ListIs ==
  ASSUME NEW list \in Lists
  PROVE  /\ Documents(list) \in Seq(Int) /\ Rises(Documents(list)) /\ Len(Documents(list)) = Len(list)
         /\ Payloads(list) \in Seq(Int) /\ Len(Payloads(list)) = Len(list)
         /\ \A i \in 1..Len(list) : list[i] = [document |-> Documents(list)[i], payload |-> Payloads(list)[i]]
  <1>1. list \in Seq([document : Nat, payload : Int])
    BY ListsAssumption
  <1>2. \A i \in 1..Len(list) : list[i] \in [document : Nat, payload : Int]
    <2>1. \A S : \A s \in Seq(S) : \A i \in 1..Len(s) : s[i] \in S
      OBVIOUS
    <2> QED BY <1>1, <2>1
  <1>3. DOMAIN list = 1..Len(list) /\ Len(list) \in Nat
    BY <1>1
  <1>4. /\ Documents(list) = [i \in 1..Len(list) |-> list[i].document]
        /\ Payloads(list) = [i \in 1..Len(list) |-> list[i].payload]
    BY <1>3 DEF Documents, Payloads
  <1>5. \A i \in 1..Len(list) :
          /\ list[i].document \in Int /\ list[i].payload \in Int
          /\ list[i] = [document |-> list[i].document, payload |-> list[i].payload]
    BY <1>2
  <1>6. PICK n \in Nat : n = Len(list)
    BY <1>3
  <1>7. Documents(list) \in [1..n -> Int] /\ Payloads(list) \in [1..n -> Int]
    BY <1>4, <1>5, <1>6
  <1>8. \A s \in [1..n -> Int] : s \in Seq(Int) /\ Len(s) = n
    OBVIOUS
  <1>9. Rises(Documents(list))
    <2>1. ASSUME NEW i \in 1..Len(list), NEW j \in 1..Len(list), i < j
          PROVE  Documents(list)[i] < Documents(list)[j]
      <3>1. list[i].document < list[j].document
        BY <1>3, <2>1, ListsAssumption
      <3> QED BY <3>1, <1>4
    <2>2. DOMAIN Documents(list) = 1..Len(list)
      BY <1>4
    <2> QED BY <2>1, <2>2 DEF Rises
  <1>10. ASSUME NEW i \in 1..Len(list)
         PROVE  list[i] = [document |-> Documents(list)[i], payload |-> Payloads(list)[i]]
    <2>1. Documents(list)[i] = list[i].document /\ Payloads(list)[i] = list[i].payload
      BY <1>4
    <2> QED BY <1>5, <2>1
  <1> QED BY <1>6, <1>7, <1>8, <1>9, <1>10

(* The posting it shows is the one of the cursor.                          *)
ShowsCurrent ==
  /\ idx(documents, document_position) \in 0..Len(written)
  /\ IteratorAtEnd <=> idx(documents, document_position) = Len(written)
  /\ (IF IteratorAtEnd THEN << >> ELSE << [document |-> document, payload |-> payload] >>)
       = Cursor!Current

LEMMA Shows == IteratorInv => ShowsCurrent
  <1> SUFFICES ASSUME IteratorInv PROVE ShowsCurrent
    OBVIOUS
  <1>1. PICK n \in Nat : n = Len(written)
    BY ListsAssumption DEF IteratorInv
  <1>2. PICK b \in Nat \ {0} : b = documents.block_size
    BY DEF IteratorInv
  <1>3. Len(Documents(written)) = n /\ Len(Payloads(written)) = n
    BY <1>1, ListIs DEF IteratorInv
  <1>4. Sized(documents, n, b) /\ Sized(payloads, n, b)
    BY <1>2, <1>3 DEF IteratorInv, IsDocumentList, IsPayloadList
  <1>5. IsPosition(document_position, n, b)
    BY <1>1, <1>2 DEF IteratorInv
  <1>6. PICK q \in Nat, r \in 0..(b - 1) : q = document_position.block /\ r = document_position.offset
    BY <1>5 DEF IsPosition
  <1>7. idx(documents, document_position) = b * q + r /\ b * q \in Nat /\ b * q + r <= n
    BY <1>4, <1>5, <1>6, Times DEF idx, Sized, IsPosition
  <1>8. IteratorAtEnd <=> idx(documents, document_position) = n
    BY <1>4, <1>5, EndIs DEF IteratorAtEnd
  <1>9. ASSUME b * q + r < n
        PROVE  [document |-> document, payload |-> payload] = written[b * q + r + 1]
    <2>1. PICK i \in 1..n : i = b * q + r + 1
      BY <1>7, <1>9
    <2>2. q \in 0..(Blocks(documents) - 1) /\ r + 1 \in 1..SizeOf(documents, q)
      BY <1>4, <1>9, PlaceInBlock
    <2>3. q \in 0..(Blocks(payloads) - 1) /\ r + 1 \in 1..SizeOf(payloads, q)
      BY <1>4, <1>9, PlaceInBlock
    <2>4. document = Documents(written)[b * q + (r + 1)]
      <3>1. document = DocumentBlock(documents, q)[r + 1]
        BY <1>6 DEF document
      <3>2. IsDocumentList(documents, Documents(written), b)
        BY <1>2 DEF IteratorInv
      <3> QED BY <2>2, <3>1, <3>2 DEF IsDocumentList
    <2>5. payload = Payloads(written)[b * q + (r + 1)]
      <3>1. payload = PayloadBlock(payloads, q)[r + 1]
        BY <1>6 DEF payload, IteratorInv
      <3>2. IsPayloadList(payloads, Payloads(written), b)
        BY <1>2 DEF IteratorInv
      <3> QED BY <2>3, <3>1, <3>2 DEF IsPayloadList
    <2>6. b * q + (r + 1) = i
      BY <1>7, <2>1
    <2>7. written[i] = [document |-> Documents(written)[i], payload |-> Payloads(written)[i]]
      BY <1>1, ListIs DEF IteratorInv
    <2> QED BY <2>1, <2>4, <2>5, <2>6, <2>7
  <1>10. Cursor!Current = IF idx(documents, document_position) = n THEN << >>
                          ELSE << written[idx(documents, document_position) + 1] >>
    BY <1>1 DEF Cursor!Current, Cursor!AtEnd
  <1>11. PICK p : p = b * q + r
    OBVIOUS
  <1>12. p \in 0..n /\ idx(documents, document_position) = p
    BY <1>7, <1>11
  <1>13. p # n => p < n
    BY <1>12
  <1>14. p # n => [document |-> document, payload |-> payload] = written[p + 1]
    BY <1>9, <1>11, <1>13
  <1> QED BY <1>1, <1>8, <1>10, <1>12, <1>14 DEF ShowsCurrent

LEMMA ShowsNext == IteratorInv' => ShowsCurrent'
  BY Shows, PTL

(* Beginning.                                                              *)
LEMMA InitInv == IteratorInit => IteratorInv /\ Cursor!Init
  <1> SUFFICES ASSUME IteratorInit PROVE IteratorInv /\ Cursor!Init
    OBVIOUS
  <1>1. PICK sizes \in BlockSizes :
          /\ documents = Write(Documents(written), sizes[1], TRUE)
          /\ payloads = Write(Payloads(written), sizes[2], FALSE)
    BY DEF IteratorInit, Documents, Payloads
  <1>2. PICK b \in Nat \ {0} : b = sizes[1] /\ b = sizes[2]
    BY SizesAssumption
  <1>3. written \in Lists /\ document_position = Begin /\ payload_position = Begin
    BY DEF IteratorInit
  <1>4. PICK D \in Seq(Int), P \in Seq(Int) :
          D = Documents(written) /\ P = Payloads(written) /\ Len(D) = Len(written)
    BY <1>3, ListIs
  <1>5. IsDocumentList(documents, D, b) /\ IsPayloadList(payloads, P, b)
    BY <1>1, <1>2, <1>4, DocumentsWritten, PayloadsWritten
  <1>6. Sized(documents, Len(D), b) /\ documents.block_size = b /\ Len(D) \in Nat
    BY <1>5 DEF IsDocumentList, Sized
  <1>7. IsPosition(Begin, Len(D), b) /\ idx(documents, Begin) = 0
    BY <1>6, BeginIs
  <1>8. IteratorInv
    BY <1>3, <1>4, <1>5, <1>6, <1>7 DEF IteratorInv
  <1>9. idx(documents, document_position) = 0
    BY <1>3, <1>7
  <1> QED BY <1>3, <1>8, <1>9, Shows DEF Cursor!Init, ShowsCurrent

(* A step that leaves the lists alone moves the cursor to a place.         *)
LEMMA MovesTo ==
  ASSUME IteratorInv, UNCHANGED <<written, documents, payloads>>,
         IsPosition(document_position', Len(written), documents.block_size),
         payload_position' = document_position'
  PROVE  IteratorInv'
  BY DEF IteratorInv

LEMMA StepInv ==
  ASSUME IteratorInv, [IteratorNext]_iterator_vars
  PROVE  /\ IteratorInv'
         /\ [Cursor!Increment \/ \E doc \in 0..MaxDocument : Cursor!AdvanceTo(doc)]_iterator_vars
  <1>1. PICK b \in Nat \ {0} : b = documents.block_size
    BY DEF IteratorInv
  <1>2. PICK V \in Seq(Int) : V = Documents(written) /\ Len(V) = Len(written) /\ Rises(V)
    BY ListIs DEF IteratorInv
  <1>3. PICK n \in Nat : n = Len(V)
    OBVIOUS
  <1>4. /\ IsDocumentList(documents, V, b) /\ IsPayloadList(payloads, Payloads(written), b)
        /\ IsPosition(document_position, n, b) /\ payload_position = document_position
        /\ written \in Lists
    BY <1>1, <1>2, <1>3 DEF IteratorInv
  <1>5. Sized(documents, n, b) /\ payloads.block_size = b
    BY <1>3, <1>4 DEF IsDocumentList, IsPayloadList, Sized
  <1>6. PICK p : p = idx(documents, document_position)
    OBVIOUS
  <1>7. p \in 0..n /\ (IteratorAtEnd <=> p = n)
    BY <1>2, <1>3, <1>6, Shows DEF ShowsCurrent
  <1>8. CASE increment_both
    <2>1. /\ ~IteratorAtEnd /\ UNCHANGED <<written, documents, payloads>>
          /\ document_position' = Increment(documents, document_position)
          /\ payload_position' = Increment(payloads, payload_position)
      BY <1>8 DEF increment_both
    <2>2. p < n
      BY <1>7, <2>1
    <2>3. /\ IsPosition(document_position', n, b)
          /\ idx(documents, document_position') = p + 1
      BY <1>4, <1>5, <1>6, <2>1, <2>2, IncrementIs
    <2>4. payload_position' = document_position'
      BY <1>4, <1>5, <2>1 DEF Increment, Sized
    <2>5. IteratorInv'
      BY <1>1, <1>2, <1>3, <2>1, <2>3, <2>4, MovesTo
    <2>6. /\ idx(documents, document_position)' = p + 1
          /\ (IF IteratorAtEnd THEN << >> ELSE << [document |-> document, payload |-> payload] >>)'
               = Cursor!Current'
      BY <2>1, <2>3, <2>5, ShowsNext DEF ShowsCurrent
    <2>7. ~Cursor!AtEnd
      BY <1>2, <1>3, <1>6, <2>2 DEF Cursor!AtEnd
    <2>8. Cursor!Increment
      BY <1>6, <2>1, <2>6, <2>7 DEF Cursor!Increment
    <2> QED BY <2>5, <2>8
  <1>9. CASE \E doc \in 0..MaxDocument : advance_to(doc)
    <2>1. PICK doc \in 0..MaxDocument : advance_to(doc)
      BY <1>9
    <2>2. /\ UNCHANGED <<written, documents, payloads>>
          /\ document_position' = AdvanceTo(documents, document_position, doc)
          /\ payload_position' = document_position'
      BY <2>1 DEF advance_to
    <2>3. /\ IsPosition(document_position', n, b)
          /\ IsJump(V, p, idx(documents, document_position'), doc)
      <3>1. doc \in Int
        BY MaxDocumentAssumption
      <3> QED BY <1>2, <1>3, <1>4, <1>6, <2>2, <3>1, AdvanceToIs
    <2>4. IteratorInv'
      BY <1>1, <1>2, <1>3, <2>2, <2>3, MovesTo
    <2>5. /\ idx(documents, document_position)' = idx(documents, document_position')
          /\ (IF IteratorAtEnd THEN << >> ELSE << [document |-> document, payload |-> payload] >>)'
               = Cursor!Current'
      BY <2>2, <2>4, ShowsNext DEF ShowsCurrent
    <2>6. PICK q : q = idx(documents, document_position)'
      OBVIOUS
    <2>7. /\ q \in p..Len(written)
          /\ \A i \in (p + 1)..q : written[i].document < doc
          /\ q < Len(written) => written[q + 1].document >= doc
      <3>1. \A i \in 1..n : V[i] = written[i].document
        BY <1>2, <1>3 DEF Documents
      <3>2. IsJump(V, p, q, doc)
        BY <2>3, <2>5, <2>6
      <3> QED BY <1>2, <1>3, <1>7, <3>1, <3>2 DEF IsJump
    <2>8. Cursor!AdvanceTo(doc)
      BY <1>6, <2>2, <2>5, <2>6, <2>7 DEF Cursor!AdvanceTo
    <2> QED BY <2>1, <2>4, <2>8
  <1>10. CASE UNCHANGED iterator_vars
    <2>1. IteratorInv'
      BY <1>10 DEF iterator_vars, IteratorInv
    <2> QED BY <1>10, <2>1
  <1> QED BY <1>8, <1>9, <1>10 DEF IteratorNext

(* The iterator over a list in blocks is a cursor over its postings: it    *)
(* shows each where it was written, with its own payload, and every jump   *)
(* ends at the first that is not before the document asked for.            *)
THEOREM IteratorIsCursor == IteratorSpec => ImplementsCursor
  <1>1. IteratorInv /\ [IteratorNext]_iterator_vars
          => /\ IteratorInv'
             /\ [Cursor!Increment \/ \E doc \in 0..MaxDocument : Cursor!AdvanceTo(doc)]_iterator_vars
    BY StepInv
  <1> QED BY <1>1, InitInv, PTL DEF IteratorSpec, ImplementsCursor
===============================================================================
