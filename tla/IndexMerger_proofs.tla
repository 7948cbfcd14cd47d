-------------------------- MODULE IndexMerger_proofs --------------------------
(***************************************************************************)
(* Proofs about TermMerge, for any number of batches and any term files.   *)
(* Whatever terms a merge takes, and in whatever order, every row of every *)
(* batch ends up in exactly one merged row of its own term (EveryRowOnce). *)
(* If moreover every step takes all rows of a least term, and the files of *)
(* the batches are sorted, the merged terms ascend (TermsAscend): for that *)
(* the invariant also says that what is merged is below what is waiting.   *)
(*                                                                         *)
(* Then proofs about IndexMerger, for any batches that have terms and      *)
(* documents: with its heap it implements TermMerge, also when the heap it *)
(* starts with is none, and when it is one every step takes the rows of a  *)
(* least term.                                                             *)
(*                                                                         *)
(* The invariant says what the heap holds: at most one entry of a batch,   *)
(* and it is the entry of a row.  What pop_heap and push_heap do with the  *)
(* entries is proved in StdHeap_proofs.                                    *)
(*                                                                         *)
(* Last about the files that the merger writes, for batches of consecutive *)
(* documents: each posting is in one row of the merged index, and the      *)
(* files agree.  FilesInv says of every row written that it is its         *)
(* batches' rows end to end, where its lists start, and of the documents   *)
(* that their counts so far are those of the rows before the cursor.       *)
(***************************************************************************)
EXTENDS TermMergeHeap, Induction

(* One step, of either specification, and what it writes.                  *)
Step == \E from \in SUBSET Waiting : Merge(from)

LEMMA LeastIsSome == MergeLeast => Step
  BY DEF MergeLeast, Step

NewRow(from) == { <<c, cursor[c]>> : c \in from }

LEMMA StepShape ==
  ASSUME TypeOK, NEW from \in SUBSET Waiting, Merge(from)
  PROVE  \E t \in Int :
           /\ \A b \in from : b \in Batches /\ cursor[b] \in 1..Len(rows[b]) /\ t = Current(b)
           /\ from # {}
           /\ rows' = rows
           /\ cursor' = [b \in Batches |-> IF b \in from THEN cursor[b] + 1 ELSE cursor[b]]
           /\ merged' = Append(merged, [term |-> t, from |-> NewRow(from)])
  <1>1. \A b \in Batches : rows[b] \in Seq(Int)
    BY FilesAssumption DEF TypeOK, Batches
  <1>2. \A b \in from : b \in Batches /\ cursor[b] \in 1..Len(rows[b])
    BY <1>1 DEF TypeOK, Waiting
  <1>3. PICK b \in from : merged' = Append(merged, [term |-> Current(b), from |-> NewRow(from)])
    BY DEF Merge, NewRow
  <1>4. Current(b) \in Int
    BY <1>1, <1>2 DEF Current
  <1>5. \A c \in from : Current(b) = Current(c)
    BY DEF Merge
  <1> QED BY <1>2, <1>3, <1>4, <1>5 DEF Merge

LEMMA AppendRow ==
  ASSUME NEW S, NEW s \in Seq(S), NEW e \in S
  PROVE  /\ Append(s, e) \in Seq(S)
         /\ DOMAIN Append(s, e) = DOMAIN s \cup {Len(s) + 1}
         /\ Append(s, e)[Len(s) + 1] = e
         /\ \A i \in DOMAIN s : Append(s, e)[i] = s[i] /\ i < Len(s) + 1
         /\ DOMAIN s \subseteq Int /\ Len(s) + 1 \in Int
  OBVIOUS

Row == [term : Int, from : SUBSET (Batches \X (Nat \ {0}))]

LEMMA StepType ==
  ASSUME TypeOK, NEW from \in SUBSET Waiting, Merge(from)
  PROVE  TypeOK'
  <1>1. PICK t \in Int :
           /\ \A b \in from : b \in Batches /\ cursor[b] \in 1..Len(rows[b]) /\ t = Current(b)
           /\ rows' = rows
           /\ cursor' = [b \in Batches |-> IF b \in from THEN cursor[b] + 1 ELSE cursor[b]]
           /\ merged' = Append(merged, [term |-> t, from |-> NewRow(from)])
    BY StepShape
  <1>2. Batches' = Batches
    BY <1>1 DEF Batches
  <1>3. cursor' \in [Batches -> Nat \ {0}]
    BY <1>1 DEF TypeOK
  <1>4. [term |-> t, from |-> NewRow(from)] \in Row
    <2>1. NewRow(from) \in SUBSET (Batches \X (Nat \ {0}))
      BY <1>1 DEF NewRow, TypeOK
    <2> QED BY <2>1 DEF Row
  <1>5. merged' \in Seq(Row)
    BY <1>1, <1>4, AppendRow DEF TypeOK, Row
  <1> QED BY <1>1, <1>2, <1>3, <1>5 DEF TypeOK, Row

LEMMA InitType == Init => TypeOK /\ EveryRowOnce
  <1> SUFFICES ASSUME Init PROVE TypeOK /\ EveryRowOnce
    OBVIOUS
  <1>1. merged = << >> /\ DOMAIN merged = {}
    BY DEF Init
  <1>2. TypeOK
    BY <1>1 DEF Init, TypeOK
  <1>3. EveryRowOnce
    BY <1>1 DEF Init, EveryRowOnce
  <1> QED BY <1>2, <1>3

(* A step adds the current rows of the batches it takes, which were in no  *)
(* row before because the cursor had not passed them.                      *)
LEMMA StepOnce ==
  ASSUME TypeOK, EveryRowOnce, NEW from \in SUBSET Waiting, Merge(from)
  PROVE  EveryRowOnce'
  <1>1. PICK t \in Int :
           /\ \A b \in from : b \in Batches /\ cursor[b] \in 1..Len(rows[b]) /\ t = Current(b)
           /\ rows' = rows
           /\ cursor' = [b \in Batches |-> IF b \in from THEN cursor[b] + 1 ELSE cursor[b]]
           /\ merged' = Append(merged, [term |-> t, from |-> NewRow(from)])
    BY StepShape
  <1> DEFINE n == Len(merged) + 1
  <1>2. NewRow(from) \in SUBSET (Batches \X (Nat \ {0}))
    BY <1>1 DEF NewRow, TypeOK
  <1>3. /\ DOMAIN merged' = DOMAIN merged \cup {n}
        /\ merged'[n] = [term |-> t, from |-> NewRow(from)]
        /\ \A m \in DOMAIN merged : merged'[m] = merged[m] /\ m # n
    BY <1>1, <1>2 DEF TypeOK
  <1>4. Batches' = Batches
    BY <1>1 DEF Batches
  <1> SUFFICES ASSUME NEW b \in Batches', NEW r \in 1..Len(rows'[b])
               PROVE  /\ r < cursor'[b] <=> \E m \in DOMAIN merged' : <<b, r>> \in merged'[m].from
                      /\ \A m, k \in DOMAIN merged' :
                           <<b, r>> \in merged'[m].from \cap merged'[k].from => m = k
                      /\ \A m \in DOMAIN merged' :
                           <<b, r>> \in merged'[m].from => merged'[m].term = rows'[b][r]
    BY DEF EveryRowOnce
  <1> b \in Batches /\ r \in 1..Len(rows[b])
    BY <1>1, <1>4
  <1>5. <<b, r>> \in merged'[n].from <=> b \in from /\ r = cursor[b]
    BY <1>3 DEF NewRow
  <1>6. \A m \in DOMAIN merged : <<b, r>> \in merged[m].from => r < cursor[b]
    BY DEF EveryRowOnce
  <1>7. cursor[b] \in Nat /\ r \in Int
    BY DEF TypeOK
  <1>8. r < cursor'[b] <=> r < cursor[b] \/ (b \in from /\ r = cursor[b])
    BY <1>1, <1>7
  <1>9. r < cursor'[b] <=> \E m \in DOMAIN merged' : <<b, r>> \in merged'[m].from
    BY <1>3, <1>5, <1>6, <1>8 DEF EveryRowOnce
  <1>10. ASSUME NEW m \in DOMAIN merged', NEW k \in DOMAIN merged',
                <<b, r>> \in merged'[m].from, <<b, r>> \in merged'[k].from
         PROVE  m = k
    <2>1. CASE m \in DOMAIN merged /\ k \in DOMAIN merged
      BY <2>1, <1>3, <1>10 DEF EveryRowOnce
    <2>2. ~(r = cursor[b] /\ r < cursor[b])
      BY <1>7
    <2> QED BY <2>1, <2>2, <1>3, <1>5, <1>6, <1>10
  <1>11. ASSUME NEW m \in DOMAIN merged', <<b, r>> \in merged'[m].from
         PROVE  merged'[m].term = rows'[b][r]
    <2>1. CASE m \in DOMAIN merged
      BY <2>1, <1>1, <1>3, <1>11 DEF EveryRowOnce
    <2>2. CASE m = n
      BY <2>2, <1>1, <1>3, <1>5, <1>11 DEF Current
    <2> QED BY <2>1, <2>2, <1>3
  <1> QED BY <1>9, <1>10, <1>11

(* One row per batch row, whatever heap picks the terms.                   *)
THEOREM RowsSurvive == Spec => [](TypeOK /\ EveryRowOnce)
  <1>1. TypeOK /\ EveryRowOnce /\ [MergeSome]_vars => (TypeOK /\ EveryRowOnce)'
    <2> SUFFICES ASSUME TypeOK, EveryRowOnce, [MergeSome]_vars
                 PROVE  (TypeOK /\ EveryRowOnce)'
      OBVIOUS
    <2>1. CASE MergeSome
      BY <2>1, StepType, StepOnce DEF MergeSome
    <2>2. CASE UNCHANGED vars
      BY <2>2 DEF vars, TypeOK, EveryRowOnce, Batches
    <2> QED BY <2>1, <2>2
  <1> QED BY <1>1, InitType, PTL DEF Spec

-----------------------------------------------------------------------------
(* What is merged is below what is waiting.                                *)
BelowWaiting ==
  \A m \in DOMAIN merged : \A b \in Waiting : merged[m].term < Current(b)

OrderedInv == TypeOK /\ RowsAreSorted /\ TermsAscend /\ BelowWaiting

LEMMA InitOrdered == Init /\ RowsAreSorted => OrderedInv
  <1> SUFFICES ASSUME Init, RowsAreSorted PROVE OrderedInv
    OBVIOUS
  <1>1. DOMAIN merged = {}
    BY DEF Init
  <1> QED BY <1>1, InitType DEF OrderedInv, TermsAscend, BelowWaiting

LEMMA StepOrdered ==
  ASSUME OrderedInv, MergeLeast
  PROVE  OrderedInv'
  <1> USE DEF OrderedInv
  <1>1. PICK a \in Waiting : /\ \A c \in Waiting : Current(a) <= Current(c)
                             /\ Merge({ c \in Waiting : Current(c) = Current(a) })
    BY DEF MergeLeast
  <1> DEFINE from == { c \in Waiting : Current(c) = Current(a) }
             n    == Len(merged) + 1
  <1>2. PICK t \in Int :
           /\ \A b \in from : b \in Batches /\ cursor[b] \in 1..Len(rows[b]) /\ t = Current(b)
           /\ rows' = rows
           /\ cursor' = [b \in Batches |-> IF b \in from THEN cursor[b] + 1 ELSE cursor[b]]
           /\ merged' = Append(merged, [term |-> t, from |-> NewRow(from)])
    BY <1>1, StepShape
  <1>3. t = Current(a) /\ a \in from
    BY <1>1, <1>2
  <1>4. TypeOK'
    BY <1>1, StepType
  <1>5. RowsAreSorted'
    BY <1>2 DEF RowsAreSorted, Batches
  <1>6. /\ DOMAIN merged' = DOMAIN merged \cup {n}
        /\ merged'[n].term = t
        /\ \A m \in DOMAIN merged : merged'[m] = merged[m] /\ m < n
        /\ DOMAIN merged \subseteq Int /\ n \in Int
    <2>1. NewRow(from) \in SUBSET (Batches \X (Nat \ {0}))
      BY <1>2 DEF NewRow, TypeOK
    <2>2. [term |-> t, from |-> NewRow(from)] \in Row
      BY <2>1 DEF Row
    <2> QED BY <2>2, <1>2, AppendRow DEF TypeOK, Row
  <1>7. \A m \in DOMAIN merged : merged[m].term < t /\ merged[m].term \in Int
    <2> SUFFICES ASSUME NEW m \in DOMAIN merged
                 PROVE  merged[m].term < t /\ merged[m].term \in Int
      OBVIOUS
    <2>1. merged \in Seq(Row) /\ m \in 1..Len(merged)
      BY DEF TypeOK, Row
    <2>2. merged[m].term < Current(a)
      BY <1>1 DEF BelowWaiting
    <2>3. merged[m] \in Row
      BY <2>1
    <2> QED BY <2>2, <2>3, <1>3 DEF Row
  <1>8. TermsAscend'
    <2> SUFFICES ASSUME NEW m \in DOMAIN merged', NEW k \in DOMAIN merged', m < k
                 PROVE  merged'[m].term < merged'[k].term
      BY DEF TermsAscend
    <2>1. m \in DOMAIN merged
      BY <1>6
    <2>2. CASE k \in DOMAIN merged
      BY <2>1, <2>2, <1>6 DEF TermsAscend
    <2>3. CASE k = n
      BY <2>1, <2>3, <1>6, <1>7
    <2> QED BY <2>2, <2>3, <1>6
  <1>9. \A b \in Waiting' : t < Current(b)'
    <2> SUFFICES ASSUME NEW b \in Waiting' PROVE t < rows[b][cursor'[b]]
      BY <1>2 DEF Current
    <2>1. b \in Batches /\ cursor[b] \in Nat \ {0} /\ rows[b] \in Seq(Int)
      BY <1>2, FilesAssumption DEF Waiting, Batches, TypeOK
    <2>2. cursor'[b] <= Len(rows[b])
      BY <1>2 DEF Waiting
    <2>3. CASE b \in from
      <3>1. cursor'[b] = cursor[b] + 1
        BY <2>1, <2>3, <1>2
      <3>2. cursor[b] \in 1..Len(rows[b]) /\ cursor[b] + 1 \in 1..Len(rows[b])
        BY <3>1, <2>1, <2>2
      <3>3. rows[b][cursor[b]] < rows[b][cursor[b] + 1]
        BY <3>2, <2>1 DEF RowsAreSorted
      <3> QED BY <3>1, <3>3, <2>3, <1>2 DEF Current
    <2>4. CASE b \notin from
      <3>1. cursor'[b] = cursor[b]
        BY <2>1, <2>4, <1>2
      <3>2. b \in Waiting
        BY <3>1, <2>1, <2>2 DEF Waiting
      <3>3. Current(b) \in Int /\ Current(a) \in Int
        BY <3>2, <2>1, <1>2, <1>3 DEF Current, Waiting
      <3>4. Current(a) <= Current(b) /\ Current(b) # Current(a)
        BY <3>2, <2>4, <1>1
      <3> QED BY <3>1, <3>3, <3>4, <1>3 DEF Current
    <2> QED BY <2>3, <2>4
  <1>10. BelowWaiting'
    <2> SUFFICES ASSUME NEW m \in DOMAIN merged', NEW b \in Waiting'
                 PROVE  merged'[m].term < Current(b)'
      BY DEF BelowWaiting
    <2>1. t < Current(b)'
      BY <1>9
    <2>2. Current(b)' \in Int
      <3>1. b \in Batches /\ cursor'[b] \in Nat \ {0} /\ cursor'[b] <= Len(rows[b])
        BY <1>2, <1>4 DEF Waiting, Batches, TypeOK
      <3>2. rows[b] \in Seq(Int)
        BY <3>1, FilesAssumption DEF Batches, TypeOK
      <3> QED BY <3>1, <3>2, <1>2 DEF Current
    <2>3. CASE m = n
      BY <2>1, <2>3, <1>6
    <2>4. CASE m \in DOMAIN merged
      BY <2>1, <2>2, <2>4, <1>6, <1>7
    <2> QED BY <2>3, <2>4, <1>6
  <1> QED BY <1>4, <1>5, <1>8, <1>10

(* A merge that takes all rows of a least term, from sorted files, writes  *)
(* sorted terms without repetitions.                                       *)
THEOREM OrderedMerge == OrderedSpec /\ RowsAreSorted => []TermsAscend
  <1>1. OrderedInv /\ [MergeLeast]_vars => OrderedInv'
    <2> SUFFICES ASSUME OrderedInv, [MergeLeast]_vars PROVE OrderedInv'
      OBVIOUS
    <2>1. CASE MergeLeast
      BY <2>1, StepOrdered
    <2>2. CASE UNCHANGED vars
      BY <2>2 DEF vars, OrderedInv, TypeOK, RowsAreSorted, TermsAscend, BelowWaiting,
                  Batches, Waiting, Current
    <2> QED BY <2>1, <2>2
  <1>2. OrderedInv => TermsAscend
    BY DEF OrderedInv
  <1> QED BY <1>1, <1>2, InitOrdered, PTL DEF OrderedSpec

(* Such a merge is a merge: what holds of any holds of it.                 *)
THEOREM OrderedIsMerge == OrderedSpec => Spec
  <1>1. [MergeLeast]_vars => [MergeSome]_vars
    BY LeastIsSome DEF Step, MergeSome
  <1> QED BY <1>1, PTL DEF OrderedSpec, Spec

-----------------------------------------------------------------------------
Heaps == INSTANCE StdHeap_proofs WITH Less <- Merger!Less

Entries == [index_id : DOMAIN indices, term_id : Nat \ {0}, shift : Nat, term : Int]

(* The entry of a row of a batch.                                          *)
IsEntry(e) ==
  /\ e \in Entries
  /\ e.term_id <= Len(indices[e.index_id].terms)
  /\ e = Merger!Entry(e.index_id, e.term_id)

(* Entries of rows, of different batches.                                  *)
OneEach(h) ==
  /\ h \in Seq(Entries)
  /\ \A i \in DOMAIN h : IsEntry(h[i])
  /\ \A i, j \in DOMAIN h : h[i].index_id = h[j].index_id => i = j

Contents(h) == { h[i] : i \in DOMAIN h }

-----------------------------------------------------------------------------
LEMMA BatchIs ==
  ASSUME indices \in Inputs, NEW b \in DOMAIN indices
  PROVE  /\ indices[b].terms \in Seq(Int) /\ Len(indices[b].terms) \in Nat \ {0}
         /\ Merger!collection_size(indices[b]) \in Nat \ {0}
         /\ indices \in Seq(Merger!BatchIndex)
         /\ indices[b] \in Merger!BatchIndex
  <1>1. indices \in Seq(Merger!BatchIndex) /\ indices[b] \in Merger!BatchIndex
    BY BatchesAssumption
  <1>2. indices[b].terms \in Seq(Int) /\ indices[b].sizes \in Seq(Nat)
    BY <1>1 DEF Merger!BatchIndex
  <1>3. indices[b].terms # << >> /\ indices[b].sizes # << >>
    BY BatchesAssumption DEF Merger!AreBatches, Merger!IsBatch
  <1>4. \A S : \A s \in Seq(S) : s # << >> => Len(s) \in Nat \ {0}
    OBVIOUS
  <1> QED BY <1>1, <1>2, <1>3, <1>4 DEF Merger!collection_size

LEMMA SameSum == ASSUME NEW s PROVE Merger!Sum(s) = SumOf(s)
  BY DEF Merger!Sum, SumOf, FoldLeft, Merger!FoldLeft, MapThenFoldSet, Merger!MapThenFoldSet,
         Max, Merger!Max

(* Every batch has documents, so that no two have the same shift.          *)
LEMMA ShiftsAscend ==
  ASSUME indices \in Inputs
  PROVE  /\ \A b \in 1..Len(indices) + 1 : Merger!Shift(b) \in Nat
         /\ \A b, c \in 1..Len(indices) + 1 : b < c => Merger!Shift(b) < Merger!Shift(c)
         /\ \A b \in 1..Len(indices) :
              Merger!Shift(b + 1) = Merger!Shift(b) + Merger!collection_size(indices[b])
  <1> DEFINE n == Len(indices)
             size(c) == Merger!collection_size(indices[c])
             shift(b) == Merger!Shift(b)
  <1>1. n \in Nat /\ DOMAIN indices = 1..n /\ \A c \in 1..n : size(c) \in Nat \ {0}
    BY BatchIs, BatchesAssumption
  <1>2. \A b : shift(b) = SumOf([c \in 1..b - 1 |-> size(c)])
    BY SameSum DEF Merger!Shift
  <1> HIDE DEF shift, size, n
  <1>3. ASSUME NEW b \in 1..n + 1 PROVE shift(b) \in Nat
    <2>1. [c \in 1..b - 1 |-> size(c)] \in Seq(Nat)
      <3>1. b - 1 \in Nat /\ \A c \in 1..b - 1 : size(c) \in Nat
        BY <1>1
      <3> QED BY <3>1
    <2> QED BY <2>1, <1>2, SumType
  <1>4. ASSUME NEW b \in 1..n PROVE shift(b + 1) = shift(b) + size(b)
    <2> DEFINE s == [c \in 1..b |-> size(c)]
               t == [c \in 1..b - 1 |-> size(c)]
    <2>1. b - 1 \in Nat /\ b - 1 + 1 = b /\ b + 1 - 1 = b
      BY <1>1
    <2>2. DOMAIN s = 1..b - 1 + 1 /\ DOMAIN t = 1..b - 1 /\ (\A c \in 1..b - 1 : t[c] = s[c])
          /\ s[b - 1 + 1] = size(b)
      BY <2>1
    <2>3. SumOf(s) = SumOf(t) + s[b - 1 + 1]
      <3> HIDE DEF s, t
      <3> QED BY <2>1, <2>2, SumStep
    <2> QED BY <2>1, <2>2, <2>3, <1>2
  <1> DEFINE Holds == { m \in Nat : \A b \in 1..n + 1 : b + m + 1 <= n + 1 => shift(b) < shift(b + m + 1) }
  <1>5. 0 \in Holds
    <2> SUFFICES ASSUME NEW b \in 1..n + 1, b + 1 <= n + 1 PROVE shift(b) < shift(b + 0 + 1)
      BY <1>1
    <2>1. b \in 1..n /\ b + 0 + 1 = b + 1
      BY <1>1
    <2> QED BY <2>1, <1>1, <1>3, <1>4
  <1>6. ASSUME NEW m \in Nat, m \in Holds PROVE m + 1 \in Holds
    <2> SUFFICES ASSUME NEW b \in 1..n + 1, b + (m + 1) + 1 <= n + 1
                 PROVE shift(b) < shift(b + (m + 1) + 1)
      BY <1>1
    <2>1. b + m + 1 \in 1..n /\ b + (m + 1) + 1 = b + m + 1 + 1 /\ b + m + 1 <= n + 1 /\ b + m + 1 \in 1..n + 1
          /\ b + m + 1 + 1 \in 1..n + 1
      BY <1>1
    <2>2. shift(b) < shift(b + m + 1)
      BY <2>1, <1>6
    <2>3. shift(b + m + 1 + 1) = shift(b + m + 1) + size(b + m + 1)
      BY <2>1, <1>4
    <2>4. size(b + m + 1) \in Nat \ {0} /\ shift(b) \in Nat /\ shift(b + m + 1) \in Nat
      BY <2>1, <1>1, <1>3
    <2> QED BY <2>1, <2>2, <2>3, <2>4
  <1>7. \A m \in Nat : m \in Holds
    <2> HIDE DEF Holds
    <2> QED BY <1>5, <1>6, InductionFrom0
  <1>8. ASSUME NEW b \in 1..n + 1, NEW c \in 1..n + 1, b < c PROVE shift(b) < shift(c)
    <2>1. c - b - 1 \in Nat /\ b + (c - b - 1) + 1 = c /\ c <= n + 1
      BY <1>1, <1>8
    <2>2. c - b - 1 \in Holds
      BY <2>1, <1>7
    <2> QED BY <2>1, <2>2
  <1> QED BY <1>3, <1>4, <1>8 DEF n, shift, size

-----------------------------------------------------------------------------
(* One pop and one push.                                                   *)
LEMMA TermOrder == Heaps!WeakOrder(Entries)
  BY DEF Heaps!WeakOrder, Merger!Less, Entries

LEMMA SameHeap ==
  ASSUME NEW h
  PROVE  /\ Merger!Heap!PushHeap(h) = Heaps!PushHeap(h)
         /\ Merger!Heap!PopHeap(h) = Heaps!PopHeap(h)
         /\ Merger!Heap!IsHeap(h) = Heaps!IsHeap(h)
  <1>1. Merger!Heap!PushHeap(h) = Heaps!PushHeap(h)
    BY DEF Heaps!PushHeap, Merger!Heap!PushHeap, Heaps!Rise, Merger!Heap!Rise,
           Heaps!Risen, Merger!Heap!Risen
  <1>2. Merger!Heap!PopHeap(h) = Heaps!PopHeap(h)
    BY DEF Heaps!PopHeap, Merger!Heap!PopHeap, Heaps!Rise, Merger!Heap!Rise,
           Heaps!Risen, Merger!Heap!Risen, Heaps!Sunk, Merger!Heap!Sunk,
           Heaps!GreaterChild, Merger!Heap!GreaterChild
  <1>3. Merger!Heap!IsHeap(h) = Heaps!IsHeap(h)
    BY DEF Heaps!IsHeap, Merger!Heap!IsHeap
  <1> QED BY <1>1, <1>2, <1>3

LEMMA Rearranged ==
  ASSUME NEW h, OneEach(h), NEW g \in Seq(Entries), NEW p, Heaps!Rearranges(p, h, g)
  PROVE  OneEach(g) /\ Contents(g) = Contents(h)
  <1>1. DOMAIN h = 1..Len(h) /\ DOMAIN g = 1..Len(h)
    BY DEF Heaps!Rearranges, OneEach
  <1>2. /\ p \in [1..Len(h) -> 1..Len(h)]
        /\ \A i, j \in 1..Len(h) : p[i] = p[j] => i = j
        /\ \A j \in 1..Len(h) : \E i \in 1..Len(h) : p[i] = j
        /\ \A k \in 1..Len(h) : g[k] = h[p[k]]
    BY DEF Heaps!Rearranges, Heaps!Places
  <1>3. Contents(g) = Contents(h)
    <2>1. \A k \in 1..Len(h) : g[k] = h[p[k]] /\ p[k] \in 1..Len(h)
      BY <1>2
    <2>2. \A j \in 1..Len(h) : \E i \in 1..Len(h) : g[i] = h[j]
      <3> SUFFICES ASSUME NEW j \in 1..Len(h) PROVE \E i \in 1..Len(h) : g[i] = h[j]
        OBVIOUS
      <3>1. PICK i \in 1..Len(h) : p[i] = j
        BY <1>2
      <3>2. g[i] = h[p[i]]
        BY <1>2
      <3> QED BY <3>1, <3>2
    <2>3. ASSUME NEW e \in Contents(g) PROVE e \in Contents(h)
      BY <2>1, <1>1 DEF Contents
    <2>4. ASSUME NEW e \in Contents(h) PROVE e \in Contents(g)
      BY <2>2, <1>1 DEF Contents
    <2> QED BY <2>3, <2>4
  <1>4. ASSUME NEW i \in DOMAIN g, NEW j \in DOMAIN g, g[i].index_id = g[j].index_id
        PROVE  i = j
    <2>1. p[i] = p[j]
      BY <1>1, <1>2, <1>4, SMTT(30) DEF OneEach
    <2> QED BY <2>1, <1>1, <1>2
  <1>5. \A i \in DOMAIN g : IsEntry(g[i])
    BY <1>1, <1>2 DEF OneEach
  <1> QED BY <1>3, <1>4, <1>5 DEF OneEach

LEMMA SameFront == ASSUME NEW s PROVE Merger!Front(s) = SubSeq(s, 1, Len(s) - 1)
  BY DEF Merger!Front

(* pop_heap and pop_back remove the front.                                 *)
PoppedOnce(h) == Merger!Front(Merger!Heap!PopHeap(h))

LEMMA PopOnce ==
  ASSUME NEW h, OneEach(h), h # << >>
  PROVE  LET g == PoppedOnce(h) IN
         /\ OneEach(g) /\ Len(g) = Len(h) - 1
         /\ Contents(g) = Contents(h) \ {h[1]}
         /\ h[1] \in Contents(h)
         /\ Heaps!IsHeap(h) => Heaps!IsHeap(g)
  <1> DEFINE f == Heaps!PopHeap(h)
             n == Len(h)
             g == SubSeq(f, 1, n - 1)
  <1>1. h \in Seq(Entries) /\ n \in Nat /\ n > 0 /\ DOMAIN h = 1..n
    BY DEF OneEach
  <1>2. /\ f \in Seq(Entries)
        /\ \E p : Heaps!Rearranges(p, h, f) /\ p[n] = 1
        /\ Heaps!IsHeap(SubSeq(h, 1, n - 1)) => Heaps!IsHeap(g)
    <2>1. h \in Seq(Entries) /\ h # << >>
      BY <1>1
    <2> QED BY <2>1, TermOrder, Heaps!PopHeapIs
  <1> HIDE DEF f
  <1>3. PICK p : Heaps!Rearranges(p, h, f) /\ p[n] = 1
    BY <1>2
  <1>4. OneEach(f) /\ Contents(f) = Contents(h)
    BY <1>2, <1>3, Rearranged
  <1>5. Len(f) = n /\ DOMAIN f = 1..n
    BY <1>2, <1>3 DEF Heaps!Rearranges
  <1>6. f[n] = h[1]
    BY <1>1, <1>3 DEF Heaps!Rearranges
  <1>7. /\ g \in Seq(Entries) /\ Len(g) = n - 1 /\ DOMAIN g = 1..n - 1
        /\ \A i \in 1..n - 1 : g[i] = f[i]
    BY <1>1, <1>2, <1>5
  <1> HIDE DEF g
  <1>8. OneEach(g)
    <2>1. DOMAIN g \subseteq DOMAIN f /\ \A i \in DOMAIN g : g[i] = f[i]
      BY <1>1, <1>5, <1>7
    <2>2. \A i \in DOMAIN g : IsEntry(g[i])
      BY <2>1, <1>4 DEF OneEach
    <2>3. \A i, j \in DOMAIN g : g[i].index_id = g[j].index_id => i = j
      BY <2>1, <1>4 DEF OneEach
    <2> QED BY <2>2, <2>3, <1>7 DEF OneEach
  <1>9. Contents(g) = Contents(f) \ {f[n]}
    <2>1. \A i \in 1..n - 1 : f[i] # f[n]
      BY <1>1, <1>4, <1>5 DEF OneEach
    <2> QED BY <2>1, <1>1, <1>5, <1>7 DEF Contents
  <1>10. ASSUME Heaps!IsHeap(h) PROVE Heaps!IsHeap(g)
    <2>1. Heaps!IsHeap(SubSeq(h, 1, n - 1))
      <3>1. /\ Len(SubSeq(h, 1, n - 1)) = n - 1
            /\ \A i \in 1..n - 1 : SubSeq(h, 1, n - 1)[i] = h[i]
        BY <1>1
      <3>2. ASSUME NEW i \in 2..n - 1
            PROVE ~Merger!Less(SubSeq(h, 1, n - 1)[i \div 2], SubSeq(h, 1, n - 1)[i])
        <4>1. i \div 2 \in 1..n - 1 /\ i \in 2..n /\ i \in 1..n - 1
          BY <1>1
        <4> QED BY <4>1, <3>1, <1>10 DEF Heaps!IsHeap
      <3> QED BY <3>1, <3>2 DEF Heaps!IsHeap
    <2> QED BY <2>1, <1>2 DEF g
  <1>11. PoppedOnce(h) = g
    BY <1>5, SameHeap, SameFront DEF PoppedOnce, f, g
  <1>12. h[1] \in Contents(h)
    BY <1>1 DEF Contents
  <1> QED BY <1>4, <1>6, <1>7, <1>8, <1>9, <1>10, <1>11, <1>12

(* push_heap adds an entry.                                                *)
LEMMA PushOnce ==
  ASSUME NEW h, OneEach(h), NEW e, IsEntry(e), \A d \in Contents(h) : d.index_id # e.index_id
  PROVE  LET g == Merger!Heap!PushHeap(Append(h, e)) IN
         /\ OneEach(g) /\ Contents(g) = Contents(h) \cup {e}
         /\ Heaps!IsHeap(h) => Heaps!IsHeap(g)
  <1> DEFINE a == Append(h, e)
             n == Len(h)
             g == Heaps!PushHeap(a)
  <1>1. h \in Seq(Entries) /\ n \in Nat /\ DOMAIN h = 1..n /\ e \in Entries
    BY DEF OneEach, IsEntry
  <1>2. /\ g \in Seq(Entries)
        /\ \E p : Heaps!Rearranges(p, a, g)
        /\ Heaps!IsHeap(h) => Heaps!IsHeap(g)
    BY <1>1, TermOrder, Heaps!PushHeapIs
  <1>3. /\ a \in Seq(Entries) /\ DOMAIN a = 1..n + 1 /\ a[n + 1] = e
        /\ \A i \in 1..n : a[i] = h[i]
    BY <1>1
  <1> HIDE DEF a, g
  <1>4. OneEach(a)
    <2>1. \A i \in DOMAIN a : IsEntry(a[i])
      BY <1>1, <1>3 DEF OneEach
    <2>2. ASSUME NEW i \in DOMAIN a, NEW j \in DOMAIN a, a[i].index_id = a[j].index_id
          PROVE  i = j
      <3>1. CASE i \in 1..n /\ j \in 1..n
        BY <3>1, <2>2, <1>1, <1>3 DEF OneEach
      <3>2. \A k \in 1..n : h[k].index_id # e.index_id
        BY <1>1 DEF Contents
      <3> QED BY <3>1, <3>2, <2>2, <1>1, <1>3
    <2> QED BY <2>1, <2>2, <1>3 DEF OneEach
  <1>5. Contents(a) = Contents(h) \cup {e}
    BY <1>1, <1>3 DEF Contents
  <1>6. OneEach(g) /\ Contents(g) = Contents(a)
    BY <1>2, <1>4, Rearranged
  <1>7. Merger!Heap!PushHeap(Append(h, e)) = g
    BY SameHeap DEF a, g
  <1> QED BY <1>2, <1>5, <1>6, <1>7

-----------------------------------------------------------------------------
(* Any number of pops.                                                     *)
LEMMA StepByStep ==
  ASSUME NEW n \in Nat, NEW f, NEW g, f[0] = g[0],
         \A m \in 0..n - 1 : f[m] = g[m] => f[m + 1] = g[m + 1]
  PROVE  \A m \in 0..n : f[m] = g[m]
  <1> DEFINE Holds == { m \in Nat : m <= n => f[m] = g[m] }
  <1>1. 0 \in Holds
    OBVIOUS
  <1>2. ASSUME NEW m \in Nat, m \in Holds PROVE m + 1 \in Holds
    BY <1>2
  <1>3. \A m \in Nat : m \in Holds
    <2> HIDE DEF Holds
    <2> QED BY <1>1, <1>2, InductionFrom0
  <1> QED BY <1>3

LEMMA PoppedIs ==
  /\ Merger!Popped(0) = heap
  /\ \A n \in Nat : Merger!Popped(n + 1) = PoppedOnce(Merger!Popped(n))
  <1> DEFINE Body(g, m) == IF m = 0 THEN heap ELSE PoppedOnce(g[m - 1])
             Holds == { n \in Nat : \E g : g = [m \in 0..n |-> Body(g, m)] }
             after(n) == CHOOSE g : g = [m \in 0..n |-> Body(g, m)]
  <1>1. \A f, g, m : m = 0 \/ f[m - 1] = g[m - 1] => Body(f, m) = Body(g, m)
    OBVIOUS
  <1>2. \A g : Body(g, 0) = heap /\ \A m \in Nat : Body(g, m + 1) = PoppedOnce(g[m])
    OBVIOUS
  <1>3. \A n : Merger!Popped(n) = after(n)[n]
    BY DEF Merger!Popped, PoppedOnce
  <1> HIDE DEF Body
  <1>4. 0 \in Holds
    <2> DEFINE g == [m \in 0..0 |-> heap]
    <2>1. \A m \in 0..0 : g[m] = Body(g, m)
      BY <1>2
    <2>2. g = [m \in 0..0 |-> Body(g, m)]
      BY <2>1
    <2> QED BY <2>2
  <1>5. ASSUME NEW n \in Nat, n \in Holds PROVE n + 1 \in Holds
    <2>1. PICK g : g = [m \in 0..n |-> Body(g, m)]
      BY <1>5
    <2> DEFINE next == [m \in 0..n + 1 |-> IF m <= n THEN g[m] ELSE Body(g, m)]
    <2>2. ASSUME NEW m \in 0..n + 1 PROVE next[m] = Body(next, m)
      <3>1. next[m] = Body(g, m)
        BY <2>1
      <3>2. m = 0 \/ next[m - 1] = g[m - 1]
        OBVIOUS
      <3> HIDE DEF next
      <3> QED BY <3>1, <3>2, <1>1
    <2>3. next = [m \in 0..n + 1 |-> next[m]]
      OBVIOUS
    <2> HIDE DEF next
    <2>4. next = [m \in 0..n + 1 |-> Body(next, m)]
      BY <2>2, <2>3
    <2> QED BY <2>4
  <1>6. \A n \in Nat : n \in Holds
    <2> HIDE DEF Holds
    <2> QED BY <1>4, <1>5, InductionFrom0
  <1>7. ASSUME NEW n \in Nat PROVE after(n) = [m \in 0..n |-> Body(after(n), m)]
    BY <1>6
  <1> HIDE DEF after
  <1>8. ASSUME NEW n \in Nat, NEW m \in 0..n PROVE after(n)[m] = Body(after(n), m)
    BY <1>7
  <1>9. ASSUME NEW n \in Nat PROVE after(n + 1)[n] = after(n)[n]
    <2>1. after(n + 1)[0] = after(n)[0]
      BY <1>2, <1>8
    <2>2. ASSUME NEW m \in 0..n - 1, after(n + 1)[m] = after(n)[m]
          PROVE  after(n + 1)[m + 1] = after(n)[m + 1]
      <3>1. m + 1 \in 0..n /\ m + 1 \in 0..n + 1 /\ m \in Nat
        OBVIOUS
      <3>2. after(n + 1)[m + 1] = Body(after(n + 1), m + 1)
        BY <3>1, <1>8
      <3>3. after(n)[m + 1] = Body(after(n), m + 1)
        BY <3>1, <1>8
      <3> QED BY <3>1, <3>2, <3>3, <2>2, <1>2
    <2>3. \A m \in 0..n : after(n + 1)[m] = after(n)[m]
      BY <2>1, <2>2, StepByStep
    <2> QED BY <2>3
  <1>10. ASSUME NEW n \in Nat PROVE after(n + 1)[n + 1] = PoppedOnce(after(n)[n])
    BY <1>2, <1>8, <1>9
  <1>11. after(0)[0] = heap
    BY <1>2, <1>8
  <1> QED BY <1>3, <1>10, <1>11

(* Pops leave the rest of the entries, and a heap a heap.                  *)
LEMMA PopMany ==
  ASSUME OneEach(heap)
  PROVE  \A n \in 0..Len(heap) :
           /\ OneEach(Merger!Popped(n)) /\ Len(Merger!Popped(n)) = Len(heap) - n
           /\ Contents(Merger!Popped(n)) = Contents(heap) \ { Merger!Popped(m)[1] : m \in 0..n - 1 }
           /\ Heaps!IsHeap(heap) => Heaps!IsHeap(Merger!Popped(n))
  <1> DEFINE size == Len(heap)
             fronts(n) == { Merger!Popped(m)[1] : m \in 0..n - 1 }
             Claim(n) == /\ OneEach(Merger!Popped(n)) /\ Len(Merger!Popped(n)) = size - n
                         /\ Contents(Merger!Popped(n)) = Contents(heap) \ fronts(n)
                         /\ Heaps!IsHeap(heap) => Heaps!IsHeap(Merger!Popped(n))
             Holds == { n \in Nat : n <= size => Claim(n) }
  <1>1. size \in Nat
    BY DEF OneEach
  <1>2. 0 \in Holds
    <2>1. fronts(0) = {}
      OBVIOUS
    <2> QED BY <2>1, PoppedIs
  <1>3. ASSUME NEW n \in Nat, n \in Holds PROVE n + 1 \in Holds
    <2> SUFFICES ASSUME n + 1 <= size PROVE Claim(n + 1)
      BY <1>1
    <2> DEFINE h == Merger!Popped(n)
               g == Merger!Popped(n + 1)
    <2>1. Claim(n)
      BY <1>1, <1>3
    <2>2. h # << >>
      BY <2>1, <1>1
    <2>3. g = PoppedOnce(h)
      BY PoppedIs
    <2>4. fronts(n + 1) = fronts(n) \cup {h[1]}
      <3>1. 0..n + 1 - 1 = 0..n - 1 \cup {n}
        OBVIOUS
      <3> QED BY <3>1
    <2> HIDE DEF h, g, fronts
    <2>5. OneEach(h) /\ Len(h) = size - n /\ Contents(h) = Contents(heap) \ fronts(n)
          /\ (Heaps!IsHeap(heap) => Heaps!IsHeap(h))
      BY <2>1 DEF h
    <2>6. /\ OneEach(g) /\ Len(g) = Len(h) - 1
          /\ Contents(g) = Contents(h) \ {h[1]}
          /\ Heaps!IsHeap(h) => Heaps!IsHeap(g)
      BY <2>2, <2>3, <2>5, PopOnce
    <2>7. Contents(g) = Contents(heap) \ fronts(n + 1)
      BY <2>4, <2>5, <2>6
    <2>8. Len(g) = size - (n + 1)
      BY <2>5, <2>6, <1>1
    <2> QED BY <2>5, <2>6, <2>7, <2>8 DEF g
  <1>4. \A n \in Nat : n \in Holds
    <2> HIDE DEF Holds
    <2> QED BY <1>2, <1>3, InductionFrom0
  <1>5. \A n \in 0..size : Claim(n)
    <2> HIDE DEF Claim
    <2> QED BY <1>1, <1>4
  <1> QED BY <1>5

-----------------------------------------------------------------------------
(* The entries of one step: all the fronts with the term of the first one. *)
LEMMA NextCountIs ==
  ASSUME OneEach(heap), heap # << >>
  PROVE  LET n == Merger!NextCount IN
         /\ n \in 1..Len(heap)
         /\ \A m \in 0..n - 1 : Merger!Popped(m)[1].term = heap[1].term
         /\ Merger!Popped(n) # << >> => Merger!Popped(n)[1].term # heap[1].term
  <1> DEFINE size == Len(heap)
             Ends(n) == Merger!Popped(n) # << >> => Merger!Popped(n)[1].term # heap[1].term
             Ending == { n \in Nat : n \in 1..size /\ Ends(n) }
  <1>1. size \in Nat /\ size > 0
    BY DEF OneEach
  <1>2. Merger!Popped(size) = << >>
    <2>1. OneEach(Merger!Popped(size)) /\ Len(Merger!Popped(size)) = size - size
      BY <1>1, PopMany
    <2> QED BY <2>1, <1>1 DEF OneEach
  <1>3. size \in Ending
    BY <1>1, <1>2
  <1>4. PICK n \in Ending : \A m \in Ending : n <= m
    <2>1. Ending \in SUBSET Nat /\ Ending # {}
      BY <1>3
    <2> HIDE DEF Ending
    <2> QED BY <2>1, LeastNumber
  <1>5. n \in 1..size /\ Ends(n)
    OBVIOUS
  <1>6. ASSUME NEW m \in 0..n - 1 PROVE Merger!Popped(m)[1].term = heap[1].term
    <2>1. CASE m = 0
      BY <2>1, PoppedIs
    <2>2. CASE m # 0
      <3>1. m \in 1..size /\ ~(n <= m) /\ m \in Nat
        BY <2>2, <1>5
      <3>2. m \notin Ending
        BY <3>1, <1>4
      <3> QED BY <3>1, <3>2
    <2> QED BY <2>1, <2>2
  <1> HIDE DEF Ends
  <1>7. \E k \in 1..size : (\A m \in 0..k - 1 : Merger!Popped(m)[1].term = heap[1].term) /\ Ends(k)
    BY <1>5, <1>6
  <1> QED BY <1>7 DEF Merger!NextCount, Ends

Taken == Merger!indices_with_next_term

LEMMA TakenIs ==
  ASSUME OneEach(heap), heap # << >>
  PROVE  LET rest == Merger!Popped(Merger!NextCount) IN
         /\ OneEach(Taken) /\ Taken # << >>
         /\ OneEach(rest)
         /\ Contents(Taken) \subseteq Contents(heap)
         /\ Contents(rest) = Contents(heap) \ Contents(Taken)
         /\ \A e \in Contents(Taken) : e.term = heap[1].term
         /\ Heaps!IsHeap(heap) =>
              /\ Heaps!IsHeap(rest)
              /\ \A e \in Contents(rest) : heap[1].term < e.term
  <1> DEFINE n == Merger!NextCount
             h(m) == Merger!Popped(m)
             rest == h(n)
  <1>1. /\ n \in 1..Len(heap)
        /\ \A m \in 0..n - 1 : h(m)[1].term = heap[1].term
        /\ rest # << >> => rest[1].term # heap[1].term
    BY NextCountIs
  <1>2. /\ Len(heap) \in Nat /\ n \in Nat /\ n > 0 /\ n <= Len(heap) /\ heap \in Seq(Entries)
        /\ DOMAIN heap = 1..Len(heap)
    BY <1>1 DEF OneEach
  <1>3. ASSUME NEW m \in 0..n
        PROVE  /\ OneEach(h(m)) /\ Len(h(m)) = Len(heap) - m
               /\ Contents(h(m)) = Contents(heap) \ { h(k)[1] : k \in 0..m - 1 }
               /\ Heaps!IsHeap(heap) => Heaps!IsHeap(h(m))
    <2>1. m \in 0..Len(heap)
      BY <1>2
    <2> QED BY <2>1, PopMany, Zenon
  <1>4. Taken = [m \in 1..n |-> h(m - 1)[1]]
    BY DEF Taken, Merger!indices_with_next_term
  <1> HIDE DEF h, n
  <1>5. ASSUME NEW m \in 0..n - 1
        PROVE  h(m)[1] \in Contents(h(m)) /\ IsEntry(h(m)[1]) /\ h(m)[1] \in Contents(heap)
    <2> m \in 0..n
      BY <1>2
    <2>1. OneEach(h(m)) /\ Len(h(m)) = Len(heap) - m
      BY <1>3, Zenon
    <2>2. h(m) \in Seq(Entries) /\ 1 \in DOMAIN h(m)
      BY <2>1, <1>2 DEF OneEach
    <2>3. h(m)[1] \in Contents(h(m)) /\ IsEntry(h(m)[1])
      BY <2>1, <2>2 DEF Contents, OneEach
    <2>4. h(m)[1] \in Contents(heap)
      BY <2>3, <1>3
    <2> QED BY <2>3, <2>4
  <1>6. DOMAIN Taken = 1..n /\ Len(Taken) = n /\ Taken \in Seq(Entries)
    <2>1. \A m \in 1..n : m - 1 \in 0..n - 1 /\ h(m - 1)[1] \in Entries
      BY <1>2, <1>5 DEF IsEntry
    <2> QED BY <2>1, <1>2, <1>4
  <1>7. ASSUME NEW i \in 1..n, NEW j \in 1..n, i < j PROVE Taken[i].index_id # Taken[j].index_id
    <2>1. i - 1 \in 0..n - 1 /\ j - 1 \in 0..n - 1 /\ i - 1 \in 0..(j - 1) - 1 /\ j - 1 \in 0..n
      BY <1>2, <1>7
    <2>2. Taken[i] = h(i - 1)[1] /\ Taken[j] = h(j - 1)[1]
      BY <1>4
    <2>3. h(j - 1)[1] \in Contents(heap) /\ h(i - 1)[1] \in Contents(heap)
          /\ h(j - 1)[1] \in Contents(h(j - 1))
      BY <2>1, <1>5
    <2>4. h(i - 1)[1] \notin Contents(h(j - 1))
      BY <2>1, <1>3
    <2>5. h(i - 1)[1] # h(j - 1)[1]
      BY <2>3, <2>4
    <2> QED BY <2>2, <2>3, <2>5 DEF OneEach, Contents
  <1>8. OneEach(Taken)
    <2>1. \A m \in 1..n : IsEntry(Taken[m])
      BY <1>2, <1>4, <1>5
    <2>2. \A i, j \in 1..n : Taken[i].index_id = Taken[j].index_id => i = j
      BY <1>2, <1>7
    <2> QED BY <2>1, <2>2, <1>6 DEF OneEach
  <1>9. Contents(Taken) = { h(k)[1] : k \in 0..n - 1 }
    <2>1. ASSUME NEW e \in Contents(Taken) PROVE e \in { h(k)[1] : k \in 0..n - 1 }
      <3>1. PICK m \in 1..n : e = h(m - 1)[1]
        BY <1>4, <1>6 DEF Contents
      <3>2. m - 1 \in 0..n - 1
        BY <1>2
      <3> QED BY <3>1, <3>2
    <2>2. ASSUME NEW k \in 0..n - 1 PROVE h(k)[1] \in Contents(Taken)
      <3>1. k + 1 \in 1..n /\ k + 1 - 1 = k
        BY <1>2
      <3>2. Taken[k + 1] = h(k)[1]
        BY <3>1, <1>4
      <3> QED BY <3>1, <3>2, <1>6 DEF Contents
    <2> QED BY <2>1, <2>2
  <1>10. /\ OneEach(rest) /\ Contents(rest) = Contents(heap) \ Contents(Taken)
         /\ Heaps!IsHeap(heap) => Heaps!IsHeap(rest)
    <2>1. n \in 0..n
      BY <1>2
    <2> QED BY <2>1, <1>3, <1>9, Zenon
  <1>11. \A e \in Contents(Taken) : e.term = heap[1].term /\ e \in Contents(heap)
    BY <1>1, <1>5, <1>9 DEF h, n
  <1>12. ASSUME Heaps!IsHeap(heap), NEW e \in Contents(rest) PROVE heap[1].term < e.term
    <2>1. PICK i \in DOMAIN rest : e = rest[i]
      BY DEF Contents
    <2>2. rest \in Seq(Entries) /\ rest # << >>
      BY <2>1, <1>10 DEF OneEach
    <2> Heaps!IsHeap(rest)
      BY <1>10, <1>12
    <2>3. ~Merger!Less(rest[1], rest[i])
      BY <2>1, <2>2, TermOrder, Heaps!HeapFront
    <2>4. e \in Contents(heap) /\ rest[1] \in Contents(rest)
      BY <2>2, <1>10 DEF Contents
    <2>5. rest[1] \in Contents(heap)
      BY <2>4, <1>10
    <2>6. PICK j \in DOMAIN heap : rest[1] = heap[j]
      BY <2>5 DEF Contents
    <2>7. ~Merger!Less(heap[1], heap[j])
      BY <1>2, <1>12, TermOrder, Heaps!HeapFront
    <2>8. rest[1].term # heap[1].term
      BY <1>1, <2>2 DEF h, n
    <2>9. rest[1] \in Entries /\ heap[1] \in Entries /\ e \in Entries /\ rest[i] \in Entries
      BY <1>2, <2>1, <2>2
    <2>10. rest[1].term <= e.term /\ heap[1].term <= rest[1].term
      BY <2>1, <2>3, <2>6, <2>7, <2>9 DEF Merger!Less, Entries
    <2>11. rest[1].term \in Int /\ heap[1].term \in Int /\ e.term \in Int
      BY <2>9 DEF Entries
    <2> QED BY <2>8, <2>10, <2>11
  <1>13. Taken # << >>
    BY <1>2, <1>6
  <1> QED BY <1>8, <1>10, <1>11, <1>12, <1>13 DEF h, n

(* Sorting them by shift is possible, and there is one way to do it.       *)
LEMMA ShiftsDiffer ==
  ASSUME indices \in Inputs, NEW d, IsEntry(d), NEW e, IsEntry(e), d.index_id # e.index_id
  PROVE  d.shift # e.shift /\ d.shift \in Int
  <1>1. /\ d.shift = Merger!Shift(d.index_id) /\ e.shift = Merger!Shift(e.index_id)
    BY DEF IsEntry, Merger!Entry
  <1>2. indices \in Seq(Merger!BatchIndex) /\ d.index_id \in DOMAIN indices /\ e.index_id \in DOMAIN indices
    BY BatchesAssumption DEF IsEntry, Entries
  <1>3. /\ d.index_id \in 1..Len(indices) + 1 /\ e.index_id \in 1..Len(indices) + 1
        /\ d.index_id < e.index_id \/ e.index_id < d.index_id
    BY <1>2
  <1>4. /\ \A b \in 1..Len(indices) + 1 : Merger!Shift(b) \in Nat
        /\ \A b, c \in 1..Len(indices) + 1 : b < c => Merger!Shift(b) < Merger!Shift(c)
    BY ShiftsAscend
  <1>5. Merger!Shift(d.index_id) \in Nat /\ Merger!Shift(e.index_id) \in Nat
    BY <1>3, <1>4
  <1>6. /\ Merger!Shift(d.index_id) < Merger!Shift(e.index_id)
           \/ Merger!Shift(e.index_id) < Merger!Shift(d.index_id)
    BY <1>3, <1>4
  <1> QED BY <1>1, <1>5, <1>6

IsSortedByShift(s, t) ==
  /\ s \in [DOMAIN t -> Contents(t)]
  /\ Contents(s) = Contents(t)
  /\ \A i, j \in DOMAIN s : i < j => s[i].shift < s[j].shift

LEMMA SortedIs ==
  ASSUME indices \in Inputs, NEW t, OneEach(t)
  PROVE  LET s == Merger!SortedByShift(t) IN
         /\ IsSortedByShift(s, t) /\ OneEach(s)
         /\ Contents(s) = Contents(t) /\ Len(s) = Len(t)
  <1> DEFINE n == Len(t)
             f == [i \in 1..n |-> t[i].shift]
             chosen == Merger!SortedByShift(t)
  <1>1. n \in Nat /\ DOMAIN t = 1..n /\ t \in Seq(Entries)
    BY DEF OneEach
  <1>2. \A i \in 1..n : IsEntry(t[i]) /\ f[i] = t[i].shift /\ f[i] \in Int
    BY <1>1 DEF OneEach, IsEntry, Entries
  <1>3. \A i, j \in 1..n : t[i].index_id = t[j].index_id => i = j
    BY <1>1 DEF OneEach
  <1>4. ASSUME NEW i \in 1..n, NEW j \in 1..n, i # j PROVE f[i] # f[j]
    <2>1. t[i].index_id # t[j].index_id
      BY <1>3, <1>4
    <2>2. IsEntry(t[i]) /\ IsEntry(t[j])
      BY <1>2
    <2>3. t[i].shift # t[j].shift
      BY <2>1, <2>2, ShiftsDiffer
    <2> QED BY <2>3, <1>2
  <1>5. f \in [1..n -> Int]
    BY <1>2
  <1> HIDE DEF f, n
  <1>6. PICK p : Sorts(p, n, f)
    BY <1>1, <1>5, Sorting
  <1>7. /\ p \in [1..n -> 1..n] /\ \A i, j \in 1..n : p[i] = p[j] => i = j
        /\ \A j \in 1..n : \E i \in 1..n : p[i] = j
        /\ \A i, j \in 1..n : i < j => f[p[i]] <= f[p[j]]
    BY <1>6 DEF Sorts, Places
  <1> DEFINE s == [i \in 1..n |-> t[p[i]]]
  <1>8. IsSortedByShift(s, t)
    <2>1. \A i \in 1..n : s[i] = t[p[i]] /\ p[i] \in 1..n /\ s[i] \in Contents(t)
      BY <1>1, <1>7 DEF Contents
    <2>2. s \in [DOMAIN t -> Contents(t)]
      BY <2>1, <1>1
    <2>3. DOMAIN s = 1..n
      OBVIOUS
    <2> HIDE DEF s
    <2>4. \A e \in Contents(t) : e \in Contents(s)
      <3>1. \A j \in 1..n : \E i \in 1..n : s[i] = t[j]
        BY <2>1, <1>7, SMTT(30)
      <3> QED BY <3>1, <2>3, <1>1 DEF Contents
    <2>5. \A e \in Contents(s) : e \in Contents(t)
      BY <2>1, <2>3 DEF Contents
    <2>6. ASSUME NEW i \in DOMAIN s, NEW j \in DOMAIN s, i < j PROVE s[i].shift < s[j].shift
      <3>1. i \in 1..n /\ j \in 1..n /\ i # j
        BY <2>3, <2>6, <1>1
      <3>2. p[i] \in 1..n /\ p[j] \in 1..n /\ p[i] # p[j] /\ f[p[i]] <= f[p[j]]
        BY <3>1, <2>6, <1>7
      <3>3. f[p[i]] # f[p[j]]
        BY <3>2, <1>4
      <3>4. f[p[i]] \in Int /\ f[p[j]] \in Int
        BY <3>2, <1>5
      <3>5. f[p[i]] < f[p[j]]
        BY <3>2, <3>3, <3>4
      <3> QED BY <3>1, <3>2, <3>5, <2>1, <1>2
    <2>7. Contents(s) = Contents(t)
      BY <2>4, <2>5
    <2> QED BY <2>2, <2>6, <2>7 DEF IsSortedByShift
  <1> HIDE DEF s
  <1>9. Merger!ToSet(t) = Contents(t) /\ \A u : Merger!ToSet(u) = Contents(u)
    BY DEF Merger!ToSet, Contents
  <1>10. IsSortedByShift(chosen, t)
    BY <1>8, <1>9 DEF IsSortedByShift, Merger!SortedByShift
  <1> HIDE DEF chosen
  <1>11. chosen \in Seq(Entries) /\ DOMAIN chosen = 1..n /\ Len(chosen) = n
    <2>1. \A e \in Contents(t) : e \in Entries
      BY <1>1, <1>2 DEF Contents, IsEntry
    <2>2. chosen \in [1..n -> Entries]
      BY <2>1, <1>1, <1>10 DEF IsSortedByShift
    <2> QED BY <2>2, <1>1
  <1>12. \A i \in 1..n : IsEntry(chosen[i])
    BY <1>1, <1>2, <1>10 DEF IsSortedByShift, Contents
  <1>13. ASSUME NEW i \in 1..n, NEW j \in 1..n, chosen[i].index_id = chosen[j].index_id PROVE i = j
    <2>0. PICK k \in 1..n, l \in 1..n : chosen[i] = t[k] /\ chosen[j] = t[l]
      BY <1>1, <1>10, SMTT(30) DEF IsSortedByShift, Contents
    <2>1. chosen[i] = chosen[j]
      BY <2>0, <1>3, <1>13
    <2>2. chosen[i].shift \in Int
      BY <1>12 DEF IsEntry, Entries
    <2>3. i < j => chosen[i].shift < chosen[j].shift
      BY <1>10, <1>11 DEF IsSortedByShift
    <2>4. j < i => chosen[j].shift < chosen[i].shift
      BY <1>10, <1>11 DEF IsSortedByShift
    <2> QED BY <2>1, <2>2, <2>3, <2>4, <1>1
  <1>14. OneEach(chosen)
    BY <1>11, <1>12, <1>13 DEF OneEach
  <1> QED BY <1>10, <1>11, <1>14 DEF IsSortedByShift, chosen, n

-----------------------------------------------------------------------------
(* The batches that were merged go on with their next rows.                *)
PushedBy(F, h, s) ==
  /\ F[0] = h
  /\ \A m \in 1..Len(s) : F[m] = Merger!PushNext(F[m - 1], s[m])
  /\ Merger!Pushed(h, s) = F[Len(s)]

LEMMA PushedIs ==
  ASSUME NEW h, NEW s \in Seq(Entries)
  PROVE  \E F : PushedBy(F, h, s)
  <1> DEFINE Body(g, m) == IF m = 0 THEN h ELSE Merger!PushNext(g[m - 1], s[m])
             Holds == { n \in Nat : \E g : g = [m \in 0..n |-> Body(g, m)] }
  <1>1. \A f, g, m : m = 0 \/ f[m - 1] = g[m - 1] => Body(f, m) = Body(g, m)
    OBVIOUS
  <1>2. /\ \A g : Body(g, 0) = h
        /\ \A g : \A m \in Nat \ {0} : Body(g, m) = Merger!PushNext(g[m - 1], s[m])
    OBVIOUS
  <1>3. Merger!Pushed(h, s) = (CHOOSE g : g = [m \in 0..Len(s) |-> Body(g, m)])[Len(s)]
    BY DEF Merger!Pushed
  <1> HIDE DEF Body
  <1>4. 0 \in Holds
    <2> DEFINE g == [m \in 0..0 |-> h]
    <2>1. \A m \in 0..0 : g[m] = Body(g, m)
      BY <1>2
    <2>2. g = [m \in 0..0 |-> Body(g, m)]
      BY <2>1
    <2> QED BY <2>2
  <1>5. ASSUME NEW n \in Nat, n \in Holds PROVE n + 1 \in Holds
    <2>1. PICK g : g = [m \in 0..n |-> Body(g, m)]
      BY <1>5
    <2> DEFINE next == [m \in 0..n + 1 |-> IF m <= n THEN g[m] ELSE Body(g, m)]
    <2>2. ASSUME NEW m \in 0..n + 1 PROVE next[m] = Body(next, m)
      <3>1. next[m] = Body(g, m)
        BY <2>1
      <3>2. m = 0 \/ next[m - 1] = g[m - 1]
        OBVIOUS
      <3> HIDE DEF next
      <3> QED BY <3>1, <3>2, <1>1
    <2>3. next = [m \in 0..n + 1 |-> next[m]]
      OBVIOUS
    <2> HIDE DEF next
    <2>4. next = [m \in 0..n + 1 |-> Body(next, m)]
      BY <2>2, <2>3
    <2> QED BY <2>4
  <1>6. Len(s) \in Holds
    <2> HIDE DEF Holds
    <2> QED BY <1>4, <1>5, InductionFrom0
  <1> DEFINE F == CHOOSE g : g = [m \in 0..Len(s) |-> Body(g, m)]
  <1>7. F = [m \in 0..Len(s) |-> Body(F, m)]
    BY <1>6
  <1> HIDE DEF F
  <1>8. \A m \in 0..Len(s) : F[m] = Body(F, m)
    BY <1>7
  <1>9. F[0] = h
    BY <1>2, <1>8
  <1>10. ASSUME NEW m \in 1..Len(s) PROVE F[m] = Merger!PushNext(F[m - 1], s[m])
    <2>1. m \in 0..Len(s) /\ m \in Nat \ {0}
      OBVIOUS
    <2> QED BY <2>1, <1>2, <1>8
  <1> QED BY <1>3, <1>9, <1>10 DEF F, PushedBy

HasNext(e) == e.term_id + 1 <= Len(indices[e.index_id].terms)
NextEntry(e) == Merger!Entry(e.index_id, e.term_id + 1)

LEMMA NextIsEntry ==
  ASSUME indices \in Inputs, NEW e, IsEntry(e), HasNext(e)
  PROVE  /\ IsEntry(NextEntry(e)) /\ NextEntry(e).index_id = e.index_id
         /\ NextEntry(e).term_id = e.term_id + 1
  <1> DEFINE b == e.index_id
             r == e.term_id + 1
  <1>1. /\ b \in DOMAIN indices /\ r \in Nat \ {0} /\ r <= Len(indices[b].terms)
        /\ indices[b].terms \in Seq(Int)
    BY BatchIs DEF IsEntry, HasNext, Entries
  <1>2. Merger!Shift(b) \in Nat
    <2>1. b \in 1..Len(indices) + 1
      BY <1>1, BatchesAssumption
    <2> QED BY <2>1, ShiftsAscend
  <1>3. indices[b].terms[r] \in Int
    BY <1>1
  <1>4. NextEntry(e) = [index_id |-> b, term_id |-> r, shift |-> Merger!Shift(b), term |-> indices[b].terms[r]]
    BY DEF NextEntry, Merger!Entry
  <1> QED BY <1>1, <1>2, <1>3, <1>4 DEF IsEntry, Entries, Merger!Entry

LEMMA PushMany ==
  ASSUME indices \in Inputs, NEW h, OneEach(h), NEW s, OneEach(s),
         \A d \in Contents(h) : \A e \in Contents(s) : d.index_id # e.index_id
  PROVE  LET g == Merger!Pushed(h, s) IN
         /\ OneEach(g)
         /\ Contents(g) = Contents(h) \cup { NextEntry(e) : e \in { e \in Contents(s) : HasNext(e) } }
         /\ Heaps!IsHeap(h) => Heaps!IsHeap(g)
  <1> DEFINE n == Len(s)
             news(m) == { NextEntry(s[k]) : k \in { k \in 1..m : HasNext(s[k]) } }
  <1>1. /\ n \in Nat /\ DOMAIN s = 1..n /\ s \in Seq(Entries)
        /\ \A k \in 1..n : IsEntry(s[k]) /\ s[k] \in Contents(s)
    BY DEF OneEach, Contents
  <1>2. PICK F : /\ F[0] = h
                 /\ \A m \in 1..n : F[m] = Merger!PushNext(F[m - 1], s[m])
                 /\ Merger!Pushed(h, s) = F[n]
    BY <1>1, PushedIs DEF PushedBy
  <1> DEFINE Claim(m) == /\ OneEach(F[m]) /\ Contents(F[m]) = Contents(h) \cup news(m)
                         /\ Heaps!IsHeap(h) => Heaps!IsHeap(F[m])
             Holds == { m \in Nat : m <= n => Claim(m) }
  <1>3. 0 \in Holds
    <2>1. news(0) = {}
      OBVIOUS
    <2> HIDE DEF news
    <2> QED BY <2>1, <1>2
  <1>4. ASSUME NEW m \in Nat, m \in Holds PROVE m + 1 \in Holds
    <2> SUFFICES ASSUME m + 1 <= n PROVE Claim(m + 1)
      BY <1>1
    <2> DEFINE e == s[m + 1]
               d == NextEntry(e)
    <2>1. m + 1 \in 1..n /\ m + 1 - 1 = m /\ m <= n
      BY <1>1
    <2>2. IsEntry(e) /\ e \in Contents(s)
      BY <2>1, <1>1
    <2>3. OneEach(F[m]) /\ Contents(F[m]) = Contents(h) \cup news(m)
      BY <2>1, <1>4
    <2>4. Heaps!IsHeap(h) => Heaps!IsHeap(F[m])
      BY <2>1, <1>4
    <2>5. F[m + 1] = Merger!PushNext(F[m], e)
      BY <2>1, <1>2
    <2>6. CASE HasNext(e)
      <3>1. F[m + 1] = Merger!Heap!PushHeap(Append(F[m], d))
        BY <2>5, <2>6 DEF Merger!PushNext, HasNext, NextEntry, Merger!term_count
      <3>2. IsEntry(d) /\ d.index_id = e.index_id
        BY <2>2, <2>6, NextIsEntry
      <3>3. \A c \in Contents(F[m]) : c.index_id # d.index_id
        <4>1. ASSUME NEW c \in Contents(h) PROVE c.index_id # d.index_id
          BY <2>2, <3>2
        <4>2. ASSUME NEW k \in 1..m, HasNext(s[k]) PROVE NextEntry(s[k]).index_id # d.index_id
          <5>1. k \in 1..n /\ k # m + 1
            BY <2>1, <1>1
          <5>2. NextEntry(s[k]).index_id = s[k].index_id
            BY <5>1, <4>2, <1>1, NextIsEntry
          <5>3. s[k].index_id # e.index_id
            BY <5>1, <2>1, <1>1 DEF OneEach
          <5> QED BY <5>2, <5>3, <3>2
        <4> QED BY <4>1, <4>2, <2>3
      <3>4. news(m + 1) = news(m) \cup {d}
        <4>1. 1..m + 1 = 1..m \cup {m + 1}
          OBVIOUS
        <4> QED BY <4>1, <2>6
      <3> HIDE DEF news, d
      <3>5. /\ OneEach(F[m + 1]) /\ Contents(F[m + 1]) = Contents(F[m]) \cup {d}
            /\ Heaps!IsHeap(F[m]) => Heaps!IsHeap(F[m + 1])
        BY <2>3, <3>1, <3>2, <3>3, PushOnce
      <3>6. Contents(F[m + 1]) = Contents(h) \cup news(m + 1)
        BY <2>3, <3>4, <3>5
      <3> QED BY <2>4, <3>5, <3>6
    <2>7. CASE ~HasNext(e)
      <3>1. F[m + 1] = F[m]
        BY <2>5, <2>7 DEF Merger!PushNext, HasNext, Merger!term_count
      <3>2. news(m + 1) = news(m)
        <4>1. 1..m + 1 = 1..m \cup {m + 1}
          OBVIOUS
        <4> QED BY <4>1, <2>7
      <3> HIDE DEF news
      <3> QED BY <3>1, <3>2, <2>3, <2>4
    <2> QED BY <2>6, <2>7
  <1>5. \A m \in Nat : m \in Holds
    <2> HIDE DEF Holds
    <2> QED BY <1>3, <1>4, InductionFrom0
  <1>6. Claim(n)
    <2> HIDE DEF Claim
    <2> QED BY <1>1, <1>5
  <1>7. news(n) = { NextEntry(e) : e \in { e \in Contents(s) : HasNext(e) } }
    BY <1>1 DEF Contents
  <1> QED BY <1>2, <1>6, <1>7

-----------------------------------------------------------------------------
(* The invariant: cursor[b] is the row of b's entry in the heap, or the    *)
(* end, and what starts as a heap stays one.                               *)
HeapInv ==
  /\ indices \in Inputs
  /\ rows = TermsOf(indices)
  /\ cursor = [b \in DOMAIN indices |-> Merger!CursorOf(b)]
  /\ phase # "titles" =>
       OneEach(heap) /\ (Merger!StartsAsHeap => Heaps!IsHeap(heap))

RowIn(h, b) ==
  IF \E i \in DOMAIN h : h[i].index_id = b
  THEN h[CHOOSE i \in DOMAIN h : h[i].index_id = b].term_id
  ELSE Len(indices[b].terms) + 1

LEMMA RowIs ==
  ASSUME NEW h, OneEach(h)
  PROVE  /\ \A e \in Contents(h) : RowIn(h, e.index_id) = e.term_id
         /\ \A b : (\A e \in Contents(h) : e.index_id # b) => RowIn(h, b) = Len(indices[b].terms) + 1
  <1>1. ASSUME NEW e \in Contents(h) PROVE RowIn(h, e.index_id) = e.term_id
    <2> DEFINE b == e.index_id
    <2>1. PICK i \in DOMAIN h : h[i] = e
      BY DEF Contents
    <2>2. ASSUME NEW j \in DOMAIN h, h[j].index_id = b PROVE h[j] = e
      BY <2>1, <2>2 DEF OneEach
    <2>3. \E j \in DOMAIN h : h[j].index_id = b
      BY <2>1
    <2> HIDE DEF b
    <2>4. RowIn(h, b) = h[CHOOSE j \in DOMAIN h : h[j].index_id = b].term_id
      BY <2>3 DEF RowIn
    <2> DEFINE k == CHOOSE j \in DOMAIN h : h[j].index_id = b
    <2>5. k \in DOMAIN h /\ h[k].index_id = b
      BY <2>3
    <2> QED BY <2>2, <2>4, <2>5 DEF b
  <1>2. ASSUME NEW b, \A e \in Contents(h) : e.index_id # b
        PROVE  RowIn(h, b) = Len(indices[b].terms) + 1
    BY <1>2 DEF RowIn, Contents
  <1> QED BY <1>1, <1>2

LEMMA Heads ==
  ASSUME HeapInv, phase # "titles"
  PROVE  /\ rows = TermsOf(indices) /\ DOMAIN rows = DOMAIN indices /\ DOMAIN cursor = DOMAIN indices
         /\ \A b \in DOMAIN indices : rows[b] = indices[b].terms /\ cursor[b] = RowIn(heap, b)
         /\ \A e \in Contents(heap) :
              /\ IsEntry(e)
              /\ e.index_id \in Waiting /\ cursor[e.index_id] = e.term_id
              /\ Current(e.index_id) = e.term
         /\ \A b \in Waiting : \E e \in Contents(heap) : e.index_id = b
  <1>1. rows = TermsOf(indices) /\ DOMAIN rows = DOMAIN indices /\ DOMAIN cursor = DOMAIN indices
    BY DEF HeapInv, TermsOf
  <1>2. \A b \in DOMAIN indices : rows[b] = indices[b].terms /\ cursor[b] = RowIn(heap, b)
    BY DEF HeapInv, TermsOf, Merger!CursorOf, RowIn, Merger!term_count
  <1>3. OneEach(heap)
    BY DEF HeapInv
  <1>4. ASSUME NEW e \in Contents(heap)
        PROVE  /\ IsEntry(e)
               /\ e.index_id \in Waiting /\ cursor[e.index_id] = e.term_id
               /\ Current(e.index_id) = e.term
    <2>1. IsEntry(e)
      BY <1>3 DEF OneEach, Contents
    <2>2. /\ e.index_id \in DOMAIN indices /\ e.term_id \in Nat \ {0}
          /\ e.term_id <= Len(indices[e.index_id].terms)
          /\ e.term = indices[e.index_id].terms[e.term_id]
      BY <2>1 DEF IsEntry, Entries, Merger!Entry
    <2>3. cursor[e.index_id] = e.term_id
      BY <2>2, <1>2, <1>3, RowIs
    <2> QED BY <2>1, <2>2, <2>3, <1>1, <1>2 DEF Waiting, Batches, Current
  <1>5. ASSUME NEW b \in Waiting PROVE \E e \in Contents(heap) : e.index_id = b
    <2>1. b \in DOMAIN indices /\ cursor[b] <= Len(indices[b].terms)
      BY <1>1, <1>2 DEF Waiting, Batches
    <2>2. Len(indices[b].terms) \in Nat
      BY <2>1, BatchIs DEF HeapInv
    <2>3. cursor[b] # Len(indices[b].terms) + 1
      BY <2>1, <2>2
    <2> QED BY <2>1, <2>3, <1>2, <1>3, RowIs
  <1> QED BY <1>1, <1>2, <1>4, <1>5

(* One step of the merger takes the current rows of the batches taken.     *)
From == { e.index_id : e \in Contents(Taken) }

LEMMA TakesHeads ==
  ASSUME HeapInv, phase = "terms", Merger!merge_term
  PROVE  /\ heap # << >> /\ From \in SUBSET Waiting /\ From # {}
         /\ indices' = indices /\ phase' = phase
         /\ OneEach(heap') /\ (Merger!StartsAsHeap => Heaps!IsHeap(heap'))
         /\ Contents(heap') = (Contents(heap) \ Contents(Taken))
                              \cup { NextEntry(e) : e \in { e \in Contents(Taken) : HasNext(e) } }
         /\ merged' = Append(merged, [term |-> heap[1].term,
                                      from |-> { <<c, cursor[c]>> : c \in From }])
         /\ \A b \in From : Current(b) = heap[1].term
         /\ \A b \in DOMAIN indices : RowIn(heap', b) = IF b \in From THEN cursor[b] + 1 ELSE cursor[b]
  <1> DEFINE rest == Merger!Popped(Merger!NextCount)
             s == Merger!SortedByShift(Taken)
  <1>1. indices \in Inputs /\ OneEach(heap) /\ heap # << >> /\ phase # "titles"
    BY DEF HeapInv, Merger!merge_term
  <1>2. /\ OneEach(Taken) /\ Taken # << >>
        /\ OneEach(rest)
        /\ Contents(Taken) \subseteq Contents(heap)
        /\ Contents(rest) = Contents(heap) \ Contents(Taken)
        /\ \A e \in Contents(Taken) : e.term = heap[1].term
        /\ Heaps!IsHeap(heap) => Heaps!IsHeap(rest)
    BY <1>1, TakenIs
  <1>3. OneEach(s) /\ Contents(s) = Contents(Taken)
    BY <1>1, <1>2, SortedIs
  <1>4. heap' = Merger!Pushed(rest, s) /\ indices' = indices /\ phase' = phase
    BY DEF Merger!merge_term, Taken
  <1>5. merged' = Append(merged, [term |-> heap[1].term,
                                  from |-> { <<e.index_id, e.term_id>> : e \in Merger!ToSet(s) }])
    BY DEF Merger!merge_term, Taken
  <1>6. Merger!ToSet(s) = Contents(s)
    BY DEF Merger!ToSet, Contents
  <1> HIDE DEF rest, s
  <1>7. \A d, e \in Contents(heap) : d.index_id = e.index_id => d = e
    BY <1>1 DEF OneEach, Contents
  <1>8. \A d \in Contents(rest) : \A e \in Contents(s) : d.index_id # e.index_id
    BY <1>2, <1>3, <1>7
  <1>9. /\ OneEach(heap')
        /\ Contents(heap') = Contents(rest) \cup { NextEntry(e) : e \in { e \in Contents(s) : HasNext(e) } }
        /\ Heaps!IsHeap(rest) => Heaps!IsHeap(heap')
    BY <1>1, <1>2, <1>3, <1>4, <1>8, PushMany
  <1>10. Merger!StartsAsHeap => Heaps!IsHeap(heap')
    BY <1>1, <1>2, <1>9 DEF HeapInv
  <1>11. ASSUME NEW e \in Contents(Taken)
         PROVE  /\ IsEntry(e) /\ e.index_id \in Waiting /\ cursor[e.index_id] = e.term_id
                /\ Current(e.index_id) = heap[1].term /\ e \in Contents(heap)
    BY <1>1, <1>2, Heads
  <1>12. { <<e.index_id, e.term_id>> : e \in Contents(Taken) } = { <<c, cursor[c]>> : c \in From }
    BY <1>11 DEF From
  <1>13. From \in SUBSET Waiting /\ \A b \in From : Current(b) = heap[1].term
    BY <1>11 DEF From
  <1>14. From # {}
    <2>1. Taken[1] \in Contents(Taken)
      BY <1>2 DEF OneEach, Contents
    <2> QED BY <2>1 DEF From
  <1>15. ASSUME NEW b \in DOMAIN indices
         PROVE  RowIn(heap', b) = IF b \in From THEN cursor[b] + 1 ELSE cursor[b]
    <2>0. cursor[b] = RowIn(heap, b)
      BY <1>1, Heads
    <2>1. \A e \in Contents(Taken) : HasNext(e) => NextEntry(e).index_id = e.index_id
                                                  /\ NextEntry(e).term_id = e.term_id + 1
      BY <1>1, <1>11, NextIsEntry
    <2>2. CASE b \in From
      <3>1. PICK e \in Contents(Taken) : b = e.index_id
        BY <2>2 DEF From
      <3>2. cursor[b] = e.term_id
        BY <3>1, <1>11
      <3>3. CASE HasNext(e)
        <4>1. NextEntry(e) \in Contents(heap')
          BY <3>3, <1>3, <1>9
        <4>2. RowIn(heap', NextEntry(e).index_id) = NextEntry(e).term_id
          BY <4>1, <1>9, RowIs
        <4> QED BY <4>2, <3>1, <3>2, <3>3, <2>1, <2>2
      <3>4. CASE ~HasNext(e)
        <4>1. ASSUME NEW d \in Contents(heap') PROVE d.index_id # b
          <5>1. CASE d \in Contents(rest)
            BY <5>1, <3>1, <1>3, <1>8
          <5>2. CASE d \in { NextEntry(c) : c \in { c \in Contents(s) : HasNext(c) } }
            <6>1. PICK c \in Contents(Taken) : HasNext(c) /\ d = NextEntry(c)
              BY <5>2, <1>3
            <6>2. c # e /\ c \in Contents(heap) /\ e \in Contents(heap)
              BY <6>1, <3>4, <1>11
            <6> QED BY <6>1, <6>2, <3>1, <2>1, <1>7
          <5> QED BY <5>1, <5>2, <1>9
        <4>2. RowIn(heap', b) = Len(indices[b].terms) + 1
          BY <4>1, <1>9, RowIs
        <4>3. e.term_id \in Nat /\ e.term_id <= Len(indices[b].terms) /\ Len(indices[b].terms) \in Nat
              /\ ~(e.term_id + 1 <= Len(indices[b].terms))
          BY <3>1, <3>4, <1>1, <1>11, BatchIs DEF IsEntry, Entries, HasNext
        <4>4. e.term_id = Len(indices[b].terms)
          BY <4>3
        <4> QED BY <4>2, <4>4, <3>2, <2>2
      <3> QED BY <3>3, <3>4
    <2>3. CASE b \notin From
      <3>1. \A e \in Contents(Taken) : e.index_id # b
        BY <2>3 DEF From
      <3>2. \A c \in Contents(s) : HasNext(c) => NextEntry(c).index_id # b
        BY <3>1, <2>1, <1>3
      <3>3. CASE \E e \in Contents(heap) : e.index_id = b
        <4>1. PICK e \in Contents(heap) : e.index_id = b
          BY <3>3
        <4>2. e \in Contents(heap')
          BY <4>1, <3>1, <1>2, <1>9
        <4>3. RowIn(heap', b) = e.term_id /\ RowIn(heap, b) = e.term_id
          BY <4>1, <4>2, <1>1, <1>9, RowIs
        <4> QED BY <4>3, <2>0, <2>3
      <3>4. CASE \A e \in Contents(heap) : e.index_id # b
        <4>1. \A e \in Contents(heap') : e.index_id # b
          BY <3>2, <3>4, <1>2, <1>9
        <4>2. RowIn(heap', b) = RowIn(heap, b)
          BY <4>1, <3>4, <1>1, <1>9, RowIs
        <4> QED BY <4>2, <2>0, <2>3
      <3> QED BY <3>3, <3>4
    <2> QED BY <2>2, <2>3
  <1> QED BY <1>1, <1>2, <1>3, <1>4, <1>5, <1>6, <1>9, <1>10, <1>12, <1>13, <1>14, <1>15

LEMMA OneEachNext ==
  ASSUME indices' = indices, OneEach(heap')
  PROVE  OneEach(heap)'
  BY DEF OneEach, IsEntry, Entries, Merger!Entry, Merger!Shift

LEMMA StepMerges ==
  ASSUME HeapInv, Merger!merge_term, phase = "terms",
         rows' = TermsOf(indices'), cursor' = [b \in DOMAIN indices' |-> Merger!CursorOf(b)']
  PROVE  /\ HeapInv' /\ MergeSome /\ (Merger!StartsAsHeap => MergeLeast)
         /\ cursor' = [b \in Batches |-> IF b \in From THEN cursor[b] + 1 ELSE cursor[b]]
  <1>1. /\ heap # << >> /\ From \in SUBSET Waiting /\ From # {}
        /\ indices' = indices /\ phase' = phase
        /\ OneEach(heap') /\ (Merger!StartsAsHeap => Heaps!IsHeap(heap'))
        /\ merged' = Append(merged, [term |-> heap[1].term,
                                     from |-> { <<c, cursor[c]>> : c \in From }])
        /\ \A b \in From : Current(b) = heap[1].term
        /\ \A b \in DOMAIN indices : RowIn(heap', b) = IF b \in From THEN cursor[b] + 1 ELSE cursor[b]
    BY TakesHeads
  <1>2. OneEach(heap) /\ indices \in Inputs /\ rows = TermsOf(indices) /\ DOMAIN rows = DOMAIN indices
        /\ phase # "titles"
    BY Heads DEF HeapInv
  <1>3. ASSUME NEW b \in DOMAIN indices PROVE cursor'[b] = RowIn(heap', b)
    BY <1>1, <1>2 DEF Merger!CursorOf, RowIn, Merger!term_count
  <1>4. cursor' = [b \in Batches |-> IF b \in From THEN cursor[b] + 1 ELSE cursor[b]]
    BY <1>1, <1>2, <1>3 DEF Batches
  <1>5. Merge(From)
    <2>1. \E b \in From : merged' = Append(merged, [term |-> Current(b),
                                                    from |-> { <<c, cursor[c]>> : c \in From }])
      BY <1>1
    <2> QED BY <2>1, <1>1, <1>2, <1>4 DEF Merge
  <1>6. ASSUME Merger!StartsAsHeap PROVE MergeLeast
    <2>1. Heaps!IsHeap(heap) /\ heap \in Seq(Entries) /\ 1 \in DOMAIN heap /\ heap[1] \in Contents(heap)
      BY <1>1, <1>2, <1>6 DEF HeapInv, OneEach, Contents
    <2>2. \A e \in Contents(heap) :
            /\ e \in Entries /\ e.index_id \in Waiting /\ Current(e.index_id) = e.term
      BY <1>2, Heads DEF IsEntry
    <2> DEFINE b == heap[1].index_id
    <2>3. b \in Waiting /\ Current(b) = heap[1].term
      BY <2>1, <2>2
    <2>4. ASSUME NEW c \in Waiting PROVE Current(b) <= Current(c)
      <3>1. PICK e \in Contents(heap) : e.index_id = c
        BY <1>2, Heads
      <3>2. PICK i \in DOMAIN heap : e = heap[i]
        BY DEF Contents
      <3>3. ~Merger!Less(heap[1], heap[i])
        BY <2>1, TermOrder, Heaps!HeapFront
      <3>4. heap[1] \in Entries /\ e \in Entries /\ Current(c) = e.term
        BY <2>1, <2>2, <3>1
      <3> QED BY <2>3, <3>2, <3>3, <3>4 DEF Merger!Less, Entries
    <2>5. ASSUME NEW c \in Waiting, Current(c) = Current(b) PROVE c \in From
      <3>1. PICK e \in Contents(heap) : e.index_id = c
        BY <1>2, Heads
      <3>2. e.term = heap[1].term /\ e.term \in Int
        BY <2>2, <2>3, <2>5, <3>1 DEF Entries
      <3>3. /\ Contents(Merger!Popped(Merger!NextCount)) = Contents(heap) \ Contents(Taken)
            /\ \A d \in Contents(Merger!Popped(Merger!NextCount)) : heap[1].term < d.term
        BY <1>1, <1>2, <2>1, TakenIs
      <3>4. e \in Contents(Taken)
        BY <3>2, <3>3
      <3> QED BY <3>1, <3>4 DEF From
    <2>6. From = { c \in Waiting : Current(c) = Current(b) }
      BY <2>3, <2>5, <1>1
    <2> QED BY <2>3, <2>4, <2>6, <1>5 DEF MergeLeast
  <1>7. HeapInv'
    <2>1. Merger!StartsAsHeap' => Merger!StartsAsHeap
      BY <1>1 DEF Merger!StartsAsHeap, Merger!Entry, Merger!Shift, Merger!Heap!IsHeap
    <2>2. OneEach(heap)'
      BY <1>1, OneEachNext
    <2> QED BY <2>1, <2>2, <1>1, <1>2 DEF HeapInv
  <1>8. MergeSome
    BY <1>1, <1>5 DEF MergeSome
  <1> QED BY <1>4, <1>6, <1>7, <1>8

(* The entries appended at the start of merge_terms().                     *)
LEMMA StepStarts ==
  ASSUME HeapInv, Merger!merge_titles,
         rows' = TermsOf(indices'), cursor' = [b \in DOMAIN indices' |-> Merger!CursorOf(b)']
  PROVE  HeapInv' /\ UNCHANGED vars
  <1>1. /\ phase = "titles" /\ phase' = "terms" /\ indices' = indices /\ merged' = merged
        /\ heap' = [b \in DOMAIN indices |-> Merger!Entry(b, 1)]
    BY DEF Merger!merge_titles
  <1>2. indices \in Inputs /\ rows = TermsOf(indices)
    BY DEF HeapInv
  <1>3. cursor = [b \in DOMAIN indices |-> 1]
    BY <1>1 DEF HeapInv, Merger!CursorOf
  <1> DEFINE n == Len(indices)
  <1>4. n \in Nat /\ DOMAIN indices = 1..n
    BY <1>2, BatchesAssumption
  <1>5. ASSUME NEW b \in DOMAIN indices
        PROVE  /\ IsEntry(Merger!Entry(b, 1))
               /\ Merger!Entry(b, 1).index_id = b /\ Merger!Entry(b, 1).term_id = 1
    <2>1. indices[b].terms \in Seq(Int) /\ Len(indices[b].terms) \in Nat \ {0}
      BY <1>2, BatchIs
    <2>2. Merger!Shift(b) \in Nat
      <3>1. b \in 1..Len(indices) + 1
        BY <1>4
      <3> QED BY <3>1, <1>2, ShiftsAscend
    <2>3. indices[b].terms[1] \in Int /\ 1 <= Len(indices[b].terms)
      BY <2>1
    <2> QED BY <2>2, <2>3 DEF IsEntry, Entries, Merger!Entry
  <1>6. OneEach(heap')
    <2>1. \A b \in 1..n : heap'[b] \in Entries /\ IsEntry(heap'[b])
      BY <1>1, <1>4, <1>5 DEF IsEntry
    <2>2. DOMAIN heap' = 1..n /\ heap' \in Seq(Entries)
      BY <2>1, <1>1, <1>4
    <2>3. \A b, c \in 1..n : heap'[b].index_id = heap'[c].index_id => b = c
      BY <1>1, <1>4, <1>5
    <2> QED BY <2>1, <2>2, <2>3 DEF OneEach
  <1>7. ASSUME NEW b \in DOMAIN indices PROVE RowIn(heap', b) = 1
    <2>1. Merger!Entry(b, 1) \in Contents(heap')
      BY <1>1 DEF Contents
    <2> QED BY <2>1, <1>5, <1>6, RowIs
  <1>8. ASSUME NEW b \in DOMAIN indices PROVE cursor'[b] = RowIn(heap', b)
    BY <1>1 DEF Merger!CursorOf, RowIn, Merger!term_count
  <1>9. UNCHANGED vars
    <2>1. cursor' = cursor
      BY <1>1, <1>3, <1>7, <1>8
    <2> QED BY <2>1, <1>1, <1>2 DEF vars
  <1>10. HeapInv'
    <2>1. Merger!StartsAsHeap' => Heaps!IsHeap(heap')
      <3>1. Merger!StartsAsHeap' = Merger!StartsAsHeap
        BY <1>1 DEF Merger!StartsAsHeap, Merger!Entry, Merger!Shift, Merger!Heap!IsHeap
      <3> QED BY <3>1, <1>1, SameHeap DEF Merger!StartsAsHeap
    <2>2. OneEach(heap)'
      BY <1>1, <1>6, OneEachNext
    <2> QED BY <2>1, <2>2, <1>1, <1>2 DEF HeapInv
  <1> QED BY <1>9, <1>10

LEMMA StepElse ==
  ASSUME HeapInv, indices' = indices, heap' = heap, merged' = merged,
         (phase # "titles" /\ phase' # "titles") \/ phase' = phase,
         rows' = TermsOf(indices'), cursor' = [b \in DOMAIN indices' |-> Merger!CursorOf(b)']
  PROVE  HeapInv' /\ UNCHANGED vars
  <1>1. cursor' = cursor /\ rows' = rows
    BY DEF HeapInv, Merger!CursorOf, Merger!term_count
  <1>2. Merger!StartsAsHeap' = Merger!StartsAsHeap
    BY DEF Merger!StartsAsHeap, Merger!Entry, Merger!Shift, Merger!Heap!IsHeap
  <1>3. OneEach(heap)' = OneEach(heap)
    BY DEF OneEach, IsEntry, Entries, Merger!Entry, Merger!Shift
  <1> QED BY <1>1, <1>2, <1>3 DEF HeapInv, vars

LEMMA InitHeapInv == MergerInit => HeapInv /\ Init
  <1> SUFFICES ASSUME MergerInit PROVE HeapInv /\ Init
    OBVIOUS
  <1>1. /\ indices \in Inputs /\ phase = "titles" /\ merged = << >>
        /\ rows = TermsOf(indices) /\ cursor = [b \in DOMAIN indices |-> 1]
    BY DEF MergerInit, Merger!Init
  <1>2. HeapInv
    BY <1>1 DEF HeapInv, Merger!CursorOf
  <1>3. rows \in Files /\ DOMAIN rows = DOMAIN indices
    BY <1>1, BatchesAssumption DEF TermsOf
  <1> QED BY <1>1, <1>2, <1>3 DEF Init, Batches

LEMMA MergerStep ==
  HeapInv /\ [MergerNext]_<<Merger!vars, rows, cursor>> =>
    HeapInv' /\ [MergeSome]_vars /\ [Merger!StartsAsHeap => MergeLeast]_<<rows, cursor, merged>>
  <1> SUFFICES ASSUME HeapInv, [MergerNext]_<<Merger!vars, rows, cursor>>
               PROVE  /\ HeapInv'
                      /\ (MergeSome /\ (Merger!StartsAsHeap => MergeLeast)) \/ UNCHANGED vars
    BY DEF vars
  <1>1. CASE UNCHANGED <<Merger!vars, rows, cursor>>
    <2>1. indices' = indices /\ heap' = heap /\ merged' = merged /\ phase' = phase
      BY <1>1 DEF Merger!vars
    <2>2. rows' = TermsOf(indices') /\ cursor' = [b \in DOMAIN indices' |-> Merger!CursorOf(b)']
      BY <1>1, <2>1 DEF HeapInv, Merger!CursorOf, Merger!term_count
    <2> QED BY <2>1, <2>2, StepElse
  <1>2. CASE MergerNext
    <2> rows' = TermsOf(indices') /\ cursor' = [b \in DOMAIN indices' |-> Merger!CursorOf(b)']
      BY <1>2 DEF MergerNext
    <2>1. CASE Merger!merge_titles
      BY <2>1, StepStarts
    <2>2. CASE Merger!merge_term
      <3>1. phase = "terms"
        BY <2>2 DEF Merger!merge_term
      <3> QED BY <2>2, <3>1, StepMerges
    <2>3. CASE Merger!allocate_sizes
      <3>1. /\ indices' = indices /\ heap' = heap /\ merged' = merged
            /\ phase # "titles" /\ phase' # "titles"
        BY <2>3 DEF Merger!allocate_sizes
      <3> QED BY <3>1, StepElse
    <2>4. CASE \E b \in copying : Merger!copy_sizes(b)
      <3>1. indices' = indices /\ heap' = heap /\ merged' = merged /\ phase' = phase
        BY <2>4 DEF Merger!copy_sizes
      <3> QED BY <3>1, StepElse
    <2>5. CASE Merger!write_properties
      <3>1. /\ indices' = indices /\ heap' = heap /\ merged' = merged
            /\ phase # "titles" /\ phase' # "titles"
        BY <2>5 DEF Merger!write_properties
      <3> QED BY <3>1, StepElse
    <2>6. CASE Merger!Returned
      <3>1. indices' = indices /\ heap' = heap /\ merged' = merged /\ phase' = phase
        BY <2>6 DEF Merger!Returned, Merger!vars
      <3> QED BY <3>1, StepElse
    <2> QED BY <1>2, <2>1, <2>2, <2>3, <2>4, <2>5, <2>6 DEF MergerNext, Merger!Next
  <1> QED BY <1>1, <1>2

(* Whatever the order of the first terms, the merger is a merge of rows.   *)
THEOREM MergerMerges == MergerSpec => ImplementsTermMerge
  BY InitHeapInv, MergerStep, PTL DEF MergerSpec, ImplementsTermMerge, Spec

(* So no row of a batch is lost, merged twice, or merged into a row of     *)
(* another term.                                                           *)
THEOREM MergerKeepsRows == MergerSpec => [](TypeOK /\ EveryRowOnce)
  BY MergerMerges, RowsSurvive, PTL DEF ImplementsTermMerge

(* When the first terms are a heap, every step takes all rows of a least   *)
(* term: push_heap and pop_heap keep what nothing made.                    *)
THEOREM MergerOrdered == MergerSpec => OrderedIfHeap
  BY InitHeapInv, MergerStep, PTL DEF MergerSpec, OrderedIfHeap

LEMMA SameStart ==
  ASSUME [MergerNext]_<<Merger!vars, rows, cursor>>, Merger!StartsAsHeap
  PROVE  Merger!StartsAsHeap'
  <1>1. indices' = indices
    BY DEF MergerNext, Merger!vars, Merger!Next, Merger!merge_titles, Merger!merge_term,
           Merger!allocate_sizes, Merger!copy_sizes, Merger!write_properties, Merger!Returned
  <1> QED BY <1>1 DEF Merger!StartsAsHeap, Merger!Entry, Merger!Shift, Merger!Heap!IsHeap

(* Then, and with sorted batches, the merged terms ascend without          *)
(* repetitions, as a lexicon needs them: the order that merge_terms() only *)
(* has by chance.                                                          *)
THEOREM MergerAscends ==
  MergerSpec /\ Merger!StartsAsHeap /\ RowsAreSorted => []TermsAscend
  <1>1. MergerSpec /\ Merger!StartsAsHeap => []Merger!StartsAsHeap
    BY SameStart, PTL DEF MergerSpec
  <1>2. Merger!StartsAsHeap /\ [Merger!StartsAsHeap => MergeLeast]_<<rows, cursor, merged>>
          => [MergeLeast]_vars
    BY DEF vars
  <1>3. MergerSpec /\ Merger!StartsAsHeap => OrderedSpec
    BY <1>1, <1>2, InitHeapInv, MergerStep, PTL DEF MergerSpec, OrderedSpec
  <1> QED BY <1>3, OrderedMerge, PTL

-----------------------------------------------------------------------------
(* The files.  First rows by themselves: what two of them are in one.      *)
SameFlatten == \A s : Merger!FlattenSeq(s) = FlattenSeq(s)

(* The merger's own operator, from the same library.                       *)
LEMMA SameFlattening == SameFlatten
  BY DEF SameFlatten, Merger!FlattenSeq, FlattenSeq

Ascends(s) == \A i, j \in DOMAIN s : i < j => s[i] < s[j]

(* A row: its documents and its counts.                                    *)
AreRow(P, Q) == P \in Seq(Nat) /\ Q \in Seq(Nat) /\ Len(Q) = Len(P)

Weights(P, Q, d) == [i \in DOMAIN Q |-> IF P[i] = d THEN Q[i] ELSE 0]

(* How often a row counts a document, as a sum over the row.               *)
LEMMA CountIs ==
  ASSUME NEW P, NEW Q, AreRow(P, Q), NEW d
  PROVE  /\ Weights(P, Q, d) \in Seq(Nat) /\ Len(Weights(P, Q, d)) = Len(P)
         /\ Merger!CountIn(P, Q, d) = SumOf(Weights(P, Q, d))
         /\ Merger!CountIn(P, Q, d) \in Nat
  <1>1. Weights(P, Q, d) \in Seq(Nat) /\ Len(Weights(P, Q, d)) = Len(P)
    BY DEF Weights, AreRow
  <1>2. Merger!CountIn(P, Q, d) = SumOf(Weights(P, Q, d))
    BY SameSum DEF Merger!CountIn, Weights
  <1> QED BY <1>1, <1>2, SumType

(* A sequence that is two others, of m and of n elements, in one.          *)
Joins(u, s, t, m, n) ==
  /\ s \in Seq(Nat) /\ t \in Seq(Nat) /\ u \in Seq(Nat) /\ m \in Nat /\ n \in Nat
  /\ Len(s) = m /\ Len(t) = n /\ Len(u) = m + n
  /\ DOMAIN s = 1..m /\ DOMAIN t = 1..n /\ DOMAIN u = 1..m + n
  /\ \A i \in 1..m : i \in 1..m + n /\ u[i] = s[i] /\ s[i] \in Nat
  /\ \A i \in 1..n : m + i \in 1..m + n /\ u[m + i] = t[i] /\ t[i] \in Nat
  /\ \A k \in 1..m + n : k \in 1..m \/ \E i \in 1..n : k = m + i

(* One sequence after another, element by element.                         *)
LEMMA JoinsThen ==
  ASSUME NEW s \in Seq(Nat), NEW t \in Seq(Nat)
  PROVE  Joins(Then(s, t), s, t, Len(s), Len(t))
  <1> DEFINE m == Len(s)
             n == Len(t)
             u == Then(s, t)
  <1>1. /\ m \in Nat /\ n \in Nat /\ DOMAIN s = 1..m /\ DOMAIN t = 1..n
        /\ \A i \in 1..m : s[i] \in Nat
        /\ \A i \in 1..n : t[i] \in Nat
    OBVIOUS
  <1>2. /\ u \in Seq(Nat) /\ Len(u) = m + n /\ DOMAIN u = 1..m + n
        /\ \A i \in 1..m : u[i] = s[i]
        /\ \A i \in 1..n : u[m + i] = t[i]
    BY DEF Then
  <1> HIDE DEF m, n, u
  <1>3. \A i \in 1..m : i \in 1..m + n
    BY <1>1
  <1>4. \A i \in 1..n : m + i \in 1..m + n
    BY <1>1
  <1>5. \A k \in 1..m + n : k \in 1..m \/ \E i \in 1..n : k = m + i
    <2> SUFFICES ASSUME NEW k \in 1..m + n, k \notin 1..m PROVE \E i \in 1..n : k = m + i
      OBVIOUS
    <2>1. k - m \in 1..n /\ k = m + (k - m)
      BY <1>1
    <2> QED BY <2>1
  <1>6. Len(s) = m /\ Len(t) = n
    BY DEF m, n
  <1>7. Joins(u, s, t, m, n)
    BY <1>1, <1>2, <1>3, <1>4, <1>5, <1>6, Zenon DEF Joins
  <1> QED BY <1>7 DEF u, m, n

(* And a sequence that has these elements is just that.                    *)
LEMMA IsThen ==
  ASSUME NEW w, NEW s, NEW t, NEW m, NEW n, Joins(w, s, t, m, n)
  PROVE  w = Then(s, t)
  <1> DEFINE u == Then(s, t)
  <1>1. s \in Seq(Nat) /\ t \in Seq(Nat) /\ Len(s) = m /\ Len(t) = n
    BY DEF Joins
  <1>2. Joins(u, s, t, m, n)
    BY <1>1, JoinsThen
  <1> HIDE DEF u
  <1>3. ASSUME NEW k \in 1..m + n PROVE w[k] = u[k]
    <2>1. CASE k \in 1..m
      BY <2>1, <1>2, Zenon DEF Joins
    <2>2. CASE \E i \in 1..n : k = m + i
      <3>1. PICK i \in 1..n : k = m + i
        BY <2>2
      <3> QED BY <3>1, <1>2, Zenon DEF Joins
    <2> QED BY <2>1, <2>2, <1>2, Zenon DEF Joins
  <1>4. w = [k \in 1..m + n |-> w[k]] /\ u = [k \in 1..m + n |-> u[k]]
    BY <1>2 DEF Joins
  <1>5. w = u
    BY <1>3, <1>4
  <1> QED BY <1>5 DEF u

(* Two rows, the second after the first.                                   *)
LEMMA ThenRows ==
  ASSUME NEW P, NEW Q, AreRow(P, Q), NEW R, NEW T, AreRow(R, T)
  PROVE  /\ AreRow(Then(P, R), Then(Q, T))
         /\ Contents(Then(P, R)) = Contents(P) \cup Contents(R)
         /\ Ascends(P) /\ Ascends(R) /\ (\A a \in Contents(P) : \A b \in Contents(R) : a < b)
              => Ascends(Then(P, R))
         /\ SumOf(Then(Q, T)) = SumOf(Q) + SumOf(T)
         /\ Merger!PairsIn(Then(P, R), Then(Q, T)) = Merger!PairsIn(P, Q) \cup Merger!PairsIn(R, T)
         /\ \A d : Merger!CountIn(Then(P, R), Then(Q, T), d)
                     = Merger!CountIn(P, Q, d) + Merger!CountIn(R, T, d)
  <1> DEFINE D == Then(P, R)
             C == Then(Q, T)
             m == Len(P)
             n == Len(R)
  <1>1. /\ P \in Seq(Nat) /\ Q \in Seq(Nat) /\ R \in Seq(Nat) /\ T \in Seq(Nat)
        /\ Len(Q) = m /\ Len(T) = n
    BY DEF AreRow
  <1>2. Joins(D, P, R, m, n) /\ Joins(C, Q, T, m, n)
    BY <1>1, JoinsThen
  <1> HIDE DEF D, C, m, n
  <1> USE DEF Joins
  <1>3. AreRow(D, C)
    BY <1>2 DEF AreRow
  <1>4. Contents(D) = Contents(P) \cup Contents(R)
    <2>1. ASSUME NEW e \in Contents(D) PROVE e \in Contents(P) \cup Contents(R)
      <3>1. PICK k \in 1..m + n : e = D[k]
        BY <1>2 DEF Contents
      <3>2. CASE k \in 1..m
        BY <3>1, <3>2, <1>2 DEF Contents
      <3>3. CASE \E i \in 1..n : k = m + i
        BY <3>1, <3>3, <1>2 DEF Contents
      <3> QED BY <3>2, <3>3, <1>2
    <2>2. ASSUME NEW e \in Contents(P) PROVE e \in Contents(D)
      BY <1>2 DEF Contents
    <2>3. ASSUME NEW e \in Contents(R) PROVE e \in Contents(D)
      <3>1. PICK i \in 1..n : e = R[i]
        BY <1>2 DEF Contents
      <3>2. e = D[m + i] /\ m + i \in DOMAIN D
        BY <3>1, <1>2
      <3> QED BY <3>2 DEF Contents
    <2> QED BY <2>1, <2>2, <2>3
  <1>5. ASSUME Ascends(P), Ascends(R), \A a \in Contents(P) : \A b \in Contents(R) : a < b
        PROVE  Ascends(D)
    <2> SUFFICES ASSUME NEW i \in 1..m + n, NEW j \in 1..m + n, i < j PROVE D[i] < D[j]
      BY <1>2 DEF Ascends
    <2>1. /\ \A k, l \in 1..m : k < l => P[k] < P[l]
          /\ \A k, l \in 1..n : k < l => R[k] < R[l]
          /\ \A k \in 1..m : \A l \in 1..n : P[k] < R[l]
      <3>1. /\ \A k \in 1..m : P[k] \in Contents(P)
            /\ \A l \in 1..n : R[l] \in Contents(R)
        BY <1>2 DEF Contents
      <3> QED BY <3>1, <1>2, <1>5, Zenon DEF Ascends
    <2>2. CASE i \in 1..m /\ j \in 1..m
      <3>1. D[i] = P[i] /\ D[j] = P[j]
        BY <2>2, <1>2
      <3> QED BY <3>1, <2>1, <2>2
    <2>3. CASE i \in 1..m /\ \E k \in 1..n : j = m + k
      <3>1. PICK k \in 1..n : j = m + k
        BY <2>3
      <3>2. D[i] = P[i] /\ D[m + k] = R[k]
        BY <2>3, <1>2
      <3>3. P[i] < R[k]
        BY <2>1, <2>3
      <3> QED BY <3>1, <3>2, <3>3
    <2>4. CASE (\E k \in 1..n : i = m + k) /\ \E k \in 1..n : j = m + k
      <3>1. PICK k \in 1..n, l \in 1..n : i = m + k /\ j = m + l
        BY <2>4
      <3>2. k < l
        BY <3>1, <1>2
      <3>3. R[k] < R[l] /\ D[m + k] = R[k] /\ D[m + l] = R[l]
        BY <3>2, <2>1, <1>2
      <3> QED BY <3>1, <3>3
    <2>5. CASE (\E k \in 1..n : i = m + k) /\ j \in 1..m
      BY <2>5, <1>2
    <2> QED BY <2>2, <2>3, <2>4, <2>5, <1>2
  <1>6. SumOf(C) = SumOf(Q) + SumOf(T)
    <2>1. Q \in Seq(Int) /\ T \in Seq(Int)
      BY <1>1
    <2> QED BY <2>1, SumConcat DEF C, Then
  <1>7. Merger!PairsIn(D, C) = Merger!PairsIn(P, Q) \cup Merger!PairsIn(R, T)
    <2>1. ASSUME NEW e \in Merger!PairsIn(D, C) PROVE e \in Merger!PairsIn(P, Q) \cup Merger!PairsIn(R, T)
      <3>1. PICK k \in 1..m + n : e = <<D[k], C[k]>>
        BY <1>2 DEF Merger!PairsIn
      <3>2. CASE k \in 1..m
        BY <3>1, <3>2, <1>2 DEF Merger!PairsIn
      <3>3. CASE \E i \in 1..n : k = m + i
        BY <3>1, <3>3, <1>2 DEF Merger!PairsIn
      <3> QED BY <3>2, <3>3, <1>2
    <2>2. ASSUME NEW e \in Merger!PairsIn(P, Q) PROVE e \in Merger!PairsIn(D, C)
      BY <1>2 DEF Merger!PairsIn
    <2>3. ASSUME NEW e \in Merger!PairsIn(R, T) PROVE e \in Merger!PairsIn(D, C)
      <3>1. PICK i \in 1..n : e = <<R[i], T[i]>>
        BY <1>2 DEF Merger!PairsIn
      <3>2. e = <<D[m + i], C[m + i]>> /\ m + i \in DOMAIN D
        BY <3>1, <1>2
      <3> QED BY <3>2 DEF Merger!PairsIn
    <2> QED BY <2>1, <2>2, <2>3
  <1>8. ASSUME NEW d PROVE Merger!CountIn(D, C, d) = Merger!CountIn(P, Q, d) + Merger!CountIn(R, T, d)
    <2> DEFINE u == Weights(P, Q, d)
               v == Weights(R, T, d)
               w == Weights(D, C, d)
    <2>1. /\ u \in Seq(Nat) /\ v \in Seq(Nat) /\ w \in Seq(Nat)
          /\ Len(u) = m /\ Len(v) = n /\ Len(w) = m + n
      BY <1>2, <1>3, CountIs DEF m, n
    <2>2. ASSUME NEW i \in 1..m PROVE w[i] = u[i]
      BY <1>2 DEF Weights
    <2>3. ASSUME NEW i \in 1..n PROVE w[m + i] = v[i]
      BY <1>2 DEF Weights
    <2> HIDE DEF u, v, w
    <2>4. w = Then(u, v)
      <3>1. DOMAIN u = 1..m /\ DOMAIN v = 1..n /\ DOMAIN w = 1..m + n
        BY <2>1
      <3>2. (\A i \in 1..m : u[i] \in Nat) /\ \A i \in 1..n : v[i] \in Nat
        <4>1. \A s \in Seq(Nat) : \A i \in DOMAIN s : s[i] \in Nat
          OBVIOUS
        <4> QED BY <2>1, <3>1, <4>1, Zenon
      <3>3. Joins(w, u, v, m, n)
        BY <1>2, <2>1, <2>2, <2>3, <3>1, <3>2, Zenon
      <3> HIDE DEF Joins
      <3> QED BY <3>3, IsThen, Zenon
    <2>5. SumOf(w) = SumOf(u) + SumOf(v)
      <3>1. u \in Seq(Int) /\ v \in Seq(Int)
        BY <2>1
      <3> QED BY <3>1, <2>4, SumConcat DEF Then
    <2> QED BY <2>5, <1>3, CountIs DEF u, v, w
  <1> QED BY <1>3, <1>4, <1>5, <1>6, <1>7, <1>8 DEF D, C

-----------------------------------------------------------------------------
(* Rows whose documents follow one another, and what they are in one row.  *)
AreParts(P, Q, n) ==
  /\ n \in Nat /\ P \in Seq(Seq(Nat)) /\ Q \in Seq(Seq(Nat)) /\ Len(P) = n /\ Len(Q) = n
  /\ \A i \in 1..n : AreRow(P[i], Q[i]) /\ Ascends(P[i])
  /\ \A i, j \in 1..n : i < j => \A a \in Contents(P[i]) : \A b \in Contents(P[j]) : a < b

SumOfParts(Q, n) == SumOf([i \in 1..n |-> SumOf(Q[i])])
CountOfParts(P, Q, n, d) == SumOf([i \in 1..n |-> Merger!CountIn(P[i], Q[i], d)])

IsJoint(D, C, P, Q, n) ==
  /\ AreRow(D, C) /\ Ascends(D)
  /\ \A a : a \in Contents(D) <=> \E i \in 1..n : a \in Contents(P[i])
  /\ SumOf(C) = SumOfParts(Q, n)
  /\ \A a : a \in Merger!PairsIn(D, C) <=> \E i \in 1..n : a \in Merger!PairsIn(P[i], Q[i])
  /\ \A d : Merger!CountIn(D, C, d) = CountOfParts(P, Q, n, d)

(* No rows in one.                                                         *)
LEMMA JointNone == ASSUME NEW P, NEW Q PROVE IsJoint(<< >>, << >>, P, Q, 0)
  <1>1. AreRow(<< >>, << >>) /\ Ascends(<< >>)
    BY DEF AreRow, Ascends
  <1>2. \A d : Merger!CountIn(<< >>, << >>, d) = 0
    <2> TAKE d
    <2>1. Weights(<< >>, << >>, d) = << >>
      BY DEF Weights
    <2> QED BY <2>1, <1>1, CountIs, SumEmpty
  <1>3. SumOfParts(Q, 0) = 0 /\ \A d : CountOfParts(P, Q, 0, d) = 0
    <2>1. [i \in 1..0 |-> SumOf(Q[i])] = << >>
      OBVIOUS
    <2>2. \A d : [i \in 1..0 |-> Merger!CountIn(P[i], Q[i], d)] = << >>
      OBVIOUS
    <2> QED BY <2>1, <2>2, SumEmpty DEF SumOfParts, CountOfParts
  <1>4. Contents(<< >>) = {} /\ Merger!PairsIn(<< >>, << >>) = {}
    BY DEF Contents, Merger!PairsIn
  <1>5. 1..0 = {}
    OBVIOUS
  <1> QED BY <1>1, <1>2, <1>3, <1>4, <1>5, SumEmpty DEF IsJoint

(* With one row more.                                                      *)
LEMMA JointOneMore ==
  ASSUME NEW n, NEW P, NEW Q, AreParts(P, Q, n), NEW k \in Nat, k + 1 <= n,
         NEW D, NEW C, IsJoint(D, C, P, Q, k)
  PROVE  IsJoint(Then(D, P[k + 1]), Then(C, Q[k + 1]), P, Q, k + 1)
  <1> DEFINE R == P[k + 1]
             T == Q[k + 1]
  <1>1. n \in Nat /\ k + 1 \in 1..n /\ 1..k + 1 = 1..k \cup {k + 1} /\ \A i \in 1..k : i \in 1..n /\ i < k + 1
    BY DEF AreParts
  <1>2. AreRow(R, T) /\ Ascends(R)
    BY <1>1 DEF AreParts
  <1>3. AreRow(D, C) /\ Ascends(D)
    BY DEF IsJoint
  <1>4. \A a \in Contents(D) : \A b \in Contents(R) : a < b
    <2> SUFFICES ASSUME NEW a \in Contents(D), NEW b \in Contents(R) PROVE a < b
      OBVIOUS
    <2>1. PICK i \in 1..k : a \in Contents(P[i])
      BY DEF IsJoint
    <2> QED BY <2>1, <1>1 DEF AreParts
  <1>5. SumOfParts(Q, k + 1) = SumOfParts(Q, k) + SumOf(T)
    <2> DEFINE s == [i \in 1..k + 1 |-> SumOf(Q[i])]
               t == [i \in 1..k |-> SumOf(Q[i])]
    <2>1. DOMAIN s = 1..k + 1 /\ DOMAIN t = 1..k /\ (\A i \in 1..k : t[i] = s[i]) /\ s[k + 1] = SumOf(T)
      BY <1>1
    <2> HIDE DEF s, t
    <2>2. SumOf(s) = SumOf(t) + s[k + 1]
      BY <2>1, SumStep
    <2> QED BY <2>1, <2>2 DEF SumOfParts, s, t
  <1>6. ASSUME NEW d PROVE CountOfParts(P, Q, k + 1, d) = CountOfParts(P, Q, k, d) + Merger!CountIn(R, T, d)
    <2> DEFINE s == [i \in 1..k + 1 |-> Merger!CountIn(P[i], Q[i], d)]
               t == [i \in 1..k |-> Merger!CountIn(P[i], Q[i], d)]
    <2>1. DOMAIN s = 1..k + 1 /\ DOMAIN t = 1..k /\ (\A i \in 1..k : t[i] = s[i])
          /\ s[k + 1] = Merger!CountIn(R, T, d)
      BY <1>1
    <2> HIDE DEF s, t
    <2>2. SumOf(s) = SumOf(t) + s[k + 1]
      BY <2>1, SumStep
    <2> QED BY <2>1, <2>2 DEF CountOfParts, s, t
  <1> HIDE DEF R, T
  <1>7. /\ AreRow(Then(D, R), Then(C, T)) /\ Ascends(Then(D, R))
        /\ Contents(Then(D, R)) = Contents(D) \cup Contents(R)
        /\ SumOf(Then(C, T)) = SumOf(C) + SumOf(T)
        /\ Merger!PairsIn(Then(D, R), Then(C, T)) = Merger!PairsIn(D, C) \cup Merger!PairsIn(R, T)
        /\ \A d : Merger!CountIn(Then(D, R), Then(C, T), d)
                    = Merger!CountIn(D, C, d) + Merger!CountIn(R, T, d)
    BY <1>2, <1>3, <1>4, ThenRows
  <1>8. ASSUME NEW a
        PROVE  a \in Contents(Then(D, R)) <=> \E i \in 1..k + 1 : a \in Contents(P[i])
    BY <1>1, <1>7, Zenon DEF IsJoint, R
  <1>9. ASSUME NEW a
        PROVE  a \in Merger!PairsIn(Then(D, R), Then(C, T))
                 <=> \E i \in 1..k + 1 : a \in Merger!PairsIn(P[i], Q[i])
    BY <1>1, <1>7, Zenon DEF IsJoint, R, T
  <1>10. /\ SumOf(Then(C, T)) = SumOfParts(Q, k + 1)
         /\ \A d : Merger!CountIn(Then(D, R), Then(C, T), d) = CountOfParts(P, Q, k + 1, d)
    BY <1>5, <1>6, <1>7, Zenon DEF IsJoint
  <1>11. IsJoint(Then(D, R), Then(C, T), P, Q, k + 1)
    BY <1>7, <1>8, <1>9, <1>10, Zenon DEF IsJoint
  <1> QED BY <1>11 DEF R, T

(* And all of them.                                                        *)
LEMMA Joined ==
  ASSUME NEW n, NEW P, NEW Q, AreParts(P, Q, n)
  PROVE  IsJoint(FlattenSeq(P), FlattenSeq(Q), P, Q, n)
  <1>1. n \in Nat /\ P \in Seq(Seq(Nat)) /\ Q \in Seq(Seq(Nat)) /\ Len(P) = n /\ Len(Q) = n
    BY DEF AreParts
  <1>2. PICK F : IsFlattening(F, P)
    BY <1>1, Flattening
  <1>3. PICK G : IsFlattening(G, Q)
    BY <1>1, Flattening
  <1>4. /\ F[0] = << >> /\ G[0] = << >>
        /\ \A k \in 1..n : F[k] = Then(F[k - 1], P[k]) /\ G[k] = Then(G[k - 1], Q[k])
        /\ FlattenSeq(P) = F[n] /\ FlattenSeq(Q) = G[n]
    BY <1>1, <1>2, <1>3 DEF IsFlattening
  <1> DEFINE Holds == { k \in Nat : k <= n => IsJoint(F[k], G[k], P, Q, k) }
  <1>5. 0 \in Holds
    BY <1>4, JointNone
  <1>6. ASSUME NEW k \in Nat, k \in Holds PROVE k + 1 \in Holds
    <2> SUFFICES ASSUME k + 1 <= n PROVE IsJoint(F[k + 1], G[k + 1], P, Q, k + 1)
      OBVIOUS
    <2>1. k + 1 \in 1..n /\ k + 1 - 1 = k /\ IsJoint(F[k], G[k], P, Q, k)
      BY <1>1, <1>6
    <2>2. F[k + 1] = Then(F[k], P[k + 1]) /\ G[k + 1] = Then(G[k], Q[k + 1])
      BY <2>1, <1>4
    <2>3. IsJoint(Then(F[k], P[k + 1]), Then(G[k], Q[k + 1]), P, Q, k + 1)
      BY <2>1, JointOneMore
    <2> QED BY <2>2, <2>3
  <1>7. \A k \in Nat : k \in Holds
    <2> HIDE DEF Holds
    <2> QED BY <1>5, <1>6, InductionFrom0
  <1> QED BY <1>1, <1>4, <1>7

-----------------------------------------------------------------------------
(* The rows of the batches, and the documents they speak of.               *)
Docs(b, r)   == indices[b].documents[r]
Counts(b, r) == indices[b].counts[r]
RowsOf(b)    == 1..Len(indices[b].terms)
Size(b)      == Merger!collection_size(indices[b])
Total        == Merger!Shift(Len(indices) + 1)

(* The documents of a batch are numbered from its shift on.                *)
InBatch(d, b) == d \in Nat /\ Merger!Shift(b) <= d /\ d < Merger!Shift(b + 1)

(* Where the documents of a batch start, and where they end.               *)
LEMMA Shifts ==
  ASSUME indices \in Inputs
  PROVE  /\ Len(indices) \in Nat /\ DOMAIN indices = 1..Len(indices) /\ Total \in Nat
         /\ Merger!Shift(1) = 0
         /\ \A b \in DOMAIN indices :
              /\ b \in Nat /\ Merger!Shift(b) \in Nat /\ Merger!Shift(b + 1) \in Nat /\ Size(b) \in Nat \ {0}
              /\ Merger!Shift(b + 1) = Merger!Shift(b) + Size(b)
              /\ Merger!Shift(b + 1) <= Total
         /\ \A b, c \in DOMAIN indices : b < c => Merger!Shift(b + 1) <= Merger!Shift(c)
         /\ \A b, c \in DOMAIN indices : Merger!Shift(b) < Merger!Shift(c) => b < c
  <1> DEFINE n == Len(indices)
             S(b) == Merger!Shift(b)
  <1>1. n \in Nat /\ DOMAIN indices = 1..n
    BY BatchesAssumption
  <1>2. /\ \A b \in 1..n + 1 : S(b) \in Nat
        /\ \A b, c \in 1..n + 1 : b < c => S(b) < S(c)
        /\ \A b \in 1..n : S(b + 1) = S(b) + Size(b)
    BY ShiftsAscend DEF Size
  <1>3. \A b \in 1..n : Size(b) \in Nat \ {0}
    BY <1>1, BatchIs DEF Size
  <1>4. S(1) = 0
    <2>1. [c \in 1..(1 - 1) |-> Merger!collection_size(indices[c])] = << >>
      OBVIOUS
    <2>2. S(1) = Merger!Sum(<< >>)
      BY <2>1 DEF Merger!Shift
    <2> QED BY <2>2, SameSum, SumEmpty
  <1> HIDE DEF n, S
  <1>5. \A b \in 1..n : b \in 1..n + 1 /\ b + 1 \in 1..n + 1 /\ n + 1 \in 1..n + 1
    BY <1>1
  <1>6. S(n + 1) \in Nat
    BY <1>1, <1>2
  <1>7. ASSUME NEW b \in 1..n PROVE S(b + 1) <= S(n + 1)
    <2>1. CASE b = n
      BY <2>1, <1>6
    <2>2. CASE b < n
      <3>1. b + 1 \in 1..n + 1 /\ n + 1 \in 1..n + 1 /\ b + 1 < n + 1
        BY <2>2, <1>1
      <3>2. S(b + 1) < S(n + 1) /\ S(b + 1) \in Nat
        BY <3>1, <1>2
      <3> QED BY <3>2, <1>6
    <2> QED BY <2>1, <2>2, <1>1
  <1>8. ASSUME NEW b \in 1..n, NEW c \in 1..n, b < c PROVE S(b + 1) <= S(c)
    <2>1. S(b + 1) \in Nat /\ S(c) \in Nat
      BY <1>2, <1>5
    <2>2. CASE b + 1 = c
      BY <2>1, <2>2
    <2>3. CASE b + 1 < c
      <3>1. S(b + 1) < S(c)
        BY <2>3, <1>2, <1>5
      <3> QED BY <2>1, <3>1
    <2> QED BY <2>2, <2>3, <1>8, <1>1
  <1>9. ASSUME NEW b \in 1..n, NEW c \in 1..n, S(b) < S(c) PROVE b < c
    <2>1. S(b) \in Nat /\ S(c) \in Nat /\ b \in Int /\ c \in Int
      BY <1>2, <1>5
    <2>2. b # c
      BY <2>1, <1>9
    <2>3. c < b => S(c) < S(b)
      BY <1>2, <1>5
    <2> QED BY <2>1, <2>2, <2>3, <1>9
  <1>10. \A b \in 1..n : b \in Nat /\ S(b) \in Nat /\ S(b + 1) \in Nat
    BY <1>1, <1>2, <1>5
  <1> QED BY <1>1, <1>2, <1>3, <1>4, <1>6, <1>7, <1>8, <1>9, <1>10 DEF n, S, Total

(* A document is in one batch only.                                        *)
LEMMA OneBatch ==
  ASSUME indices \in Inputs, NEW b \in DOMAIN indices, NEW c \in DOMAIN indices,
         NEW d, InBatch(d, b), InBatch(d, c)
  PROVE  b = c
  <1>1. /\ d \in Nat /\ b \in Nat /\ c \in Nat
        /\ Merger!Shift(b) \in Nat /\ Merger!Shift(b + 1) \in Nat
        /\ Merger!Shift(c) \in Nat /\ Merger!Shift(c + 1) \in Nat
        /\ Merger!Shift(b) <= d /\ d < Merger!Shift(b + 1)
        /\ Merger!Shift(c) <= d /\ d < Merger!Shift(c + 1)
    BY Shifts DEF InBatch
  <1>2. /\ b < c => Merger!Shift(b + 1) <= Merger!Shift(c)
        /\ c < b => Merger!Shift(c + 1) <= Merger!Shift(b)
    BY Shifts
  <1> QED BY <1>1, <1>2

(* And every document is in one.                                           *)
LEMMA SomeBatch ==
  ASSUME indices \in Inputs, NEW d \in Nat, d < Total
  PROVE  \E b \in DOMAIN indices : InBatch(d, b)
  <1> DEFINE n == Len(indices)
             S(b) == Merger!Shift(b)
             Holds == { k \in Nat : k <= n /\ d < S(k + 1) => \E b \in 1..n : InBatch(d, b) }
  <1>1. n \in Nat /\ DOMAIN indices = 1..n /\ S(1) = 0 /\ Total = S(n + 1)
    BY Shifts DEF Total
  <1>2. \A b \in 1..n : S(b) \in Nat /\ S(b + 1) \in Nat
    BY <1>1, Shifts
  <1> HIDE DEF n, S
  <1>3. 0 \in Holds
    BY <1>1
  <1>4. ASSUME NEW k \in Nat, k \in Holds PROVE k + 1 \in Holds
    <2> SUFFICES ASSUME k + 1 <= n, d < S(k + 1 + 1) PROVE \E b \in 1..n : InBatch(d, b)
      OBVIOUS
    <2>1. k + 1 \in 1..n
      BY <1>1
    <2>2. CASE d < S(k + 1)
      BY <2>2, <1>4, <1>1
    <2>3. CASE ~(d < S(k + 1))
      <3>1. S(k + 1) <= d
        BY <2>1, <2>3, <1>2
      <3>2. InBatch(d, k + 1)
        BY <3>1 DEF InBatch, S
      <3> QED BY <2>1, <3>2
    <2> QED BY <2>2, <2>3
  <1>5. n \in Holds
    <2> HIDE DEF Holds
    <2> QED BY <1>1, <1>3, <1>4, InductionFrom0
  <1> QED BY <1>1, <1>5

(* What a batch says: its rows, its titles and its sizes.                  *)
LEMMA BatchRow ==
  ASSUME indices \in Inputs, NEW b \in DOMAIN indices
  PROVE  /\ DOMAIN indices[b].terms = RowsOf(b) /\ Len(indices[b].terms) \in Nat
         /\ \A r \in RowsOf(b) :
              /\ AreRow(Docs(b, r), Counts(b, r)) /\ Ascends(Docs(b, r))
              /\ indices[b].dfs[r] = Len(Docs(b, r))
              /\ indices[b].occurrences[r] = SumOf(Counts(b, r))
              /\ \A d \in Contents(Docs(b, r)) : InBatch(d, b)
         /\ \A r, s \in RowsOf(b) : r # s => indices[b].terms[r] # indices[b].terms[s]
         /\ indices[b].titles = [i \in 1..Size(b) |-> Merger!Shift(b) + i - 1]
         /\ indices[b].sizes \in Seq(Nat) /\ Len(indices[b].sizes) = Size(b)
         /\ \A i \in 1..Size(b) :
              indices[b].sizes[i] =
                SumOf([r \in RowsOf(b) |->
                         Merger!CountIn(Docs(b, r), Counts(b, r), Merger!Shift(b) + i - 1)])
  <1>1. indices[b] \in Merger!BatchIndex /\ indices[b].terms \in Seq(Int)
    BY BatchIs
  <1>2. /\ indices[b].documents \in Seq(Seq(Nat)) /\ indices[b].counts \in Seq(Seq(Nat))
        /\ indices[b].sizes \in Seq(Nat)
    BY <1>1 DEF Merger!BatchIndex
  <1>3. Merger!IsBatch(indices[b], Merger!Shift(b))
    BY BatchesAssumption DEF Merger!AreBatches, Merger!Shift
  <1>4. DOMAIN indices[b].terms = RowsOf(b) /\ Len(indices[b].terms) \in Nat
    BY <1>1 DEF RowsOf
  <1>5. DOMAIN indices[b].sizes = 1..Size(b) /\ Len(indices[b].sizes) = Size(b)
    BY <1>2 DEF Size, Merger!collection_size
  <1>6. Len(indices[b].documents) = Len(indices[b].terms) /\ Len(indices[b].counts) = Len(indices[b].terms)
    BY <1>3, Zenon DEF Merger!IsBatch
  <1>7. /\ \A r \in RowsOf(b) : Docs(b, r) \in Seq(Nat) /\ Counts(b, r) \in Seq(Nat)
    BY <1>2, <1>4, <1>6 DEF Docs, Counts, RowsOf
  <1>8. ASSUME NEW r \in RowsOf(b)
        PROVE  /\ Merger!IsRow(Docs(b, r), Counts(b, r), indices[b].dfs[r], indices[b].occurrences[r])
               /\ \A i \in DOMAIN Docs(b, r) :
                    Docs(b, r)[i] \in Merger!Shift(b)..(Merger!Shift(b) + Size(b) - 1)
    BY <1>3, <1>4, Zenon DEF Merger!IsBatch, Docs, Counts, Size, Merger!collection_size
  <1>9. ASSUME NEW r \in RowsOf(b)
        PROVE  /\ AreRow(Docs(b, r), Counts(b, r)) /\ Ascends(Docs(b, r))
               /\ indices[b].dfs[r] = Len(Docs(b, r))
               /\ indices[b].occurrences[r] = SumOf(Counts(b, r))
    BY <1>7, <1>8, SameSum, Zenon DEF Merger!IsRow, AreRow, Ascends
  <1>10. ASSUME NEW r \in RowsOf(b), NEW d \in Contents(Docs(b, r)) PROVE InBatch(d, b)
    <2>1. PICK i \in DOMAIN Docs(b, r) : d = Docs(b, r)[i]
      BY DEF Contents
    <2>2. d \in Merger!Shift(b)..(Merger!Shift(b) + Size(b) - 1)
      BY <2>1, <1>8
    <2>3. /\ Merger!Shift(b) \in Nat /\ Size(b) \in Nat
          /\ Merger!Shift(b + 1) = Merger!Shift(b) + Size(b)
      BY Shifts
    <2> QED BY <2>2, <2>3 DEF InBatch
  <1>11. \A r, s \in RowsOf(b) : r # s => indices[b].terms[r] # indices[b].terms[s]
    BY <1>3, <1>4, Zenon DEF Merger!IsBatch
  <1>12. indices[b].titles = [i \in 1..Size(b) |-> Merger!Shift(b) + i - 1]
    BY <1>3, <1>5, Zenon DEF Merger!IsBatch
  <1>13. ASSUME NEW i \in 1..Size(b)
         PROVE  indices[b].sizes[i] =
                  SumOf([r \in RowsOf(b) |->
                           Merger!CountIn(Docs(b, r), Counts(b, r), Merger!Shift(b) + i - 1)])
    <2>1. indices[b].sizes[i] =
            Merger!Sum([r \in DOMAIN indices[b].terms |->
                          Merger!CountIn(indices[b].documents[r], indices[b].counts[r], Merger!Shift(b) + i - 1)])
      BY <1>3, <1>5, Zenon DEF Merger!IsBatch
    <2> QED BY <2>1, <1>4, SameSum, Zenon DEF Docs, Counts
  <1> QED BY <1>2, <1>4, <1>5, <1>9, <1>10, <1>11, <1>12, <1>13

-----------------------------------------------------------------------------
(* The row of one step, from the rows of its entries.                      *)
RowOf(s) == IF Len(s) = 1 THEN Merger!CopiedRow(s[1]) ELSE Merger!MergedRow(s)
DocsOf(s)   == [i \in 1..Len(s) |-> Docs(s[i].index_id, s[i].term_id)]
CountsIn(s) == [i \in 1..Len(s) |-> Counts(s[i].index_id, s[i].term_id)]

ByShift(s) ==
  /\ OneEach(s) /\ s # << >>
  /\ \A i, j \in DOMAIN s : i < j => s[i].shift < s[j].shift

(* The row that an entry stands for.                                       *)
LEMMA EntryRow ==
  ASSUME indices \in Inputs, NEW e, IsEntry(e)
  PROVE  /\ e.index_id \in DOMAIN indices /\ e.term_id \in RowsOf(e.index_id)
         /\ e.shift = Merger!Shift(e.index_id)
         /\ e.term = indices[e.index_id].terms[e.term_id]
  <1>1. e.index_id \in DOMAIN indices /\ e.term_id \in Nat \ {0}
        /\ e.term_id <= Len(indices[e.index_id].terms)
    BY DEF IsEntry, Entries
  <1>2. Len(indices[e.index_id].terms) \in Nat
    BY <1>1, BatchIs
  <1>3. e.shift = Merger!Shift(e.index_id) /\ e.term = indices[e.index_id].terms[e.term_id]
    BY DEF IsEntry, Merger!Entry
  <1> QED BY <1>1, <1>2, <1>3 DEF RowsOf

(* The rows of entries that are sorted by their shifts.                    *)
LEMMA EntriesAreParts ==
  ASSUME indices \in Inputs, NEW s, ByShift(s)
  PROVE  AreParts(DocsOf(s), CountsIn(s), Len(s))
  <1> DEFINE n == Len(s)
             P == DocsOf(s)
             Q == CountsIn(s)
  <1>1. n \in Nat /\ DOMAIN s = 1..n /\ \A i \in 1..n : IsEntry(s[i])
    BY DEF ByShift, OneEach
  <1>2. ASSUME NEW i \in 1..n
        PROVE  /\ s[i].index_id \in DOMAIN indices /\ s[i].term_id \in RowsOf(s[i].index_id)
               /\ s[i].shift = Merger!Shift(s[i].index_id)
               /\ P[i] = Docs(s[i].index_id, s[i].term_id) /\ Q[i] = Counts(s[i].index_id, s[i].term_id)
    BY <1>1, EntryRow DEF DocsOf, CountsIn
  <1>3. DOMAIN P = 1..n /\ DOMAIN Q = 1..n
    BY DEF DocsOf, CountsIn
  <1>4. P = [i \in 1..n |-> P[i]] /\ Q = [i \in 1..n |-> Q[i]]
    BY DEF DocsOf, CountsIn
  <1> HIDE DEF n, P, Q
  <1>5. ASSUME NEW i \in 1..n
        PROVE  /\ AreRow(P[i], Q[i]) /\ Ascends(P[i])
               /\ \A d \in Contents(P[i]) : InBatch(d, s[i].index_id)
    <2>1. s[i].index_id \in DOMAIN indices /\ s[i].term_id \in RowsOf(s[i].index_id)
      BY <1>2
    <2> DEFINE b == s[i].index_id
               r == s[i].term_id
    <2>2. /\ AreRow(Docs(b, r), Counts(b, r)) /\ Ascends(Docs(b, r))
          /\ \A d \in Contents(Docs(b, r)) : InBatch(d, b)
      <3> HIDE DEF b, r
      <3> QED BY <2>1, BatchRow DEF b, r
    <2>3. P[i] = Docs(b, r) /\ Q[i] = Counts(b, r)
      BY <1>2
    <2> QED BY <2>2, <2>3
  <1>6. ASSUME NEW i \in 1..n, NEW j \in 1..n, i < j,
               NEW a \in Contents(P[i]), NEW b \in Contents(P[j])
        PROVE  a < b
    <2> DEFINE p == s[i].index_id
               q == s[j].index_id
    <2>1. s[i].shift < s[j].shift
      BY <1>1, <1>6 DEF ByShift
    <2>2. p \in DOMAIN indices /\ q \in DOMAIN indices /\ Merger!Shift(p) < Merger!Shift(q)
      BY <2>1, <1>2
    <2>3. InBatch(a, p) /\ InBatch(b, q)
      BY <1>5
    <2> HIDE DEF p, q
    <2>4. Merger!Shift(p + 1) <= Merger!Shift(q) /\ Merger!Shift(p + 1) \in Nat /\ Merger!Shift(q) \in Nat
      BY <2>2, Shifts
    <2> QED BY <2>3, <2>4 DEF InBatch
  <1>7. P \in Seq(Seq(Nat)) /\ Q \in Seq(Seq(Nat)) /\ Len(P) = n /\ Len(Q) = n
    <2>1. \A i \in 1..n : P[i] \in Seq(Nat) /\ Q[i] \in Seq(Nat)
      BY <1>5 DEF AreRow
    <2>2. ASSUME NEW S, NEW f, f = [i \in 1..n |-> f[i]], \A i \in 1..n : f[i] \in S
          PROVE  f \in Seq(S) /\ Len(f) = n
      BY <1>1, <2>2
    <2> QED BY <2>1, <2>2, <1>4
  <1>8. AreParts(P, Q, n)
    BY <1>1, <1>5, <1>6, <1>7 DEF AreParts
  <1> QED BY <1>8 DEF P, Q, n

(* A single row is a row of one part.                                      *)
LEMMA OnePart ==
  ASSUME NEW P, NEW Q, AreParts(P, Q, 1)
  PROVE  IsJoint(P[1], Q[1], P, Q, 1)
  <1>1. P[1] \in Seq(Nat) /\ Q[1] \in Seq(Nat)
    BY DEF AreParts, AreRow
  <1>2. Then(<< >>, P[1]) = P[1] /\ Then(<< >>, Q[1]) = Q[1]
    <2>1. \A t \in Seq(Nat) : << >> \o t = t
      OBVIOUS
    <2> QED BY <2>1, <1>1, Zenon DEF Then
  <1>3. IsJoint(Then(<< >>, P[0 + 1]), Then(<< >>, Q[0 + 1]), P, Q, 0 + 1)
    <2>1. 0 \in Nat /\ 0 + 1 <= 1
      OBVIOUS
    <2> QED BY <2>1, JointNone, JointOneMore
  <1>4. 0 + 1 = 1
    OBVIOUS
  <1> QED BY <1>2, <1>3, <1>4

(* A list: its block size and its values.                                  *)
Listed == [block : Nat \cup {block_size}, values : Seq(Nat)]

(* copy_term and merge_term write the row of the parts.                    *)
LEMMA RowIsJoint ==
  ASSUME indices \in Inputs, NEW s, ByShift(s)
  PROVE  LET row == RowOf(s) IN
         /\ row.documents \in Listed /\ row.counts \in Listed
         /\ IsJoint(row.documents.values, row.counts.values, DocsOf(s), CountsIn(s), Len(s))
         /\ row.df = Len(row.documents.values)
         /\ Merger!TermOccurrences(s) = SumOf(row.counts.values)
  <1> DEFINE n == Len(s)
             P == DocsOf(s)
             Q == CountsIn(s)
             row == RowOf(s)
             D == row.documents.values
             C == row.counts.values
  <1>1. n \in Nat /\ n # 0 /\ DOMAIN s = 1..n /\ \A i \in 1..n : IsEntry(s[i])
    BY DEF ByShift, OneEach
  <1>2. AreParts(P, Q, n)
    BY EntriesAreParts
  <1>3. ASSUME NEW i \in 1..n
        PROVE  /\ s[i].index_id \in DOMAIN indices /\ s[i].term_id \in RowsOf(s[i].index_id)
               /\ P[i] = Docs(s[i].index_id, s[i].term_id) /\ Q[i] = Counts(s[i].index_id, s[i].term_id)
               /\ indices[s[i].index_id].dfs[s[i].term_id] = Len(P[i])
               /\ indices[s[i].index_id].occurrences[s[i].term_id] = SumOf(Q[i])
    <2>1. PICK b, r : b = s[i].index_id /\ r = s[i].term_id
      OBVIOUS
    <2>2. b \in DOMAIN indices /\ r \in RowsOf(b)
      BY <2>1, <1>1, EntryRow
    <2>3. P[i] = Docs(b, r) /\ Q[i] = Counts(b, r)
      BY <2>1 DEF DocsOf, CountsIn
    <2> HIDE DEF P, Q
    <2>4. indices[b].dfs[r] = Len(Docs(b, r)) /\ indices[b].occurrences[r] = SumOf(Counts(b, r))
      BY <2>2, BatchRow
    <2> QED BY <2>1, <2>2, <2>3, <2>4
  <1>4. Merger!TermOccurrences(s) = SumOfParts(Q, n)
    <2> DEFINE f == [i \in 1..n |-> indices[s[i].index_id].occurrences[s[i].term_id]]
               g == [i \in 1..n |-> SumOf(Q[i])]
    <2>1. \A i \in 1..n : f[i] = g[i]
      BY <1>3
    <2>2. DOMAIN f = 1..n /\ DOMAIN g = 1..n
      OBVIOUS
    <2>3. Merger!TermOccurrences(s) = SumOf(f)
      BY <1>1, SameSum DEF Merger!TermOccurrences
    <2>4. SumOfParts(Q, n) = SumOf(g)
      BY DEF SumOfParts
    <2> HIDE DEF f, g, n
    <2> QED BY <2>1, <2>2, <2>3, <2>4, <1>1, SumSame
  <1>5. CASE n = 1
    <2>1. row = Merger!CopiedRow(s[1])
      BY <1>5 DEF RowOf
    <2> DEFINE b == s[1].index_id
    <2>2. /\ row.documents = [block |-> indices[b].block, values |-> P[1]]
          /\ row.counts = [block |-> indices[b].block, values |-> Q[1]]
          /\ row.df = Len(P[1])
      BY <2>1, <1>3, <1>5 DEF Merger!CopiedRow, Docs, Counts
    <2>3. indices[b].block \in Nat
      <3>1. indices[b] \in Merger!BatchIndex
        BY <1>3, <1>5, BatchIs
      <3> QED BY <3>1 DEF Merger!BatchIndex
    <2>4. IsJoint(P[1], Q[1], P, Q, n)
      BY <1>2, <1>5, OnePart
    <2>5. AreRow(P[1], Q[1])
      BY <2>4 DEF IsJoint
    <2> HIDE DEF P, Q, n, row, b
    <2>6. row.documents \in Listed /\ row.counts \in Listed /\ D = P[1] /\ C = Q[1]
      BY <2>2, <2>3, <2>5 DEF Listed, AreRow
    <2>7. SumOf(C) = SumOfParts(Q, n)
      BY <2>4, <2>6 DEF IsJoint
    <2> QED BY <2>2, <2>4, <2>6, <2>7, <1>4 DEF P, Q, n, row
  <1>6. CASE n # 1
    <2>1. row = Merger!MergedRow(s)
      BY <1>6 DEF RowOf
    <2>2. /\ row.documents = [block |-> block_size, values |-> FlattenSeq(P)]
          /\ row.counts = [block |-> block_size, values |-> FlattenSeq(Q)]
          /\ row.df = Len(FlattenSeq(P))
      <3>1. /\ [i \in DOMAIN s |-> indices[s[i].index_id].documents[s[i].term_id]] = P
            /\ [i \in DOMAIN s |-> indices[s[i].index_id].counts[s[i].term_id]] = Q
        BY <1>1 DEF DocsOf, CountsIn, Docs, Counts
      <3>2. Merger!MergedRow(s) =
              [ documents |-> [block |-> block_size, values |-> Merger!FlattenSeq(P)],
                counts    |-> [block |-> block_size, values |-> Merger!FlattenSeq(Q)],
                df        |-> Len(Merger!FlattenSeq(P)) ]
        <4> HIDE DEF P, Q
        <4> QED BY <3>1, Zenon DEF Merger!MergedRow
      <3>3. Merger!FlattenSeq(P) = FlattenSeq(P) /\ Merger!FlattenSeq(Q) = FlattenSeq(Q)
        BY SameFlattening, Zenon DEF SameFlatten
      <3> HIDE DEF P, Q, row
      <3> QED BY <2>1, <3>2, <3>3
    <2>4. IsJoint(FlattenSeq(P), FlattenSeq(Q), P, Q, n)
      BY <1>2, Joined
    <2>5. AreRow(FlattenSeq(P), FlattenSeq(Q))
      BY <2>4 DEF IsJoint
    <2> HIDE DEF P, Q, n, row
    <2>6. row.documents \in Listed /\ row.counts \in Listed /\ D = FlattenSeq(P) /\ C = FlattenSeq(Q)
      BY <2>2, <2>5 DEF Listed, AreRow
    <2>7. SumOf(C) = SumOfParts(Q, n)
      BY <2>4, <2>6 DEF IsJoint
    <2> QED BY <2>2, <2>4, <2>6, <2>7, <1>4 DEF P, Q, n, row
  <1> QED BY <1>5, <1>6

-----------------------------------------------------------------------------
(* A document that a row does not have is not counted.                     *)
LEMMA CountNone ==
  ASSUME NEW P, NEW Q, AreRow(P, Q), NEW d, d \notin Contents(P)
  PROVE  Merger!CountIn(P, Q, d) = 0
  <1> DEFINE w == Weights(P, Q, d)
             n == Len(P)
  <1>1. n \in Nat /\ DOMAIN P = 1..n /\ DOMAIN Q = 1..n
    BY DEF AreRow
  <1>2. DOMAIN w = 1..n /\ \A i \in 1..n : w[i] = 0
    BY <1>1 DEF Weights, Contents
  <1> HIDE DEF w, n
  <1>3. SumOf(w) = 0
    BY <1>1, <1>2, SumZeros
  <1> QED BY <1>3, CountIs DEF w

(* How often a merged row has a document: as often as the row of its       *)
(* batch, if that is part of it.                                           *)
LEMMA CountOfOne ==
  ASSUME indices \in Inputs, NEW s, ByShift(s), NEW b \in DOMAIN indices, NEW d, InBatch(d, b)
  PROVE  LET count == CountOfParts(DocsOf(s), CountsIn(s), Len(s), d) IN
         /\ (\A e \in Contents(s) : e.index_id # b) => count = 0
         /\ \A e \in Contents(s) :
              e.index_id = b => count = Merger!CountIn(Docs(b, e.term_id), Counts(b, e.term_id), d)
  <1> DEFINE n == Len(s)
             f == [i \in 1..n |-> Merger!CountIn(DocsOf(s)[i], CountsIn(s)[i], d)]
  <1>1. n \in Nat /\ DOMAIN s = 1..n /\ \A i \in 1..n : IsEntry(s[i]) /\ s[i] \in Contents(s)
    BY DEF ByShift, OneEach, Contents
  <1>2. ASSUME NEW i \in 1..n
        PROVE  /\ s[i].index_id \in DOMAIN indices
               /\ AreRow(Docs(s[i].index_id, s[i].term_id), Counts(s[i].index_id, s[i].term_id))
               /\ \A a \in Contents(Docs(s[i].index_id, s[i].term_id)) : InBatch(a, s[i].index_id)
               /\ f[i] = Merger!CountIn(Docs(s[i].index_id, s[i].term_id),
                                        Counts(s[i].index_id, s[i].term_id), d)
    <2> DEFINE c == s[i].index_id
               r == s[i].term_id
    <2>1. c \in DOMAIN indices /\ r \in RowsOf(c)
      BY <1>1, EntryRow
    <2>2. f[i] = Merger!CountIn(Docs(c, r), Counts(c, r), d)
      BY <1>1 DEF DocsOf, CountsIn
    <2> HIDE DEF c, r, f
    <2>3. AreRow(Docs(c, r), Counts(c, r)) /\ \A a \in Contents(Docs(c, r)) : InBatch(a, c)
      BY <2>1, BatchRow
    <2> QED BY <2>1, <2>2, <2>3 DEF c, r
  <1>3. DOMAIN f = 1..n /\ CountOfParts(DocsOf(s), CountsIn(s), n, d) = SumOf(f)
    BY DEF CountOfParts
  <1> HIDE DEF f, n
  <1>4. ASSUME NEW i \in 1..n, s[i].index_id # b PROVE f[i] = 0
    <2>1. d \notin Contents(Docs(s[i].index_id, s[i].term_id))
      BY <1>2, <1>4, OneBatch
    <2> QED BY <2>1, <1>2, CountNone
  <1>5. ASSUME \A e \in Contents(s) : e.index_id # b PROVE SumOf(f) = 0
    <2>1. \A i \in 1..n : f[i] = 0
      BY <1>1, <1>4, <1>5
    <2> QED BY <2>1, <1>1, <1>3, SumZeros
  <1>6. ASSUME NEW e \in Contents(s), e.index_id = b
        PROVE  SumOf(f) = Merger!CountIn(Docs(b, e.term_id), Counts(b, e.term_id), d)
    <2>1. PICK j \in 1..n : e = s[j]
      BY <1>1 DEF Contents
    <2>2. f[j] = Merger!CountIn(Docs(b, e.term_id), Counts(b, e.term_id), d)
      BY <2>1, <1>2, <1>6
    <2>3. f[j] \in Int
      <3>1. AreRow(Docs(b, e.term_id), Counts(b, e.term_id))
        BY <2>1, <1>2, <1>6
      <3>2. Merger!CountIn(Docs(b, e.term_id), Counts(b, e.term_id), d) \in Nat
        BY <3>1, CountIs
      <3> QED BY <2>2, <3>2
    <2>4. ASSUME NEW k \in 1..n, k # j PROVE f[k] = 0
      <3>1. s[k].index_id # b
        BY <2>1, <2>4, <1>1, <1>6 DEF ByShift, OneEach
      <3> QED BY <3>1, <1>4
    <2>5. SumOf(f) = f[j]
      BY <2>3, <2>4, <1>1, <1>3, SumOnly
    <2> QED BY <2>2, <2>5
  <1> QED BY <1>3, <1>5, <1>6 DEF n

-----------------------------------------------------------------------------
(* The invariant of the files.  What out and offsets are.                  *)
OutShape ==
  /\ out = [ terms |-> out.terms, documents |-> out.documents, counts |-> out.counts,
             dfs |-> out.dfs, occurrences |-> out.occurrences, titles |-> out.titles,
             sizes |-> out.sizes, properties |-> out.properties ]
  /\ offsets = [ documents |-> offsets.documents, counts |-> offsets.counts,
                 doc |-> offsets.doc, count |-> offsets.count ]
  /\ out.terms \in Seq(Int) /\ out.documents \in Seq(Listed) /\ out.counts \in Seq(Listed)
  /\ out.dfs \in Seq(Nat) /\ out.occurrences \in Seq(Nat)
  /\ offsets.documents \in Seq(Nat) /\ offsets.counts \in Seq(Nat)
  /\ offsets.doc \in Nat /\ offsets.count \in Nat
  /\ Len(out.terms) = Len(merged) /\ Len(out.documents) = Len(merged) /\ Len(out.counts) = Len(merged)
  /\ Len(out.dfs) = Len(merged) /\ Len(out.occurrences) = Len(merged)
  /\ Len(offsets.documents) = Len(merged) /\ Len(offsets.counts) = Len(merged)

(* One step writes the row of the entries s.                               *)
Written(s, row) ==
  /\ ByShift(s) /\ Contents(s) = Contents(Taken) /\ row = RowOf(s)
  /\ out' = [ terms       |-> Append(out.terms, heap[1].term),
              documents   |-> Append(out.documents, row.documents),
              counts      |-> Append(out.counts, row.counts),
              dfs         |-> Append(out.dfs, row.df),
              occurrences |-> Append(out.occurrences, Merger!TermOccurrences(s)),
              titles |-> out.titles, sizes |-> out.sizes, properties |-> out.properties ]
  /\ offsets' = [ documents |-> Append(offsets.documents, offsets.doc),
                  counts    |-> Append(offsets.counts, offsets.count),
                  doc       |-> offsets.doc + Merger!DocumentBytes(row.documents),
                  count     |-> offsets.count + Merger!CountBytes(row.counts) ]
  /\ indices' = indices /\ copying' = copying /\ phase' = phase
  /\ merged' = Append(merged, [term |-> heap[1].term,
                               from |-> { <<c, cursor[c]>> : c \in From }])

(* What merge_term writes.                                                 *)
LEMMA TermStep ==
  ASSUME HeapInv, OutShape, phase = "terms", Merger!merge_term
  PROVE  \E s, row : Written(s, row)
  <1> DEFINE s == Merger!SortedByShift(Taken)
             row == RowOf(s)
  <1>1. indices \in Inputs /\ OneEach(heap) /\ heap # << >>
    BY DEF HeapInv, Merger!merge_term
  <1>2. OneEach(Taken) /\ Taken # << >>
    BY <1>1, TakenIs
  <1>3. IsSortedByShift(s, Taken) /\ OneEach(s) /\ Contents(s) = Contents(Taken) /\ Len(s) = Len(Taken)
    BY <1>1, <1>2, SortedIs
  <1>4. ByShift(s)
    <2>1. s # << >>
      BY <1>2, <1>3 DEF OneEach
    <2> QED BY <2>1, <1>3 DEF ByShift, IsSortedByShift
  <1>5. /\ out' = [out EXCEPT !.terms       = Append(@, heap[1].term),
                              !.documents   = Append(@, row.documents),
                              !.counts      = Append(@, row.counts),
                              !.dfs         = Append(@, row.df),
                              !.occurrences = Append(@, Merger!TermOccurrences(s))]
        /\ offsets' = Merger!NextOffsets(row)
        /\ copying' = copying
    BY Zenon DEF Merger!merge_term, Taken, RowOf
  <1>6. /\ indices' = indices /\ phase' = phase
        /\ merged' = Append(merged, [term |-> heap[1].term,
                                     from |-> { <<c, cursor[c]>> : c \in From }])
    BY TakesHeads
  <1> HIDE DEF s, row
  <1>7. out' = [ terms       |-> Append(out.terms, heap[1].term),
                 documents   |-> Append(out.documents, row.documents),
                 counts      |-> Append(out.counts, row.counts),
                 dfs         |-> Append(out.dfs, row.df),
                 occurrences |-> Append(out.occurrences, Merger!TermOccurrences(s)),
                 titles |-> out.titles, sizes |-> out.sizes, properties |-> out.properties ]
    BY <1>5 DEF OutShape
  <1>8. offsets' = [ documents |-> Append(offsets.documents, offsets.doc),
                     counts    |-> Append(offsets.counts, offsets.count),
                     doc       |-> offsets.doc + Merger!DocumentBytes(row.documents),
                     count     |-> offsets.count + Merger!CountBytes(row.counts) ]
    BY <1>5 DEF Merger!NextOffsets
  <1>9. row = RowOf(s)
    BY DEF row
  <1>10. Written(s, row)
    BY <1>3, <1>4, <1>5, <1>6, <1>7, <1>8, <1>9 DEF Written
  <1> QED BY <1>10

-----------------------------------------------------------------------------
(* What the row of a step says.                                            *)
IsNewRow(row, s) ==
  LET D == row.documents.values
      C == row.counts.values
  IN  /\ row.documents \in Listed /\ row.counts \in Listed
      /\ AreRow(D, C) /\ Ascends(D) /\ row.df = Len(D)
      /\ Merger!TermOccurrences(s) = SumOf(C)
      /\ \A c \in From : c \in DOMAIN indices /\ cursor[c] \in RowsOf(c)
      /\ \A a : a \in Merger!PairsIn(D, C) <=>
                  \E c \in From : a \in Merger!PairsIn(Docs(c, cursor[c]), Counts(c, cursor[c]))
      /\ \A b \in DOMAIN indices : \A d : InBatch(d, b) =>
           Merger!CountIn(D, C, d) =
             IF b \in From THEN Merger!CountIn(Docs(b, cursor[b]), Counts(b, cursor[b]), d) ELSE 0

(* The row written has the postings of the rows it is made of.             *)
LEMMA NewRowIs ==
  ASSUME HeapInv, phase = "terms", heap # << >>, NEW s, NEW row,
         ByShift(s), Contents(s) = Contents(Taken), row = RowOf(s)
  PROVE  IsNewRow(row, s)
  <1> DEFINE D == row.documents.values
             C == row.counts.values
             n == Len(s)
  <1>1. indices \in Inputs /\ OneEach(heap) /\ phase # "titles"
    BY DEF HeapInv
  <1>2. /\ row.documents \in Listed /\ row.counts \in Listed
        /\ IsJoint(D, C, DocsOf(s), CountsIn(s), n)
        /\ row.df = Len(D)
        /\ Merger!TermOccurrences(s) = SumOf(C)
    BY <1>1, RowIsJoint
  <1> HIDE DEF D, C
  <1>3. /\ \A e \in Contents(s) : e.index_id \in From /\ e.term_id = cursor[e.index_id]
        /\ \A c \in From : \E e \in Contents(s) : e.index_id = c
    <2>1. Contents(Taken) \subseteq Contents(heap)
      BY <1>1, TakenIs
    <2> QED BY <2>1, <1>1, Heads DEF From
  <1>4. /\ DOMAIN s = 1..n
        /\ \A i \in 1..n :
             /\ s[i] \in Contents(s)
             /\ DocsOf(s)[i] = Docs(s[i].index_id, s[i].term_id)
             /\ CountsIn(s)[i] = Counts(s[i].index_id, s[i].term_id)
    BY DEF ByShift, OneEach, Contents, DocsOf, CountsIn
  <1>5. ASSUME NEW a
        PROVE  a \in Merger!PairsIn(D, C) <=>
                 \E c \in From : a \in Merger!PairsIn(Docs(c, cursor[c]), Counts(c, cursor[c]))
    <2>1. a \in Merger!PairsIn(D, C) <=> \E i \in 1..n : a \in Merger!PairsIn(DocsOf(s)[i], CountsIn(s)[i])
      BY <1>2 DEF IsJoint
    <2>2. ASSUME NEW i \in 1..n, a \in Merger!PairsIn(DocsOf(s)[i], CountsIn(s)[i])
          PROVE  \E c \in From : a \in Merger!PairsIn(Docs(c, cursor[c]), Counts(c, cursor[c]))
      <3>1. s[i].index_id \in From /\ s[i].term_id = cursor[s[i].index_id]
        BY <1>3, <1>4
      <3>2. a \in Merger!PairsIn(Docs(s[i].index_id, s[i].term_id), Counts(s[i].index_id, s[i].term_id))
        BY <2>2, <1>4
      <3> QED BY <3>1, <3>2
    <2>3. ASSUME NEW c \in From, a \in Merger!PairsIn(Docs(c, cursor[c]), Counts(c, cursor[c]))
          PROVE  \E i \in 1..n : a \in Merger!PairsIn(DocsOf(s)[i], CountsIn(s)[i])
      <3>1. PICK e \in Contents(s) : e.index_id = c
        BY <1>3
      <3>2. PICK i \in 1..n : e = s[i]
        BY <1>4 DEF Contents
      <3>3. e.term_id = cursor[c]
        BY <3>1, <1>3
      <3>4. DocsOf(s)[i] = Docs(c, cursor[c]) /\ CountsIn(s)[i] = Counts(c, cursor[c])
        BY <3>1, <3>2, <3>3, <1>4
      <3> QED BY <3>4, <2>3
    <2> QED BY <2>1, <2>2, <2>3
  <1>6. ASSUME NEW b \in DOMAIN indices, NEW d, InBatch(d, b)
        PROVE  Merger!CountIn(D, C, d) =
                 IF b \in From THEN Merger!CountIn(Docs(b, cursor[b]), Counts(b, cursor[b]), d) ELSE 0
    <2> DEFINE count == CountOfParts(DocsOf(s), CountsIn(s), n, d)
    <2>1. Merger!CountIn(D, C, d) = count
      BY <1>2 DEF IsJoint
    <2>2. /\ (\A e \in Contents(s) : e.index_id # b) => count = 0
          /\ \A e \in Contents(s) :
               e.index_id = b => count = Merger!CountIn(Docs(b, e.term_id), Counts(b, e.term_id), d)
      BY <1>1, <1>6, CountOfOne
    <2> HIDE DEF count
    <2>3. CASE b \in From
      <3>1. PICK e \in Contents(s) : e.index_id = b
        BY <2>3, <1>3
      <3>2. e.term_id = cursor[b]
        BY <3>1, <1>3
      <3> QED BY <3>1, <3>2, <2>1, <2>2, <2>3
    <2>4. CASE b \notin From
      BY <2>1, <2>2, <2>4, <1>3
    <2> QED BY <2>3, <2>4
  <1>7. AreRow(D, C) /\ Ascends(D)
    BY <1>2 DEF IsJoint
  <1>8. ASSUME NEW c \in From PROVE c \in DOMAIN indices /\ cursor[c] \in RowsOf(c)
    <2>1. PICK e \in Contents(s) : e.index_id = c
      BY <1>3
    <2>2. IsEntry(e) /\ e.term_id = cursor[c]
      BY <2>1, <1>3, <1>4 DEF Contents, ByShift, OneEach
    <2> QED BY <2>1, <2>2, <1>1, EntryRow
  <1> QED BY <1>2, <1>5, <1>6, <1>7, <1>8, Zenon DEF IsNewRow, D, C

(* Each row, and where it starts in the files.                             *)
RowAt(m) ==
  LET D == out.documents[m].values
      C == out.counts[m].values
  IN  /\ out.terms[m] = merged[m].term
      /\ AreRow(D, C) /\ Ascends(D) /\ out.dfs[m] = Len(D) /\ out.occurrences[m] = SumOf(C)
      /\ \A e \in merged[m].from : e[1] \in DOMAIN indices /\ e[2] \in RowsOf(e[1])
      /\ \A a : a \in Merger!PairsIn(D, C) <=>
                  \E e \in merged[m].from : a \in Merger!PairsIn(Docs(e[1], e[2]), Counts(e[1], e[2]))

DocBytes(n) == SumOf([k \in 1..n |-> Merger!DocumentBytes(out.documents[k])])
CntBytes(n) == SumOf([k \in 1..n |-> Merger!CountBytes(out.counts[k])])

StartsAt(m) == offsets.documents[m] = DocBytes(m - 1) /\ offsets.counts[m] = CntBytes(m - 1)

RowsInv ==
  /\ OutShape
  /\ \A m \in DOMAIN merged : RowAt(m) /\ StartsAt(m)
  /\ offsets.doc = DocBytes(Len(merged)) /\ offsets.count = CntBytes(Len(merged))

(* The counts of a document, as far as its batch is merged.                *)
Before(b, n, d) == SumOf([r \in 1..n |-> Merger!CountIn(Docs(b, r), Counts(b, r), d)])

CountsInv ==
  \A b \in DOMAIN indices : \A d : InBatch(d, b) => Merger!CountsOf(d) = Before(b, cursor[b] - 1, d)

(* The lengths of lists.                                                   *)
LEMMA BytesAre ==
  ASSUME NEW list \in Listed
  PROVE  Merger!DocumentBytes(list) \in Nat /\ Merger!CountBytes(list) \in Nat
  <1>1. Len(list.values) \in Nat
    BY DEF Listed
  <1> QED BY <1>1 DEF Merger!DocumentBytes, Merger!CountBytes

(* A step appends to every column of the merged index.                     *)
LEMMA StepShapes ==
  ASSUME OutShape, TypeOK, HeapInv, phase = "terms", heap # << >>, NEW s, NEW row,
         Written(s, row), IsNewRow(row, s)
  PROVE  OutShape'
  <1> DEFINE t == heap[1].term
             new == [term |-> t, from |-> { <<c, cursor[c]>> : c \in From }]
  <1>1. row.documents \in Listed /\ row.counts \in Listed /\ row.df \in Nat /\ Merger!TermOccurrences(s) \in Nat
    <2>1. \A q \in Seq(Nat) : Len(q) \in Nat
      OBVIOUS
    <2> QED BY <2>1, SumType DEF IsNewRow, AreRow
  <1>2. t \in Int
    <2>1. heap \in Seq(Entries) /\ phase # "titles"
      BY DEF HeapInv, OneEach
    <2>2. heap[1] \in Entries
      BY <2>1
    <2> QED BY <2>2 DEF Entries
  <1>3. Len(merged') = Len(merged) + 1
    BY DEF Written, TypeOK
  <1>4. offsets.doc + Merger!DocumentBytes(row.documents) \in Nat
        /\ offsets.count + Merger!CountBytes(row.counts) \in Nat
    <2>1. /\ Merger!DocumentBytes(row.documents) \in Nat /\ Merger!CountBytes(row.counts) \in Nat
          /\ offsets.doc \in Nat /\ offsets.count \in Nat
      BY <1>1, BytesAre DEF OutShape
    <2> QED BY <2>1
  <1> HIDE DEF t
  <1>5. ASSUME NEW S, NEW q \in Seq(S), Len(q) = Len(merged), NEW x \in S
        PROVE  Append(q, x) \in Seq(S) /\ Len(Append(q, x)) = Len(merged) + 1
    BY <1>5
  <1>11. /\ out.terms \in Seq(Int) /\ out.documents \in Seq(Listed) /\ out.counts \in Seq(Listed)
         /\ out.dfs \in Seq(Nat) /\ out.occurrences \in Seq(Nat)
         /\ Len(out.terms) = Len(merged) /\ Len(out.documents) = Len(merged)
         /\ Len(out.counts) = Len(merged)
         /\ Len(out.dfs) = Len(merged) /\ Len(out.occurrences) = Len(merged)
    BY DEF OutShape
  <1>12. /\ offsets.documents \in Seq(Nat) /\ offsets.counts \in Seq(Nat)
         /\ offsets.doc \in Nat /\ offsets.count \in Nat
         /\ Len(offsets.documents) = Len(merged) /\ Len(offsets.counts) = Len(merged)
    BY DEF OutShape
  <1>6. /\ Append(out.terms, t) \in Seq(Int) /\ Len(Append(out.terms, t)) = Len(merged) + 1
        /\ Append(out.documents, row.documents) \in Seq(Listed)
        /\ Len(Append(out.documents, row.documents)) = Len(merged) + 1
        /\ Append(out.counts, row.counts) \in Seq(Listed)
        /\ Len(Append(out.counts, row.counts)) = Len(merged) + 1
        /\ Append(out.dfs, row.df) \in Seq(Nat) /\ Len(Append(out.dfs, row.df)) = Len(merged) + 1
        /\ Append(out.occurrences, Merger!TermOccurrences(s)) \in Seq(Nat)
        /\ Len(Append(out.occurrences, Merger!TermOccurrences(s))) = Len(merged) + 1
    <2>1. Append(out.terms, t) \in Seq(Int) /\ Len(Append(out.terms, t)) = Len(merged) + 1
      BY <1>2, <1>5, <1>11
    <2>2. /\ Append(out.documents, row.documents) \in Seq(Listed)
          /\ Len(Append(out.documents, row.documents)) = Len(merged) + 1
      BY <1>1, <1>5, <1>11
    <2>3. /\ Append(out.counts, row.counts) \in Seq(Listed)
          /\ Len(Append(out.counts, row.counts)) = Len(merged) + 1
      BY <1>1, <1>5, <1>11
    <2>4. Append(out.dfs, row.df) \in Seq(Nat) /\ Len(Append(out.dfs, row.df)) = Len(merged) + 1
      BY <1>1, <1>5, <1>11
    <2>5. /\ Append(out.occurrences, Merger!TermOccurrences(s)) \in Seq(Nat)
          /\ Len(Append(out.occurrences, Merger!TermOccurrences(s))) = Len(merged) + 1
      BY <1>1, <1>5, <1>11
    <2> QED BY <2>1, <2>2, <2>3, <2>4, <2>5
  <1>7. /\ Append(offsets.documents, offsets.doc) \in Seq(Nat)
        /\ Len(Append(offsets.documents, offsets.doc)) = Len(merged) + 1
        /\ Append(offsets.counts, offsets.count) \in Seq(Nat)
        /\ Len(Append(offsets.counts, offsets.count)) = Len(merged) + 1
    BY <1>5, <1>12
  <1>8. /\ out'.terms = Append(out.terms, t) /\ out'.documents = Append(out.documents, row.documents)
        /\ out'.counts = Append(out.counts, row.counts) /\ out'.dfs = Append(out.dfs, row.df)
        /\ out'.occurrences = Append(out.occurrences, Merger!TermOccurrences(s))
        /\ out' = [ terms |-> out'.terms, documents |-> out'.documents, counts |-> out'.counts,
                    dfs |-> out'.dfs, occurrences |-> out'.occurrences, titles |-> out'.titles,
                    sizes |-> out'.sizes, properties |-> out'.properties ]
    BY DEF Written, t
  <1>9. /\ offsets'.documents = Append(offsets.documents, offsets.doc)
        /\ offsets'.counts = Append(offsets.counts, offsets.count)
        /\ offsets'.doc = offsets.doc + Merger!DocumentBytes(row.documents)
        /\ offsets'.count = offsets.count + Merger!CountBytes(row.counts)
        /\ offsets' = [ documents |-> offsets'.documents, counts |-> offsets'.counts,
                        doc |-> offsets'.doc, count |-> offsets'.count ]
    BY DEF Written
  <1>10. Listed' = Listed
    BY DEF Listed
  <1> QED BY <1>3, <1>4, <1>6, <1>7, <1>8, <1>9, <1>10, Zenon DEF OutShape

-----------------------------------------------------------------------------
(* The last element of a sequence, and those before it.                    *)
LEMMA LastOf ==
  ASSUME NEW S, NEW q \in Seq(S), NEW x \in S, NEW n, Len(q) = n
  PROVE  /\ n \in Nat /\ DOMAIN q = 1..n /\ DOMAIN Append(q, x) = 1..n + 1
         /\ Append(q, x)[n + 1] = x
         /\ \A i \in 1..n : Append(q, x)[i] = q[i]
  OBVIOUS

(* What a step appends, and that it leaves the rest.                       *)
Appends(row, s) ==
  LET n == Len(merged)
  IN  /\ n \in Nat /\ Len(merged') = n + 1
      /\ DOMAIN merged = 1..n /\ DOMAIN merged' = 1..n + 1
      /\ DOMAIN out.terms = 1..n /\ DOMAIN out'.terms = 1..n + 1
      /\ \A i \in 1..n : /\ merged'[i] = merged[i] /\ out'.terms[i] = out.terms[i]
                         /\ out'.documents[i] = out.documents[i] /\ out'.counts[i] = out.counts[i]
                         /\ out'.dfs[i] = out.dfs[i] /\ out'.occurrences[i] = out.occurrences[i]
                         /\ offsets'.documents[i] = offsets.documents[i]
                         /\ offsets'.counts[i] = offsets.counts[i]
      /\ merged'[n + 1].term = heap[1].term
      /\ merged'[n + 1].from = { <<c, cursor[c]>> : c \in From }
      /\ out'.terms[n + 1] = heap[1].term
      /\ out'.documents[n + 1] = row.documents /\ out'.counts[n + 1] = row.counts
      /\ out'.dfs[n + 1] = row.df /\ out'.occurrences[n + 1] = Merger!TermOccurrences(s)
      /\ offsets'.documents[n + 1] = offsets.doc /\ offsets'.counts[n + 1] = offsets.count
      /\ offsets'.doc = offsets.doc + Merger!DocumentBytes(row.documents)
      /\ offsets'.count = offsets.count + Merger!CountBytes(row.counts)

(* So every column ends with what the step has written.                    *)
LEMMA StepAppends ==
  ASSUME OutShape, TypeOK, TypeOK', OutShape', phase = "terms", heap # << >>, HeapInv, NEW s, NEW row,
         Written(s, row), IsNewRow(row, s)
  PROVE  Appends(row, s)
  <1> DEFINE n == Len(merged)
             t == heap[1].term
             new == [term |-> t, from |-> { <<c, cursor[c]>> : c \in From }]
  <1>1. row.documents \in Listed /\ row.counts \in Listed /\ row.df \in Nat /\ Merger!TermOccurrences(s) \in Nat
    <2>1. \A q \in Seq(Nat) : Len(q) \in Nat
      OBVIOUS
    <2> QED BY <2>1, SumType DEF IsNewRow, AreRow
  <1>2. t \in Int
    <2>1. heap \in Seq(Entries) /\ phase # "titles"
      BY DEF HeapInv, OneEach
    <2>2. heap[1] \in Entries
      BY <2>1
    <2> QED BY <2>2 DEF Entries
  <1>3. merged' = Append(merged, new)
    BY DEF Written
  <1>4. PICK R : merged \in Seq(R) /\ new \in R
    <2> DEFINE R == Row \cup {new}
    <2>1. merged \in Seq(Row)
      BY DEF TypeOK, Row
    <2> HIDE DEF new
    <2>2. merged \in Seq(R) /\ new \in R
      BY <2>1
    <2> QED BY <2>2
  <1>5. /\ out'.terms = Append(out.terms, t) /\ out'.documents = Append(out.documents, row.documents)
        /\ out'.counts = Append(out.counts, row.counts) /\ out'.dfs = Append(out.dfs, row.df)
        /\ out'.occurrences = Append(out.occurrences, Merger!TermOccurrences(s))
    BY DEF Written
  <1>6. /\ offsets'.documents = Append(offsets.documents, offsets.doc)
        /\ offsets'.counts = Append(offsets.counts, offsets.count)
        /\ offsets'.doc = offsets.doc + Merger!DocumentBytes(row.documents)
        /\ offsets'.count = offsets.count + Merger!CountBytes(row.counts)
    BY DEF Written
  <1>7. /\ out.terms \in Seq(Int) /\ out.documents \in Seq(Listed) /\ out.counts \in Seq(Listed)
        /\ out.dfs \in Seq(Nat) /\ out.occurrences \in Seq(Nat)
        /\ Len(out.terms) = n /\ Len(out.documents) = n /\ Len(out.counts) = n
        /\ Len(out.dfs) = n /\ Len(out.occurrences) = n
    BY DEF OutShape
  <1>8. /\ offsets.documents \in Seq(Nat) /\ offsets.counts \in Seq(Nat)
        /\ offsets.doc \in Nat /\ offsets.count \in Nat
        /\ Len(offsets.documents) = n /\ Len(offsets.counts) = n
    BY DEF OutShape
  <1>9. new.term = t /\ new.from = { <<c, cursor[c]>> : c \in From }
    OBVIOUS
  <1>10. Len(merged) = n /\ Len(merged') = n + 1
    BY <1>3, <1>4
  <1> HIDE DEF n, t, new
  <1>11. /\ n \in Nat /\ DOMAIN merged = 1..n /\ DOMAIN merged' = 1..n + 1 /\ merged'[n + 1] = new
         /\ \A i \in 1..n : merged'[i] = merged[i]
    BY <1>3, <1>4, <1>10, LastOf
  <1>12. /\ DOMAIN out.terms = 1..n /\ DOMAIN out'.terms = 1..n + 1 /\ out'.terms[n + 1] = t
         /\ \A i \in 1..n : out'.terms[i] = out.terms[i]
    <2>1. out.terms \in Seq(Int) /\ Len(out.terms) = n /\ out'.terms = Append(out.terms, t)
      BY <1>5, <1>7
    <2> QED BY <2>1, <1>2, LastOf
  <1>13. /\ out'.documents[n + 1] = row.documents
         /\ \A i \in 1..n : out'.documents[i] = out.documents[i]
    BY <1>1, <1>5, <1>7, LastOf
  <1>14. /\ out'.counts[n + 1] = row.counts
         /\ \A i \in 1..n : out'.counts[i] = out.counts[i]
    BY <1>1, <1>5, <1>7, LastOf
  <1>15. /\ out'.dfs[n + 1] = row.df
         /\ \A i \in 1..n : out'.dfs[i] = out.dfs[i]
    BY <1>1, <1>5, <1>7, LastOf
  <1>16. /\ out'.occurrences[n + 1] = Merger!TermOccurrences(s)
         /\ \A i \in 1..n : out'.occurrences[i] = out.occurrences[i]
    BY <1>1, <1>5, <1>7, LastOf
  <1>17. /\ offsets'.documents[n + 1] = offsets.doc
         /\ \A i \in 1..n : offsets'.documents[i] = offsets.documents[i]
    BY <1>6, <1>8, LastOf
  <1>18. /\ offsets'.counts[n + 1] = offsets.count
         /\ \A i \in 1..n : offsets'.counts[i] = offsets.counts[i]
    BY <1>6, <1>8, LastOf
  <1> QED BY <1>6, <1>9, <1>10, <1>11, <1>12, <1>13, <1>14, <1>15, <1>16, <1>17, <1>18 DEF Appends, n, t

(* merge_term keeps what is known of the rows and of where they start.     *)
LEMMA StepRows ==
  ASSUME RowsInv, TypeOK, TypeOK', HeapInv, phase = "terms", heap # << >>, NEW s, NEW row,
         Written(s, row), IsNewRow(row, s)
  PROVE  RowsInv'
  <1>0. PICK n : n = Len(merged)
    OBVIOUS
  <1>1. OutShape /\ OutShape'
    BY StepShapes DEF RowsInv
  <1>2. Appends(row, s)
    BY <1>1, StepAppends
  <1>3. n \in Nat /\ Len(merged') = n + 1 /\ DOMAIN merged = 1..n /\ DOMAIN merged' = 1..n + 1
        /\ n + 1 \in 1..n + 1 /\ \A i \in 1..n : i \in 1..n + 1
    BY <1>0, <1>2 DEF Appends
  <1>4. indices' = indices
    BY DEF Written
  <1>5. ASSUME NEW m \in 1..n PROVE RowAt(m)'
    <2>1. /\ out'.documents[m] = out.documents[m] /\ out'.counts[m] = out.counts[m]
          /\ out'.terms[m] = out.terms[m] /\ merged'[m] = merged[m]
          /\ out'.dfs[m] = out.dfs[m] /\ out'.occurrences[m] = out.occurrences[m]
      BY <1>0, <1>2 DEF Appends
    <2>2. RowAt(m)
      BY <1>3 DEF RowsInv
    <2> QED BY <2>1, <2>2, <1>4, Zenon DEF RowAt, RowsOf, Docs, Counts
  <1>6. RowAt(n + 1)'
    <2>1. /\ out'.documents[n + 1] = row.documents /\ out'.counts[n + 1] = row.counts
          /\ out'.terms[n + 1] = heap[1].term /\ merged'[n + 1].term = heap[1].term
          /\ out'.dfs[n + 1] = row.df /\ out'.occurrences[n + 1] = Merger!TermOccurrences(s)
          /\ merged'[n + 1].from = { <<c, cursor[c]>> : c \in From }
      BY <1>0, <1>2 DEF Appends
    <2> DEFINE D == row.documents.values
               C == row.counts.values
               from == { <<c, cursor[c]>> : c \in From }
    <2>2. /\ AreRow(D, C) /\ Ascends(D) /\ row.df = Len(D)
          /\ Merger!TermOccurrences(s) = SumOf(C)
          /\ \A a : a \in Merger!PairsIn(D, C) <=>
                      \E c \in From : a \in Merger!PairsIn(Docs(c, cursor[c]), Counts(c, cursor[c]))
      BY DEF IsNewRow
    <2>3. ASSUME NEW a
          PROVE  (\E c \in From : a \in Merger!PairsIn(Docs(c, cursor[c]), Counts(c, cursor[c])))
                   <=> \E e \in from : a \in Merger!PairsIn(Docs(e[1], e[2]), Counts(e[1], e[2]))
      <3>1. \A c \in From : /\ <<c, cursor[c]>> \in from
                            /\ <<c, cursor[c]>>[1] = c /\ <<c, cursor[c]>>[2] = cursor[c]
        OBVIOUS
      <3>2. \A e \in from : \E c \in From : e[1] = c /\ e[2] = cursor[c]
        OBVIOUS
      <3> HIDE DEF from
      <3> QED BY <3>1, <3>2, Zenon
    <2>4. \A a : a \in Merger!PairsIn(D, C) <=>
                   \E e \in from : a \in Merger!PairsIn(indices'[e[1]].documents[e[2]], indices'[e[1]].counts[e[2]])
      BY <2>2, <2>3, <1>4 DEF Docs, Counts
    <2>6. \A e \in from : e[1] \in DOMAIN indices' /\ e[2] \in 1..Len(indices'[e[1]].terms)
      <3>1. \A e \in from : \E c \in From : e[1] = c /\ e[2] = cursor[c]
        OBVIOUS
      <3>2. \A c \in From : c \in DOMAIN indices /\ cursor[c] \in RowsOf(c)
        BY DEF IsNewRow
      <3> HIDE DEF from
      <3> QED BY <3>1, <3>2, <1>4, Zenon DEF RowsOf
    <2> HIDE DEF D, C, from
    <2>5. /\ out'.documents[n + 1].values = D /\ out'.counts[n + 1].values = C
          /\ merged'[n + 1].from = from
      BY <2>1 DEF D, C, from
    <2> QED BY <2>1, <2>2, <2>4, <2>5, <2>6, Zenon DEF RowAt, RowsOf, Docs, Counts
  <1>7. ASSUME NEW m \in 0..n PROVE DocBytes(m)' = DocBytes(m) /\ CntBytes(m)' = CntBytes(m)
    <2>1. \A k \in 1..m : k \in 1..n /\ out'.documents[k] = out.documents[k] /\ out'.counts[k] = out.counts[k]
      BY <1>0, <1>2, <1>3 DEF Appends
    <2>2. [k \in 1..m |-> Merger!DocumentBytes(out'.documents[k])] = [k \in 1..m |-> Merger!DocumentBytes(out.documents[k])]
      BY <2>1
    <2>3. [k \in 1..m |-> Merger!CountBytes(out'.counts[k])] = [k \in 1..m |-> Merger!CountBytes(out.counts[k])]
      BY <2>1
    <2> QED BY <2>2, <2>3, Zenon DEF DocBytes, CntBytes, Merger!DocumentBytes, Merger!CountBytes
  <1>8. DocBytes(n + 1)' = DocBytes(n) + Merger!DocumentBytes(row.documents)
    <2> DEFINE f == [k \in 1..n + 1 |-> Merger!DocumentBytes(out'.documents[k])]
               g == [k \in 1..n |-> Merger!DocumentBytes(out.documents[k])]
    <2>1. DOMAIN f = 1..n + 1 /\ DOMAIN g = 1..n /\ (\A k \in 1..n : g[k] = f[k])
          /\ f[n + 1] = Merger!DocumentBytes(row.documents)
      BY <1>0, <1>2, <1>3 DEF Appends
    <2>2. DocBytes(n + 1)' = SumOf(f) /\ DocBytes(n) = SumOf(g)
      BY DEF DocBytes, Merger!DocumentBytes
    <2> HIDE DEF f, g
    <2> QED BY <2>1, <2>2, <1>3, SumStep
  <1>9. CntBytes(n + 1)' = CntBytes(n) + Merger!CountBytes(row.counts)
    <2> DEFINE f == [k \in 1..n + 1 |-> Merger!CountBytes(out'.counts[k])]
               g == [k \in 1..n |-> Merger!CountBytes(out.counts[k])]
    <2>1. DOMAIN f = 1..n + 1 /\ DOMAIN g = 1..n /\ (\A k \in 1..n : g[k] = f[k])
          /\ f[n + 1] = Merger!CountBytes(row.counts)
      BY <1>0, <1>2, <1>3 DEF Appends
    <2>2. CntBytes(n + 1)' = SumOf(f) /\ CntBytes(n) = SumOf(g)
      BY DEF CntBytes, Merger!CountBytes
    <2> HIDE DEF f, g
    <2> QED BY <2>1, <2>2, <1>3, SumStep
  <1>10. ASSUME NEW m \in 1..n PROVE StartsAt(m)'
    <2>1. m - 1 \in 0..n
      BY <1>3
    <2>2. offsets'.documents[m] = offsets.documents[m] /\ offsets'.counts[m] = offsets.counts[m]
      BY <1>0, <1>2 DEF Appends
    <2>3. StartsAt(m)
      BY <1>3 DEF RowsInv
    <2> QED BY <2>1, <2>2, <2>3, <1>7 DEF StartsAt
  <1>11. StartsAt(n + 1)'
    <2>1. n + 1 - 1 = n /\ n \in 0..n
      BY <1>3
    <2>2. offsets'.documents[n + 1] = offsets.doc /\ offsets'.counts[n + 1] = offsets.count
      BY <1>0, <1>2 DEF Appends
    <2>3. offsets.doc = DocBytes(n) /\ offsets.count = CntBytes(n)
      BY <1>0 DEF RowsInv
    <2> QED BY <2>1, <2>2, <2>3, <1>7 DEF StartsAt
  <1>12. (offsets.doc = DocBytes(Len(merged)))' /\ (offsets.count = CntBytes(Len(merged)))'
    <2>1. /\ offsets'.doc = offsets.doc + Merger!DocumentBytes(row.documents)
          /\ offsets'.count = offsets.count + Merger!CountBytes(row.counts)
      BY <1>0, <1>2 DEF Appends
    <2>2. offsets.doc = DocBytes(n) /\ offsets.count = CntBytes(n)
      BY <1>0 DEF RowsInv
    <2> QED BY <2>1, <2>2, <1>0, <1>3, <1>8, <1>9
  <1>13. \A m \in 1..n + 1 : m \in 1..n \/ m = n + 1
    BY <1>3
  <1> QED BY <1>1, <1>3, <1>5, <1>6, <1>10, <1>11, <1>12, <1>13 DEF RowsInv

-----------------------------------------------------------------------------
(* The counts of a document add up to a number.                            *)
LEMMA CountsAre ==
  ASSUME RowsInv, TypeOK, NEW d
  PROVE  Merger!CountsOf(d) \in Int
  <1> DEFINE n == Len(merged)
             f == [m \in 1..n |-> Merger!CountIn(out.documents[m].values, out.counts[m].values, d)]
  <1>1. n \in Nat /\ DOMAIN merged = 1..n
    BY DEF TypeOK
  <1>2. DOMAIN out.terms = 1..n
    BY <1>1 DEF RowsInv, OutShape
  <1>3. \A m \in 1..n : f[m] \in Int
    <2>1. ASSUME NEW m \in 1..n PROVE f[m] \in Int
      <3>1. AreRow(out.documents[m].values, out.counts[m].values)
        BY <1>1 DEF RowsInv, RowAt
      <3>2. Merger!CountIn(out.documents[m].values, out.counts[m].values, d) \in Nat
        BY <3>1, CountIs
      <3> QED BY <3>2
    <2> QED BY <2>1
  <1>4. Merger!CountsOf(d) = SumOf(f)
    BY <1>2, SameSum, Zenon DEF Merger!CountsOf
  <1>5. DOMAIN f = 1..n
    OBVIOUS
  <1> HIDE DEF f, n
  <1> QED BY <1>1, <1>3, <1>4, <1>5, SumInt

(* merge_term adds to the counts of a document those of the row that       *)
(* goes.                                                                   *)
LEMMA StepCounts ==
  ASSUME CountsInv, RowsInv, TypeOK, indices \in Inputs, DOMAIN indices = Batches, NEW s, NEW row,
         indices' = indices, IsNewRow(row, s), Appends(row, s),
         cursor' = [b \in Batches |-> IF b \in From THEN cursor[b] + 1 ELSE cursor[b]]
  PROVE  CountsInv'
  <1>0. PICK n : n = Len(merged)
    OBVIOUS
  <1> DEFINE D == row.documents.values
             C == row.counts.values
  <1>1. /\ n \in Nat /\ DOMAIN out.terms = 1..n /\ DOMAIN out'.terms = 1..n + 1
        /\ \A i \in 1..n : out'.documents[i] = out.documents[i] /\ out'.counts[i] = out.counts[i]
        /\ out'.documents[n + 1] = row.documents /\ out'.counts[n + 1] = row.counts
    BY <1>0 DEF Appends
  <1>2. ASSUME NEW d PROVE Merger!CountsOf(d)' = Merger!CountsOf(d) + Merger!CountIn(D, C, d)
    <2> DEFINE f == [m \in 1..n + 1 |-> Merger!CountIn(out'.documents[m].values, out'.counts[m].values, d)]
               g == [m \in 1..n |-> Merger!CountIn(out.documents[m].values, out.counts[m].values, d)]
    <2>1. DOMAIN f = 1..n + 1 /\ DOMAIN g = 1..n /\ (\A m \in 1..n : g[m] = f[m])
          /\ f[n + 1] = Merger!CountIn(D, C, d)
      <3>1. n + 1 \in 1..n + 1 /\ \A m \in 1..n : m \in 1..n + 1
        BY <1>1
      <3> QED BY <3>1, <1>1
    <2>2. Merger!CountsOf(d)' = SumOf(f) /\ Merger!CountsOf(d) = SumOf(g)
      BY <1>1, SameSum, Zenon DEF Merger!CountsOf
    <2> HIDE DEF f, g, D, C
    <2>3. SumOf(f) = SumOf(g) + f[n + 1]
      BY <2>1, <1>1, SumStep
    <2> QED BY <2>1, <2>2, <2>3, Zenon
  <1> SUFFICES ASSUME NEW b \in DOMAIN indices, NEW d, InBatch(d, b)
               PROVE  Merger!CountsOf(d)' = Before(b, cursor[b] - 1, d)'
    <2>1. \A b, d : InBatch(d, b)' <=> InBatch(d, b)
      BY DEF InBatch, Merger!Shift
    <2>2. (DOMAIN indices)' = DOMAIN indices
      OBVIOUS
    <2> QED BY <2>1, <2>2 DEF CountsInv
  <1>3. PICK k, l : k = cursor[b] /\ l = cursor'[b]
    OBVIOUS
  <1>4. k \in Nat \ {0} /\ l = IF b \in From THEN k + 1 ELSE k
    BY <1>3 DEF TypeOK
  <1>5. \A m : Before(b, m, d)' = Before(b, m, d)
    BY DEF Before, Docs, Counts
  <1>6. Merger!CountsOf(d) = Before(b, k - 1, d)
    BY <1>3 DEF CountsInv
  <1>7. Merger!CountIn(D, C, d) = IF b \in From THEN Merger!CountIn(Docs(b, k), Counts(b, k), d) ELSE 0
    BY <1>3 DEF IsNewRow
  <1>8. Before(b, k, d) = Before(b, k - 1, d) + Merger!CountIn(Docs(b, k), Counts(b, k), d)
    <2> DEFINE f == [r \in 1..k |-> Merger!CountIn(Docs(b, r), Counts(b, r), d)]
               g == [r \in 1..k - 1 |-> Merger!CountIn(Docs(b, r), Counts(b, r), d)]
    <2>1. k - 1 \in Nat /\ k - 1 + 1 = k /\ k \in 1..k /\ \A r \in 1..k - 1 : r \in 1..k
      BY <1>4
    <2>2. DOMAIN f = 1..k - 1 + 1 /\ DOMAIN g = 1..k - 1 /\ (\A r \in 1..k - 1 : g[r] = f[r])
          /\ f[k - 1 + 1] = Merger!CountIn(Docs(b, k), Counts(b, k), d)
      BY <2>1
    <2>3. Before(b, k, d) = SumOf(f) /\ Before(b, k - 1, d) = SumOf(g)
      BY DEF Before
    <2> HIDE DEF f, g
    <2>4. SumOf(f) = SumOf(g) + f[k - 1 + 1]
      BY <2>1, <2>2, SumStep
    <2> QED BY <2>2, <2>3, <2>4
  <1>9. Merger!CountsOf(d) \in Int
    BY CountsAre
  <1>10. Before(b, l - 1, d) = Merger!CountsOf(d) + Merger!CountIn(D, C, d)
    <2>1. CASE b \in From
      <3>1. l - 1 = k
        BY <2>1, <1>4
      <3> QED BY <3>1, <2>1, <1>6, <1>7, <1>8
    <2>2. CASE b \notin From
      BY <2>2, <1>4, <1>6, <1>7, <1>9
    <2> QED BY <2>1, <2>2
  <1>11. Before(b, cursor[b] - 1, d)' = Before(b, l - 1, d)
    BY <1>3, Zenon DEF Before, Docs, Counts
  <1> QED BY <1>2, <1>10, <1>11

-----------------------------------------------------------------------------
(* The titles of the batches, one batch after the other.                   *)
LEMMA TitlesJoin ==
  ASSUME indices \in Inputs
  PROVE  Merger!FlattenSeq([b \in DOMAIN indices |-> indices[b].titles]) = [d \in 1..Total |-> d - 1]
  <1> DEFINE n == Len(indices)
             S(b) == Merger!Shift(b)
             s == [b \in 1..n |-> indices[b].titles]
             Upto(m) == [d \in 1..m |-> d - 1]
  <1>1. n \in Nat /\ DOMAIN indices = 1..n /\ S(1) = 0 /\ Total = S(n + 1)
    BY Shifts DEF Total
  <1>2. \A b \in 1..n : /\ S(b) \in Nat /\ Size(b) \in Nat /\ S(b + 1) = S(b) + Size(b)
                        /\ s[b] = [i \in 1..Size(b) |-> S(b) + i - 1]
    BY <1>1, Shifts, BatchRow
  <1> HIDE DEF S
  <1>3. s \in Seq(Seq(Nat)) /\ Len(s) = n
    <2>1. \A b \in 1..n : s[b] \in Seq(Nat)
      <3>1. ASSUME NEW b \in 1..n PROVE s[b] \in Seq(Nat)
        <4>1. PICK p, q, t : p = S(b) /\ q = Size(b) /\ t = s[b]
          OBVIOUS
        <4>2. p \in Nat /\ q \in Nat /\ t = [i \in 1..q |-> p + i - 1]
          BY <4>1, <1>2
        <4>3. \A i \in 1..q : p + i - 1 \in Nat
          BY <4>2
        <4>4. t \in Seq(Nat)
          BY <4>2, <4>3
        <4> QED BY <4>1, <4>4
      <3> QED BY <3>1
    <2> QED BY <2>1, <1>1
  <1> HIDE DEF n, s
  <1>4. PICK F : IsFlattening(F, s)
    BY <1>3, Flattening
  <1> DEFINE Holds == { k \in Nat : k <= n => F[k] = Upto(S(k + 1)) }
  <1>5. 0 \in Holds
    <2>1. Upto(0) = << >>
      OBVIOUS
    <2> QED BY <2>1, <1>1, <1>4 DEF IsFlattening
  <1>6. ASSUME NEW k \in Nat, k \in Holds PROVE k + 1 \in Holds
    <2> SUFFICES ASSUME k + 1 <= n PROVE F[k + 1] = Upto(S(k + 1 + 1))
      OBVIOUS
    <2>1. PICK b : b = k + 1
      OBVIOUS
    <2>2. b \in 1..n /\ k = b - 1 /\ F[k] = Upto(S(b))
      BY <2>1, <1>1, <1>6
    <2>3. F[b] = Then(F[b - 1], s[b])
      BY <2>2, <1>3, <1>4 DEF IsFlattening
    <2>4. Joins(Upto(S(b + 1)), Upto(S(b)), s[b], S(b), Size(b))
      <3>0. PICK p, q : p = S(b) /\ q = Size(b)
        OBVIOUS
      <3>1. p \in Nat /\ q \in Nat /\ S(b + 1) = p + q /\ s[b] = [i \in 1..q |-> p + i - 1]
        BY <3>0, <2>2, <1>2
      <3>2. /\ Upto(p) \in Seq(Nat) /\ Upto(p + q) \in Seq(Nat) /\ [i \in 1..q |-> p + i - 1] \in Seq(Nat)
        <4>1. /\ \A d \in 1..p : d - 1 \in Nat
              /\ \A d \in 1..p + q : d - 1 \in Nat
              /\ \A i \in 1..q : p + i - 1 \in Nat
          BY <3>1
        <4> QED BY <4>1, <3>1
      <3>3. /\ Len(Upto(p)) = p /\ Len(Upto(p + q)) = p + q /\ Len([i \in 1..q |-> p + i - 1]) = q
            /\ DOMAIN Upto(p) = 1..p /\ DOMAIN Upto(p + q) = 1..p + q
        BY <3>1
      <3>4. \A i \in 1..p : i \in 1..p + q /\ Upto(p + q)[i] = Upto(p)[i] /\ Upto(p)[i] \in Nat
        BY <3>1
      <3>5. \A i \in 1..q : /\ p + i \in 1..p + q /\ Upto(p + q)[p + i] = [j \in 1..q |-> p + j - 1][i]
                            /\ [j \in 1..q |-> p + j - 1][i] \in Nat
        BY <3>1
      <3>6. ASSUME NEW k2 \in 1..p + q PROVE k2 \in 1..p \/ \E i \in 1..q : k2 = p + i
        <4>1. k2 \notin 1..p => k2 - p \in 1..q /\ k2 = p + (k2 - p)
          BY <3>1
        <4> QED BY <4>1
      <3> HIDE DEF Upto
      <3>7. PICK u, v, w : u = Upto(p + q) /\ v = Upto(p) /\ w = [i \in 1..q |-> p + i - 1]
        OBVIOUS
      <3>8. Joins(u, v, w, p, q)
        <4>1. u \in Seq(Nat) /\ v \in Seq(Nat) /\ w \in Seq(Nat)
          BY <3>2, <3>7
        <4>2. Len(v) = p /\ Len(w) = q /\ Len(u) = p + q /\ DOMAIN v = 1..p /\ DOMAIN u = 1..p + q
          BY <3>3, <3>7
        <4>3. DOMAIN w = 1..q
          BY <4>1, <4>2
        <4>4. \A i \in 1..p : i \in 1..p + q /\ u[i] = v[i] /\ v[i] \in Nat
          BY <3>4, <3>7
        <4>5. \A i \in 1..q : p + i \in 1..p + q /\ u[p + i] = w[i] /\ w[i] \in Nat
          BY <3>5, <3>7
        <4> QED BY <4>1, <4>2, <4>3, <4>4, <4>5, <3>1, <3>6, Zenon DEF Joins
      <3> QED BY <3>0, <3>1, <3>7, <3>8
    <2> HIDE DEF Upto
    <2>5. Upto(S(b + 1)) = Then(Upto(S(b)), s[b])
      BY <2>4, IsThen
    <2> QED BY <2>1, <2>2, <2>3, <2>5
  <1>7. n \in Holds
    <2> HIDE DEF Holds
    <2> QED BY <1>1, <1>5, <1>6, InductionFrom0
  <1>8. FlattenSeq(s) = Upto(Total)
    BY <1>1, <1>3, <1>4, <1>7 DEF IsFlattening
  <1>9. Merger!FlattenSeq(s) = FlattenSeq(s)
    BY SameFlattening, Zenon DEF SameFlatten
  <1> QED BY <1>1, <1>8, <1>9 DEF s

-----------------------------------------------------------------------------
TitlesInv == phase # "titles" => out.titles = [d \in 1..Total |-> d - 1]

IsCopied(b) ==
  \A i \in 1..Size(b) : out.sizes[Merger!Shift(b) + i] = indices[b].sizes[i]

SizesInv ==
  /\ phase \in {"titles", "terms", "sizes", "done"} /\ copying \subseteq DOMAIN indices
  /\ phase \in {"sizes", "done"} =>
       /\ heap = << >>
       /\ out.sizes = [d \in 1..Total |-> out.sizes[d]]
       /\ \A b \in DOMAIN indices \ copying : IsCopied(b)
  /\ phase = "done" => /\ copying = {}
                       /\ out.properties[1].occurrences = Merger!Sum(out.occurrences)

(* Everything that the files of the merged index keep.                     *)
FilesInv == RowsInv /\ CountsInv /\ TitlesInv /\ SizesInv

(* The columns of the merged index, which only merge_term changes.         *)
SameColumns ==
  /\ UNCHANGED <<indices, offsets, merged, cursor>>
  /\ out' = [ terms |-> out.terms, documents |-> out.documents, counts |-> out.counts,
              dfs |-> out.dfs, occurrences |-> out.occurrences, titles |-> out'.titles,
              sizes |-> out'.sizes, properties |-> out'.properties ]

(* A step that leaves the columns alone keeps what is known of the rows.   *)
LEMMA KeepsRows ==
  ASSUME RowsInv, CountsInv, SameColumns
  PROVE  RowsInv' /\ CountsInv'
  <1>1. /\ out'.terms = out.terms /\ out'.documents = out.documents /\ out'.counts = out.counts
        /\ out'.dfs = out.dfs /\ out'.occurrences = out.occurrences
        /\ out' = [ terms |-> out'.terms, documents |-> out'.documents, counts |-> out'.counts,
              dfs |-> out'.dfs, occurrences |-> out'.occurrences, titles |-> out'.titles,
              sizes |-> out'.sizes, properties |-> out'.properties ]
    BY DEF SameColumns
  <1>2. indices' = indices /\ offsets' = offsets /\ merged' = merged /\ cursor' = cursor
    BY DEF SameColumns
  <1>3. OutShape'
    <2>1. OutShape /\ Listed' = Listed
      BY DEF RowsInv, Listed
    <2> QED BY <2>1, <1>1, <1>2, Zenon DEF OutShape
  <1>4. \A m : (RowAt(m)' <=> RowAt(m)) /\ (StartsAt(m)' <=> StartsAt(m))
               /\ DocBytes(m)' = DocBytes(m) /\ CntBytes(m)' = CntBytes(m)
    BY <1>1, <1>2, Zenon DEF RowAt, StartsAt, DocBytes, CntBytes, Docs, Counts, RowsOf,
                     Merger!DocumentBytes, Merger!CountBytes
  <1>5. RowsInv'
    BY <1>2, <1>3, <1>4 DEF RowsInv, DocBytes, CntBytes
  <1>6. ASSUME NEW b, NEW d
        PROVE  /\ InBatch(d, b)' <=> InBatch(d, b)
               /\ Merger!CountsOf(d)' = Merger!CountsOf(d)
               /\ Before(b, cursor[b] - 1, d)' = Before(b, cursor[b] - 1, d)
    BY <1>1, <1>2, Zenon DEF InBatch, Merger!Shift, Merger!CountsOf, Before, Docs, Counts
  <1>7. CountsInv'
    BY <1>2, <1>6 DEF CountsInv
  <1> QED BY <1>5, <1>7

-----------------------------------------------------------------------------
(* The batches do not change, and neither do their shifts.                 *)
LEMMA SameTotal ==
  ASSUME indices' = indices
  PROVE  Total' = Total /\ \A b : Merger!Shift(b)' = Merger!Shift(b) /\ Size(b)' = Size(b)
  BY Zenon DEF Total, Size, Merger!Shift

(* The steps of the merger, one by one.                                    *)
LEMMA StepTitles ==
  ASSUME FilesInv, HeapInv, Merger!merge_titles, cursor' = cursor
  PROVE  FilesInv'
  <1>1. /\ indices' = indices /\ offsets' = offsets /\ merged' = merged /\ phase' = "terms" /\ copying' = copying
        /\ out' = [out EXCEPT !.titles = Merger!FlattenSeq([b \in DOMAIN indices |-> indices[b].titles])]
    BY Zenon DEF Merger!merge_titles
  <1>2. out' = [out EXCEPT !.titles = [d \in 1..Total |-> d - 1]]
    BY <1>1, TitlesJoin DEF HeapInv
  <1>3. SameColumns /\ out'.titles = [d \in 1..Total |-> d - 1]
    <2>1. OutShape
      BY DEF FilesInv, RowsInv
    <2> QED BY <2>1, <1>1, <1>2 DEF SameColumns, OutShape
  <1>4. RowsInv' /\ CountsInv'
    BY <1>3, KeepsRows DEF FilesInv
  <1>5. TitlesInv'
    BY <1>1, <1>3, SameTotal DEF TitlesInv
  <1>6. SizesInv'
    BY <1>1 DEF SizesInv, FilesInv
  <1> QED BY <1>4, <1>5, <1>6 DEF FilesInv

(* The vector of zeros.                                                    *)
LEMMA StepAllocates ==
  ASSUME FilesInv, HeapInv, Merger!allocate_sizes, cursor' = cursor
  PROVE  FilesInv'
  <1>1. /\ indices' = indices /\ offsets' = offsets /\ merged' = merged /\ heap' = heap
        /\ phase = "terms" /\ phase' = "sizes" /\ heap = << >> /\ copying' = DOMAIN indices
        /\ out' = [out EXCEPT !.sizes = [d \in 1..Total |-> 0]]
    BY Zenon DEF Merger!allocate_sizes, Total
  <1>2. SameColumns /\ out'.sizes = [d \in 1..Total |-> 0] /\ out'.titles = out.titles
    <2>1. OutShape
      BY DEF FilesInv, RowsInv
    <2> HIDE DEF Total
    <2> QED BY <2>1, <1>1 DEF SameColumns, OutShape
  <1>3. RowsInv' /\ CountsInv'
    BY <1>2, KeepsRows DEF FilesInv
  <1>4. TitlesInv'
    BY <1>1, <1>2, SameTotal DEF TitlesInv, FilesInv
  <1>5. SizesInv'
    <2>1. PICK t : t = Total
      OBVIOUS
    <2>2. out'.sizes = [d \in 1..t |-> out'.sizes[d]] /\ Total' = t
      BY <2>1, <1>1, <1>2, SameTotal
    <2> QED BY <2>2, <1>1 DEF SizesInv
  <1> QED BY <1>3, <1>4, <1>5 DEF FilesInv

(* The sizes of one batch: they go where no other batch's go.              *)
LEMMA StepCopies ==
  ASSUME FilesInv, HeapInv, NEW b \in copying, Merger!copy_sizes(b), cursor' = cursor
  PROVE  FilesInv'
  <1> DEFINE sizes == indices[b].sizes
             before == Merger!Shift(b)
             new == [d \in DOMAIN out.sizes |-> IF d - before \in DOMAIN sizes
                                                THEN sizes[d - before] ELSE out.sizes[d]]
  <1>1. b \in DOMAIN indices /\ indices \in Inputs /\ copying \subseteq DOMAIN indices
    BY DEF HeapInv, FilesInv, SizesInv
  <1>2. /\ Merger!Shift(b) \in Nat /\ Size(b) \in Nat /\ Merger!Shift(b + 1) = Merger!Shift(b) + Size(b)
        /\ Merger!Shift(b + 1) <= Total /\ Total \in Nat
        /\ sizes \in Seq(Nat) /\ Len(sizes) = Size(b)
    BY <1>1, Shifts, BatchRow
  <1>3. Merger!PartialCount(b) - Len(sizes) = before
    BY <1>2 DEF Merger!PartialCount
  <1>4. /\ indices' = indices /\ offsets' = offsets /\ merged' = merged /\ heap' = heap
        /\ phase = "sizes" /\ phase' = phase /\ copying' = copying \ {b}
        /\ out' = [out EXCEPT !.sizes = new]
    <2>1. /\ indices' = indices /\ offsets' = offsets /\ merged' = merged /\ heap' = heap
          /\ phase = "sizes" /\ phase' = phase /\ copying' = copying \ {b}
      BY Zenon DEF Merger!copy_sizes
    <2>2. out' = [out EXCEPT !.sizes =
                   [d \in DOMAIN @ |-> IF d - (Merger!PartialCount(b) - Len(indices[b].sizes)) \in DOMAIN indices[b].sizes
                                       THEN indices[b].sizes[d - (Merger!PartialCount(b) - Len(indices[b].sizes))] ELSE @[d]]]
      BY Zenon DEF Merger!copy_sizes
    <2> QED BY <2>1, <2>2, <1>3, Zenon
  <1>5. SameColumns /\ out'.sizes = new /\ out'.titles = out.titles /\ out'.properties = out.properties
    <2>1. OutShape
      BY DEF FilesInv, RowsInv
    <2> HIDE DEF new
    <2> QED BY <2>1, <1>4 DEF SameColumns, OutShape
  <1>6. RowsInv' /\ CountsInv'
    BY <1>5, KeepsRows DEF FilesInv
  <1>7. TitlesInv'
    BY <1>4, <1>5, SameTotal DEF TitlesInv, FilesInv
  <1>8. DOMAIN out.sizes = 1..Total
    BY <1>4 DEF FilesInv, SizesInv
  <1>9. ASSUME NEW c \in DOMAIN indices, c \notin copying', NEW i \in 1..Size(c)
        PROVE  out'.sizes[Merger!Shift(c) + i] = indices[c].sizes[i]
    <2>1. PICK p, q, d : p = Merger!Shift(c) /\ q = Size(c) /\ d = Merger!Shift(c) + i
      OBVIOUS
    <2>2. p \in Nat /\ q \in Nat /\ d = p + i /\ i \in 1..q /\ d \in 1..Total
          /\ Merger!Shift(c + 1) = p + q
      <3>1. PICK t, w : t = Total /\ w = Merger!Shift(c + 1)
        OBVIOUS
      <3>2. p \in Nat /\ q \in Nat /\ w = p + q /\ w <= t /\ t \in Nat
        BY <2>1, <3>1, <1>1, Shifts
      <3> QED BY <2>1, <3>1, <3>2
    <2>3. out'.sizes[d] = IF d - before \in DOMAIN sizes THEN sizes[d - before] ELSE out.sizes[d]
      BY <2>2, <1>5, <1>8
    <2>4. CASE c = b
      <3>1. d - before = i /\ i \in DOMAIN sizes
        BY <2>4, <2>1, <2>2, <1>2
      <3> QED BY <3>1, <2>1, <2>3, <2>4
    <2>5. CASE c # b
      <3>1. d - before \notin DOMAIN sizes
        <4> SUFFICES ASSUME d - before \in DOMAIN sizes PROVE FALSE
          OBVIOUS
        <4>1. PICK m, w : m = Merger!Shift(b) /\ w = Size(b)
          OBVIOUS
        <4>2. m \in Nat /\ w \in Nat /\ d - m \in 1..w /\ Merger!Shift(b + 1) = m + w
          BY <4>1, <1>2
        <4>3. d - 1 \in Nat /\ m <= d - 1 /\ d - 1 < m + w /\ p <= d - 1 /\ d - 1 < p + q
          BY <4>2, <2>2
        <4>4. InBatch(d - 1, b) /\ InBatch(d - 1, c)
          BY <4>1, <4>2, <4>3, <2>1, <2>2 DEF InBatch
        <4> QED BY <4>4, <2>5, <1>1, OneBatch
      <3>2. out.sizes[d] = indices[c].sizes[i]
        <4>1. c \in DOMAIN indices \ copying
          BY <1>4, <1>9, <2>5
        <4>2. IsCopied(c)
          BY <4>1, <1>4 DEF FilesInv, SizesInv
        <4> QED BY <4>2, <2>1 DEF IsCopied
      <3> QED BY <3>1, <3>2, <2>1, <2>3
    <2> QED BY <2>4, <2>5
  <1>10. SizesInv'
    <2>1. PICK t : t = Total
      OBVIOUS
    <2>2. out'.sizes = [d \in 1..t |-> out'.sizes[d]] /\ Total' = t
      BY <2>1, <1>4, <1>5, <1>8, SameTotal
    <2>3. heap' = << >> /\ phase' = "sizes"
      BY <1>4 DEF FilesInv, SizesInv
    <2>4. ASSUME NEW c \in DOMAIN indices', c \notin copying' PROVE IsCopied(c)'
      <3>1. Merger!Shift(c)' = Merger!Shift(c) /\ Size(c)' = Size(c)
        BY <1>4, SameTotal
      <3> QED BY <3>1, <2>4, <1>4, <1>9 DEF IsCopied
    <2> QED BY <2>2, <2>3, <2>4, <1>1, <1>4 DEF SizesInv
  <1> QED BY <1>6, <1>7, <1>10 DEF FilesInv

(* The properties.                                                         *)
LEMMA StepProperties ==
  ASSUME FilesInv, HeapInv, Merger!write_properties, cursor' = cursor
  PROVE  FilesInv'
  <1>1. /\ indices' = indices /\ offsets' = offsets /\ merged' = merged /\ heap' = heap
        /\ phase = "sizes" /\ phase' = "done" /\ copying = {} /\ copying' = copying
    BY Zenon DEF Merger!write_properties
  <1>2. PICK p : /\ out' = [out EXCEPT !.properties = << p >>]
                 /\ p.occurrences = Merger!Sum(out.occurrences)
    <2> DEFINE p == [ documents |-> Len(out.sizes), occurrences |-> Merger!Sum(out.occurrences),
                      skip_block_size |-> block_size,
                      avg_document_size |-> << Merger!Sum(out.sizes), Len(out.sizes) >>,
                      max_document_size |-> CHOOSE m \in Merger!ToSet(out.sizes) :
                                              \A s \in Merger!ToSet(out.sizes) : s <= m ]
    <2>1. out' = [out EXCEPT !.properties = << p >>]
      BY Zenon DEF Merger!write_properties
    <2>2. p.occurrences = Merger!Sum(out.occurrences)
      OBVIOUS
    <2> QED BY <2>1, <2>2
  <1>3. /\ SameColumns /\ out'.sizes = out.sizes /\ out'.titles = out.titles
        /\ out'.properties = << p >> /\ out'.occurrences = out.occurrences
    <2>1. OutShape
      BY DEF FilesInv, RowsInv
    <2> QED BY <2>1, <1>1, <1>2 DEF SameColumns, OutShape
  <1>4. RowsInv' /\ CountsInv'
    BY <1>3, KeepsRows DEF FilesInv
  <1>5. TitlesInv'
    BY <1>1, <1>3, SameTotal DEF TitlesInv, FilesInv
  <1>6. SizesInv'
    <2>1. out'.properties[1].occurrences = Merger!Sum(out'.occurrences)
      BY <1>2, <1>3
    <2>2. Total' = Total /\ \A c : Merger!Shift(c)' = Merger!Shift(c) /\ Size(c)' = Size(c)
      BY <1>1, SameTotal
    <2>3. /\ heap = << >>
          /\ out.sizes = [d \in 1..Total |-> out.sizes[d]]
          /\ \A b \in DOMAIN indices \ copying : IsCopied(b)
      BY <1>1 DEF FilesInv, SizesInv
    <2>4. out'.sizes = [d \in 1..Total' |-> out'.sizes[d]]
      BY <2>2, <2>3, <1>3
    <2>5. \A c : IsCopied(c)' <=> IsCopied(c)
      BY <2>2, <1>1, <1>3, Zenon DEF IsCopied
    <2> QED BY <2>1, <2>3, <2>4, <2>5, <1>1 DEF SizesInv, FilesInv
  <1> QED BY <1>4, <1>5, <1>6 DEF FilesInv

(* And steps that change nothing.                                          *)
LEMMA StepRest ==
  ASSUME FilesInv, UNCHANGED <<Merger!vars, cursor>>
  PROVE  FilesInv'
  <1>1. /\ indices' = indices /\ offsets' = offsets /\ merged' = merged /\ heap' = heap
        /\ phase' = phase /\ copying' = copying /\ out' = out /\ cursor' = cursor
    BY DEF Merger!vars
  <1>2. SameColumns
    <2>1. OutShape
      BY DEF FilesInv, RowsInv
    <2> QED BY <2>1, <1>1, Zenon DEF SameColumns, OutShape
  <1>3. RowsInv' /\ CountsInv'
    BY <1>2, KeepsRows DEF FilesInv
  <1>4. Total' = Total /\ \A c : Merger!Shift(c)' = Merger!Shift(c) /\ Size(c)' = Size(c)
    BY <1>1, SameTotal
  <1>5. TitlesInv'
    BY <1>1, <1>4 DEF TitlesInv, FilesInv
  <1>6. SizesInv'
    <2>1. phase = "done" => Merger!Sum(out'.occurrences) = Merger!Sum(out.occurrences)
      BY <1>1
    <2>2. \A c : IsCopied(c)' <=> IsCopied(c)
      BY <1>1, <1>4, Zenon DEF IsCopied
    <2> QED BY <2>1, <2>2, <1>1, <1>4 DEF SizesInv, FilesInv
  <1> QED BY <1>3, <1>5, <1>6 DEF FilesInv

-----------------------------------------------------------------------------
(* The step that writes a row.                                             *)
LEMMA StepRow ==
  ASSUME FilesInv, HeapInv, TypeOK, TypeOK', Merger!merge_term,
         rows' = TermsOf(indices'), cursor' = [b \in DOMAIN indices' |-> Merger!CursorOf(b)']
  PROVE  FilesInv'
  <1>1. phase = "terms" /\ heap # << >>
    BY Zenon DEF Merger!merge_term
  <1>2. RowsInv /\ CountsInv /\ TitlesInv /\ SizesInv /\ OutShape
    BY DEF FilesInv, RowsInv
  <1>3. PICK s, row : Written(s, row)
    BY <1>1, <1>2, TermStep
  <1>4. IsNewRow(row, s)
    BY <1>1, <1>3, NewRowIs DEF Written
  <1>5. RowsInv' /\ OutShape'
    BY <1>1, <1>2, <1>3, <1>4, StepRows, StepShapes
  <1>6. Appends(row, s)
    BY <1>1, <1>2, <1>3, <1>4, <1>5, StepAppends
  <1>7. indices' = indices /\ copying' = copying /\ phase' = phase /\ out'.titles = out.titles
    BY <1>3 DEF Written
  <1>8. indices \in Inputs /\ DOMAIN indices = Batches
    BY DEF HeapInv, Batches, TermsOf
  <1>9. cursor' = [b \in Batches |-> IF b \in From THEN cursor[b] + 1 ELSE cursor[b]]
    BY <1>1, StepMerges
  <1>10. CountsInv'
    BY <1>2, <1>4, <1>6, <1>7, <1>8, <1>9, StepCounts
  <1>11. TitlesInv'
    BY <1>2, <1>7, SameTotal DEF TitlesInv
  <1>12. SizesInv'
    BY <1>1, <1>2, <1>7 DEF SizesInv
  <1> QED BY <1>5, <1>10, <1>11, <1>12 DEF FilesInv

(* At the start nothing is written.                                        *)
LEMMA InitFiles == MergerInit => FilesInv
  <1> SUFFICES ASSUME MergerInit PROVE FilesInv
    OBVIOUS
  <1>1. /\ indices \in Inputs /\ phase = "titles" /\ merged = << >> /\ copying = {}
        /\ cursor = [b \in DOMAIN indices |-> 1]
        /\ out = [ terms |-> << >>, documents |-> << >>, counts |-> << >>,
                   dfs |-> << >>, occurrences |-> << >>, titles |-> << >>,
                   sizes |-> << >>, properties |-> << >> ]
        /\ offsets = [ documents |-> << >>, counts |-> << >>, doc |-> 0, count |-> 0 ]
    BY DEF MergerInit, Merger!Init
  <1>2. OutShape
    BY <1>1 DEF OutShape
  <1>3. \A f : SumOf([k \in 1..0 |-> f[k]]) = 0
    <2>1. \A f : [k \in 1..0 |-> f[k]] = << >>
      OBVIOUS
    <2> QED BY <2>1, SumEmpty
  <1>4. DocBytes(0) = 0 /\ CntBytes(0) = 0
    <2>1. /\ [k \in 1..0 |-> Merger!DocumentBytes(out.documents[k])] = << >>
          /\ [k \in 1..0 |-> Merger!CountBytes(out.counts[k])] = << >>
      OBVIOUS
    <2> QED BY <2>1, SumEmpty DEF DocBytes, CntBytes
  <1>5. RowsInv
    <2>1. DOMAIN merged = {} /\ Len(merged) = 0 /\ offsets.doc = 0 /\ offsets.count = 0
      BY <1>1
    <2> QED BY <2>1, <1>2, <1>4 DEF RowsInv
  <1>6. CountsInv
    <2> SUFFICES ASSUME NEW b \in DOMAIN indices, NEW d
                 PROVE  Merger!CountsOf(d) = Before(b, cursor[b] - 1, d)
      BY DEF CountsInv
    <2>1. cursor[b] - 1 = 0
      BY <1>1
    <2>2. [r \in 1..0 |-> Merger!CountIn(Docs(b, r), Counts(b, r), d)] = << >>
      OBVIOUS
    <2>3. Before(b, 0, d) = 0
      BY <2>2, SumEmpty DEF Before
    <2>4. DOMAIN out.terms = 1..0
      BY <1>1
    <2>5. [m \in DOMAIN out.terms |-> Merger!CountIn(out.documents[m].values, out.counts[m].values, d)] = << >>
      BY <2>4
    <2>6. Merger!CountsOf(d) = 0
      BY <2>5, SameSum, SumEmpty DEF Merger!CountsOf
    <2> QED BY <2>1, <2>3, <2>6
  <1>7. TitlesInv /\ SizesInv
    BY <1>1 DEF TitlesInv, SizesInv
  <1> QED BY <1>5, <1>6, <1>7 DEF FilesInv

(* Every step of the merger keeps the invariant of the files.              *)
LEMMA StepFiles ==
  FilesInv /\ HeapInv /\ TypeOK /\ TypeOK' /\ [MergerNext]_<<Merger!vars, rows, cursor>> => FilesInv'
  <1> SUFFICES ASSUME FilesInv, HeapInv, TypeOK, TypeOK',
                      [MergerNext]_<<Merger!vars, rows, cursor>>
               PROVE  FilesInv'
    OBVIOUS
  <1>1. CASE UNCHANGED <<Merger!vars, rows, cursor>>
    BY <1>1, StepRest
  <1>2. CASE MergerNext
    <2>0. rows' = TermsOf(indices') /\ cursor' = [b \in DOMAIN indices' |-> Merger!CursorOf(b)']
      BY <1>2 DEF MergerNext
    <2>1. CASE Merger!merge_titles
      <3>1. cursor' = cursor
        BY <2>0, <2>1, StepStarts DEF vars
      <3> QED BY <2>1, <3>1, StepTitles
    <2>2. CASE Merger!merge_term
      BY <2>0, <2>2, StepRow
    <2>3. CASE Merger!allocate_sizes
      <3>1. /\ indices' = indices /\ heap' = heap /\ merged' = merged
            /\ phase # "titles" /\ phase' # "titles"
        BY <2>3 DEF Merger!allocate_sizes
      <3>2. cursor' = cursor
        BY <2>0, <3>1, StepElse DEF vars
      <3> QED BY <2>3, <3>2, StepAllocates
    <2>4. CASE \E b \in copying : Merger!copy_sizes(b)
      <3>1. PICK b \in copying : Merger!copy_sizes(b)
        BY <2>4
      <3>2. indices' = indices /\ heap' = heap /\ merged' = merged /\ phase' = phase
        BY <3>1 DEF Merger!copy_sizes
      <3>3. cursor' = cursor
        BY <2>0, <3>2, StepElse DEF vars
      <3> QED BY <3>1, <3>3, StepCopies
    <2>5. CASE Merger!write_properties
      <3>1. /\ indices' = indices /\ heap' = heap /\ merged' = merged
            /\ phase # "titles" /\ phase' # "titles"
        BY <2>5 DEF Merger!write_properties
      <3>2. cursor' = cursor
        BY <2>0, <3>1, StepElse DEF vars
      <3> QED BY <2>5, <3>2, StepProperties
    <2>6. CASE Merger!Returned
      <3>1. UNCHANGED Merger!vars
        BY <2>6 DEF Merger!Returned
      <3>2. indices' = indices /\ heap' = heap /\ merged' = merged /\ phase' = phase
        BY <3>1 DEF Merger!vars
      <3>3. cursor' = cursor
        BY <2>0, <3>2, StepElse DEF vars
      <3> QED BY <3>1, <3>3, StepRest
    <2> QED BY <1>2, <2>1, <2>2, <2>3, <2>4, <2>5, <2>6 DEF MergerNext, Merger!Next
  <1> QED BY <1>1, <1>2

(* What holds in every state of the merger.                                *)
MergerInv == HeapInv /\ FilesInv /\ TypeOK /\ EveryRowOnce

(* The invariant, in every state of the merger.                            *)
LEMMA MergerKeeps == MergerSpec => []MergerInv
  <1>1. MergerSpec => []HeapInv
    BY InitHeapInv, MergerStep, PTL DEF MergerSpec
  <1>2. MergerSpec => [](HeapInv /\ TypeOK /\ EveryRowOnce)
    BY <1>1, MergerKeepsRows, PTL
  <1>3. MergerSpec => []FilesInv
    BY <1>2, InitFiles, StepFiles, PTL DEF MergerSpec
  <1> QED BY <1>2, <1>3, PTL DEF MergerInv

-----------------------------------------------------------------------------
(* A document of a pair is one of the row.                                 *)
LEMMA PairsAre ==
  ASSUME NEW P, NEW Q, AreRow(P, Q)
  PROVE  /\ \A a \in Merger!PairsIn(P, Q) : a[1] \in Contents(P)
         /\ \A d \in Contents(P) : \E a \in Merger!PairsIn(P, Q) : a[1] = d
  <1>1. ASSUME NEW a \in Merger!PairsIn(P, Q) PROVE a[1] \in Contents(P)
    <2>1. PICK i \in DOMAIN P : a = <<P[i], Q[i]>>
      BY DEF Merger!PairsIn
    <2>2. a[1] = P[i]
      BY <2>1
    <2> QED BY <2>2 DEF Contents
  <1>2. ASSUME NEW d \in Contents(P) PROVE \E a \in Merger!PairsIn(P, Q) : a[1] = d
    <2>1. PICK i \in DOMAIN P : d = P[i]
      BY DEF Contents
    <2>2. <<P[i], Q[i]>> \in Merger!PairsIn(P, Q) /\ <<P[i], Q[i]>>[1] = d
      BY <2>1 DEF Merger!PairsIn
    <2> QED BY <2>2
  <1> QED BY <1>1, <1>2

(* The rows that a merged row was made of.                                 *)
LEMMA MadeOf ==
  ASSUME MergerInv, NEW m \in DOMAIN merged
  PROVE  /\ AreRow(out.documents[m].values, out.counts[m].values)
         /\ \A e \in merged[m].from :
              /\ e[1] \in DOMAIN indices /\ e[2] \in RowsOf(e[1]) /\ e = <<e[1], e[2]>>
              /\ indices[e[1]].terms[e[2]] = out.terms[m]
         /\ \A a : a \in Merger!RowPostings(m) <=>
                     \E e \in merged[m].from : a \in Merger!PairsIn(Docs(e[1], e[2]), Counts(e[1], e[2]))
  <1>1. /\ AreRow(out.documents[m].values, out.counts[m].values) /\ out.terms[m] = merged[m].term
        /\ \A e \in merged[m].from : e[1] \in DOMAIN indices /\ e[2] \in RowsOf(e[1])
        /\ \A a : a \in Merger!PairsIn(out.documents[m].values, out.counts[m].values) <=>
                    \E e \in merged[m].from : a \in Merger!PairsIn(Docs(e[1], e[2]), Counts(e[1], e[2]))
    <2>1. RowAt(m)
      BY DEF MergerInv, FilesInv, RowsInv
    <2> QED BY <2>1, Zenon DEF RowAt
  <1>2. ASSUME NEW e \in merged[m].from
        PROVE  e = <<e[1], e[2]>> /\ indices[e[1]].terms[e[2]] = out.terms[m]
    <2>1. e = <<e[1], e[2]>>
      <3>1. merged \in Seq(Row)
        BY DEF MergerInv, TypeOK, Row
      <3>2. merged[m] \in Row
        BY <3>1
      <3>3. merged[m].from \in SUBSET (Batches \X (Nat \ {0}))
        BY <3>2 DEF Row
      <3> QED BY <3>3
    <2>2. PICK b, r : b = e[1] /\ r = e[2]
      OBVIOUS
    <2>3. b \in DOMAIN indices /\ r \in 1..Len(indices[b].terms) /\ <<b, r>> \in merged[m].from
      BY <2>1, <2>2, <1>1 DEF RowsOf
    <2>4. Batches = DOMAIN indices /\ rows[b] = indices[b].terms
      BY <2>3 DEF MergerInv, HeapInv, TermsOf, Batches
    <2>5. merged[m].term = rows[b][r]
      BY <2>3, <2>4 DEF MergerInv, EveryRowOnce
    <2> QED BY <2>1, <2>2, <2>4, <2>5, <1>1
  <1> QED BY <1>1, <1>2 DEF Merger!RowPostings

(* So the postings of the batches and of the rows are the same.            *)
LEMMA PostingOnce == MergerInv => Merger!EveryPostingOnce
  <1> SUFFICES ASSUME MergerInv PROVE Merger!EveryPostingOnce
    OBVIOUS
  <1>1. /\ indices \in Inputs /\ rows = TermsOf(indices) /\ DOMAIN out.terms = DOMAIN merged
        /\ cursor = [b \in DOMAIN indices |-> Merger!CursorOf(b)]
    <2>1. DOMAIN out.terms = DOMAIN merged
      BY DEF MergerInv, FilesInv, RowsInv, OutShape, TypeOK
    <2> QED BY <2>1 DEF MergerInv, HeapInv
  <1>2. ASSUME NEW b \in DOMAIN indices, NEW r \in RowsOf(b), NEW m \in DOMAIN merged, NEW n \in DOMAIN merged,
               <<b, r>> \in merged[m].from, <<b, r>> \in merged[n].from
        PROVE  m = n
    <2>1. b \in Batches /\ r \in 1..Len(rows[b])
      BY <1>1 DEF Batches, TermsOf, RowsOf
    <2> QED BY <2>1, <1>2 DEF MergerInv, EveryRowOnce
  <1>3. ASSUME NEW m \in DOMAIN out.terms, NEW n \in DOMAIN out.terms, m # n,
               out.terms[m] = out.terms[n]
        PROVE  Merger!RowPostings(m) \cap Merger!RowPostings(n) = {}
    <2> SUFFICES ASSUME NEW a, a \in Merger!RowPostings(m), a \in Merger!RowPostings(n) PROVE FALSE
      OBVIOUS
    <2>1. PICK e \in merged[m].from : a \in Merger!PairsIn(Docs(e[1], e[2]), Counts(e[1], e[2]))
      BY <1>1, MadeOf
    <2>2. PICK f \in merged[n].from : a \in Merger!PairsIn(Docs(f[1], f[2]), Counts(f[1], f[2]))
      BY <1>1, MadeOf
    <2>3. PICK b, r, c, s : b = e[1] /\ r = e[2] /\ c = f[1] /\ s = f[2]
      OBVIOUS
    <2>4. /\ b \in DOMAIN indices /\ r \in RowsOf(b) /\ <<b, r>> \in merged[m].from
          /\ indices[b].terms[r] = out.terms[m]
      BY <2>3, <1>1, MadeOf
    <2>5. /\ c \in DOMAIN indices /\ s \in RowsOf(c) /\ <<c, s>> \in merged[n].from
          /\ indices[c].terms[s] = out.terms[n]
      BY <2>3, <1>1, MadeOf
    <2>6. InBatch(a[1], b)
      BY <2>1, <2>3, <2>4, <1>1, BatchRow, PairsAre
    <2>7. InBatch(a[1], c)
      BY <2>2, <2>3, <2>5, <1>1, BatchRow, PairsAre
    <2>8. b = c
      BY <2>4, <2>5, <2>6, <2>7, <1>1, OneBatch
    <2>9. r = s
      <3>1. indices[b].terms[r] = indices[b].terms[s] /\ s \in RowsOf(b)
        BY <2>4, <2>5, <2>8, <1>3
      <3>2. \A i, j \in RowsOf(b) : i # j => indices[b].terms[i] # indices[b].terms[j]
        BY <1>1, <2>4, BatchRow
      <3> QED BY <3>1, <3>2, <2>4
    <2> QED BY <2>4, <2>5, <2>8, <2>9, <1>1, <1>2, <1>3
  <1>4. ASSUME phase \in {"sizes", "done"}, NEW t, NEW a
        PROVE  a \in Merger!Postings(t) <=>
                 \E m \in DOMAIN out.terms : out.terms[m] = t /\ a \in Merger!RowPostings(m)
    <2>1. a \in Merger!Postings(t) <=>
            \E b \in DOMAIN indices : \E r \in RowsOf(b) :
              indices[b].terms[r] = t /\ a \in Merger!PairsIn(Docs(b, r), Counts(b, r))
      <3>1. a \in Merger!Postings(t) <=>
              \E b \in DOMAIN indices : \E r \in DOMAIN indices[b].terms :
                indices[b].terms[r] = t /\ a \in Merger!PairsIn(Docs(b, r), Counts(b, r))
        BY DEF Merger!Postings, Docs, Counts
      <3>2. \A b \in DOMAIN indices : DOMAIN indices[b].terms = RowsOf(b)
        BY <1>1, BatchRow
      <3> QED BY <3>1, <3>2
    <2>2. ASSUME NEW b \in DOMAIN indices, NEW r \in RowsOf(b), indices[b].terms[r] = t,
                 a \in Merger!PairsIn(Docs(b, r), Counts(b, r))
          PROVE  \E m \in DOMAIN out.terms : out.terms[m] = t /\ a \in Merger!RowPostings(m)
      <3>1. cursor[b] = Len(indices[b].terms) + 1
        <4>1. heap = << >> /\ phase # "titles"
          BY <1>4 DEF MergerInv, FilesInv, SizesInv
        <4>2. Merger!CursorOf(b) = Len(indices[b].terms) + 1
          BY <4>1 DEF Merger!CursorOf, Merger!term_count
        <4> QED BY <4>2, <1>1
      <3>2. Len(indices[b].terms) \in Nat
        BY <1>1, BatchRow
      <3>3. b \in Batches /\ rows[b] = indices[b].terms /\ r \in 1..Len(rows[b]) /\ r < cursor[b]
        BY <3>1, <3>2, <1>1 DEF Batches, TermsOf, RowsOf
      <3>4. PICK m \in DOMAIN merged : <<b, r>> \in merged[m].from
        BY <3>3 DEF MergerInv, EveryRowOnce
      <3>5. merged[m].term = t
        BY <3>3, <3>4, <2>2 DEF MergerInv, EveryRowOnce
      <3>6. <<b, r>>[1] = b /\ <<b, r>>[2] = r
        OBVIOUS
      <3>7. a \in Merger!RowPostings(m)
        BY <3>4, <3>6, <2>2, MadeOf
      <3>8. out.terms[m] = t
        BY <3>4, <3>6, <2>2, MadeOf
      <3> QED BY <3>7, <3>8, <1>1
    <2>3. ASSUME NEW m \in DOMAIN out.terms, out.terms[m] = t, a \in Merger!RowPostings(m)
          PROVE  \E b \in DOMAIN indices : \E r \in RowsOf(b) :
                   indices[b].terms[r] = t /\ a \in Merger!PairsIn(Docs(b, r), Counts(b, r))
      <3>1. PICK e \in merged[m].from : a \in Merger!PairsIn(Docs(e[1], e[2]), Counts(e[1], e[2]))
        BY <1>1, <2>3, MadeOf
      <3>2. e[1] \in DOMAIN indices /\ e[2] \in RowsOf(e[1]) /\ indices[e[1]].terms[e[2]] = t
        BY <1>1, <2>3, MadeOf
      <3> QED BY <3>1, <3>2
    <2> QED BY <2>1, <2>2, <2>3
  <1>5. ASSUME phase \in {"sizes", "done"}, NEW t
        PROVE  Merger!Postings(t) =
                 UNION { Merger!RowPostings(m) : m \in { m \in DOMAIN out.terms : out.terms[m] = t } }
    BY <1>4, <1>5
  <1> QED BY <1>3, <1>5, Zenon DEF Merger!EveryPostingOnce

-----------------------------------------------------------------------------
(* The counts of a row, document by document.                              *)
LEMMA CountsAll ==
  ASSUME NEW D, NEW C, AreRow(D, C), NEW n \in Nat, \A d \in Contents(D) : d < n
  PROVE  SumOf([d \in 1..n |-> Merger!CountIn(D, C, d - 1)]) = SumOf(C)
  <1> DEFINE k == Len(D)
             y == [d \in 1..n |-> [i \in 1..k |-> IF D[i] = d - 1 THEN C[i] ELSE 0]]
  <1>1. /\ k \in Nat /\ DOMAIN D = 1..k /\ DOMAIN C = 1..k
        /\ \A i \in 1..k : D[i] \in Nat /\ C[i] \in Nat /\ D[i] < n
    <2>1. k \in Nat /\ DOMAIN D = 1..k /\ DOMAIN C = 1..k /\ \A i \in 1..k : D[i] \in Nat /\ C[i] \in Nat
      BY DEF AreRow
    <2>2. \A i \in 1..k : D[i] \in Contents(D)
      BY <2>1 DEF Contents
    <2> QED BY <2>1, <2>2
  <1>2. \A d \in 1..n : \A i \in 1..k : y[d][i] = (IF D[i] = d - 1 THEN C[i] ELSE 0) /\ y[d][i] \in Int
    BY <1>1
  <1> HIDE DEF y, k
  <1>3. ASSUME NEW d \in 1..n PROVE Merger!CountIn(D, C, d - 1) = RowSum(y, d, k)
    <2>1. [j \in 1..k |-> y[d][j]] = Weights(D, C, d - 1)
      BY <1>1, <1>2 DEF Weights
    <2> QED BY <2>1, CountIs DEF RowSum
  <1>4. ASSUME NEW i \in 1..k PROVE C[i] = ColumnSum(y, i, n)
    <2> DEFINE f == [d \in 1..n |-> y[d][i]]
    <2>1. PICK j : j = D[i] + 1
      OBVIOUS
    <2>2. j \in 1..n /\ f[j] = C[i] /\ f[j] \in Int
      BY <2>1, <1>1, <1>2
    <2>3. \A d \in 1..n : d # j => f[d] = 0
      BY <2>1, <1>1, <1>2
    <2>4. DOMAIN f = 1..n /\ ColumnSum(y, i, n) = SumOf(f)
      BY DEF ColumnSum
    <2> HIDE DEF f
    <2>5. SumOf(f) = f[j]
      BY <2>2, <2>3, <2>4, SumOnly
    <2> QED BY <2>2, <2>4, <2>5
  <1>5. SumOf([d \in 1..n |-> RowSum(y, d, k)]) = SumOf([i \in 1..k |-> ColumnSum(y, i, n)])
    BY <1>1, <1>2, SumExchange
  <1>6. [d \in 1..n |-> Merger!CountIn(D, C, d - 1)] = [d \in 1..n |-> RowSum(y, d, k)]
    BY <1>3
  <1>7. C = [i \in 1..k |-> ColumnSum(y, i, n)]
    <2>1. C = [i \in 1..k |-> C[i]]
      BY <1>1 DEF AreRow
    <2> QED BY <2>1, <1>4
  <1> QED BY <1>5, <1>6, <1>7

(* In a finished index a size is the sum of the counts of its document.    *)
LEMMA SizeIsCounts ==
  ASSUME MergerInv, phase = "done", NEW d \in 1..Total
  PROVE  out.sizes[d] = Merger!CountsOf(d - 1)
  <1>1. /\ indices \in Inputs /\ heap = << >> /\ copying = {}
        /\ cursor = [b \in DOMAIN indices |-> Merger!CursorOf(b)]
        /\ \A b \in DOMAIN indices : IsCopied(b)
    BY DEF MergerInv, HeapInv, FilesInv, SizesInv
  <1>2. PICK x, t : x = d - 1 /\ t = Total
    OBVIOUS
  <1>3. t \in Nat /\ x \in Nat /\ x < t /\ d = x + 1
    BY <1>1, <1>2, Shifts
  <1>4. PICK b \in DOMAIN indices : InBatch(x, b)
    BY <1>1, <1>2, <1>3, SomeBatch
  <1>5. PICK p, q, i, n : /\ p = Merger!Shift(b) /\ q = Size(b) /\ i = d - Merger!Shift(b)
                          /\ n = Len(indices[b].terms)
    OBVIOUS
  <1>6. p \in Nat /\ q \in Nat /\ p <= x /\ x < p + q /\ i = d - p
    BY <1>1, <1>4, <1>5, Shifts DEF InBatch
  <1>7. i \in 1..q /\ p + i = d /\ p + i - 1 = x
    BY <1>3, <1>6
  <1>8. out.sizes[d] = indices[b].sizes[i]
    BY <1>1, <1>5, <1>7 DEF IsCopied
  <1>9. indices[b].sizes[i] = Before(b, n, x)
    <2>1. indices[b].sizes[i] =
            SumOf([r \in RowsOf(b) |-> Merger!CountIn(Docs(b, r), Counts(b, r), p + i - 1)])
      <3>1. \A j \in 1..Size(b) :
              indices[b].sizes[j] =
                SumOf([r \in RowsOf(b) |->
                         Merger!CountIn(Docs(b, r), Counts(b, r), Merger!Shift(b) + j - 1)])
        BY <1>1, BatchRow
      <3> QED BY <3>1, <1>5, <1>7, Zenon
    <2> QED BY <2>1, <1>5, <1>7 DEF Before, RowsOf
  <1>10. cursor[b] - 1 = n
    <2>1. cursor[b] = n + 1
      BY <1>1, <1>5 DEF Merger!CursorOf, Merger!term_count
    <2>2. n \in Nat
      BY <1>1, <1>5, BatchRow
    <2> QED BY <2>1, <2>2
  <1>11. Merger!CountsOf(x) = Before(b, cursor[b] - 1, x)
    BY <1>4 DEF MergerInv, FilesInv, CountsInv
  <1> QED BY <1>2, <1>8, <1>9, <1>10, <1>11

-----------------------------------------------------------------------------
(* The occurrences of the merged rows, document by document.               *)
LEMMA OccurrencesAre ==
  ASSUME MergerInv, phase = "done"
  PROVE  Merger!Sum(out.occurrences) = Merger!Sum(out.sizes)
  <1> DEFINE n == Len(merged)
             x == [m \in 1..n |-> [d \in 1..Total |->
                    Merger!CountIn(out.documents[m].values, out.counts[m].values, d - 1)]]
  <1>1. /\ indices \in Inputs /\ n \in Nat /\ DOMAIN merged = 1..n /\ DOMAIN out.terms = 1..n
        /\ DOMAIN out.occurrences = 1..n /\ out.sizes = [d \in 1..Total |-> out.sizes[d]]
    <2>1. n \in Nat /\ DOMAIN merged = 1..n
      BY DEF MergerInv, TypeOK
    <2>2. DOMAIN out.terms = 1..n /\ DOMAIN out.occurrences = 1..n
      BY <2>1 DEF MergerInv, FilesInv, RowsInv, OutShape
    <2> QED BY <2>1, <2>2 DEF MergerInv, HeapInv, FilesInv, SizesInv
  <1>2. PICK t : t = Total /\ t \in Nat
    BY <1>1, Shifts
  <1>3. ASSUME NEW m \in 1..n
        PROVE  /\ AreRow(out.documents[m].values, out.counts[m].values)
               /\ out.occurrences[m] = SumOf(out.counts[m].values)
    BY <1>1 DEF MergerInv, FilesInv, RowsInv, RowAt
  <1>4. ASSUME NEW m \in 1..n, NEW d \in 1..t
        PROVE  /\ x[m][d] = Merger!CountIn(out.documents[m].values, out.counts[m].values, d - 1)
               /\ x[m][d] \in Int
    BY <1>2, <1>3, CountIs
  <1> HIDE DEF x
  <1>5. ASSUME NEW m \in 1..n PROVE out.occurrences[m] = RowSum(x, m, t)
    <2> DEFINE D == out.documents[m].values
               C == out.counts[m].values
    <2>1. \A d \in Contents(D) : d < t
      <3>1. ASSUME NEW d \in Contents(D) PROVE d < t
        <4>1. PICK a : a \in Merger!PairsIn(D, C) /\ a[1] = d
          BY <1>3, PairsAre
        <4>2. PICK e \in merged[m].from : a \in Merger!PairsIn(Docs(e[1], e[2]), Counts(e[1], e[2]))
          BY <4>1, <1>1, MadeOf DEF Merger!RowPostings
        <4>3. PICK b, r : b = e[1] /\ r = e[2]
          OBVIOUS
        <4>4. b \in DOMAIN indices /\ r \in RowsOf(b)
          BY <4>3, <1>1, MadeOf
        <4>5. InBatch(d, b)
          BY <4>1, <4>2, <4>3, <4>4, <1>1, BatchRow, PairsAre
        <4>6. Merger!Shift(b + 1) <= t /\ Merger!Shift(b + 1) \in Nat
          BY <4>4, <1>1, <1>2, Shifts
        <4> QED BY <4>5, <4>6, <1>2 DEF InBatch
      <3> QED BY <3>1
    <2>2. SumOf([d \in 1..t |-> Merger!CountIn(D, C, d - 1)]) = SumOf(C)
      BY <2>1, <1>2, <1>3, CountsAll
    <2>3. [d \in 1..t |-> x[m][d]] = [d \in 1..t |-> Merger!CountIn(D, C, d - 1)]
      BY <1>4
    <2> QED BY <2>2, <2>3, <1>3 DEF RowSum
  <1>6. ASSUME NEW d \in 1..t PROVE out.sizes[d] = ColumnSum(x, d, n)
    <2>1. [m \in 1..n |-> x[m][d]] =
            [m \in DOMAIN out.terms |-> Merger!CountIn(out.documents[m].values, out.counts[m].values, d - 1)]
      BY <1>1, <1>4
    <2>2. Merger!CountsOf(d - 1) = ColumnSum(x, d, n)
      BY <2>1, SameSum DEF Merger!CountsOf, ColumnSum
    <2> QED BY <2>2, <1>2, SizeIsCounts
  <1>7. SumOf([m \in 1..n |-> RowSum(x, m, t)]) = SumOf([d \in 1..t |-> ColumnSum(x, d, n)])
    BY <1>1, <1>2, <1>4, SumExchange
  <1>8. out.occurrences = [m \in 1..n |-> out.occurrences[m]]
    BY <1>1 DEF MergerInv, FilesInv, RowsInv, OutShape
  <1>9. out.occurrences = [m \in 1..n |-> RowSum(x, m, t)]
    BY <1>5, <1>8
  <1>10. out.sizes = [d \in 1..t |-> ColumnSum(x, d, n)]
    BY <1>1, <1>2, <1>6
  <1> HIDE DEF n
  <1> QED BY <1>7, <1>9, <1>10, SameSum

(* And the files agree.                                                    *)
LEMMA FilesDo == MergerInv => Merger!FilesAgree
  <1> SUFFICES ASSUME MergerInv PROVE Merger!FilesAgree
    OBVIOUS
  <1>1. DOMAIN out.terms = DOMAIN merged /\ indices \in Inputs
    BY DEF MergerInv, FilesInv, RowsInv, OutShape, TypeOK, HeapInv
  <1>2. Merger!RowsAgree
    <2> SUFFICES ASSUME NEW m \in DOMAIN merged
                 PROVE  Merger!IsRow(out.documents[m].values, out.counts[m].values, out.dfs[m], out.occurrences[m])
      BY <1>1 DEF Merger!RowsAgree
    <2>1. RowAt(m)
      BY DEF MergerInv, FilesInv, RowsInv
    <2> QED BY <2>1, SameSum, Zenon DEF RowAt, AreRow, Ascends, Merger!IsRow
  <1>3. Merger!OffsetsLocate
    <2> SUFFICES ASSUME NEW m \in DOMAIN merged
                 PROVE  /\ offsets.documents[m] = Merger!Sum([n \in 1..(m - 1) |-> Merger!DocumentBytes(out.documents[n])])
                        /\ offsets.counts[m] = Merger!Sum([n \in 1..(m - 1) |-> Merger!CountBytes(out.counts[n])])
      BY <1>1, Zenon DEF Merger!OffsetsLocate
    <2>1. StartsAt(m)
      BY DEF MergerInv, FilesInv, RowsInv
    <2> QED BY <2>1, SameSum, Zenon DEF StartsAt, DocBytes, CntBytes
  <1>4. Merger!DocumentsAgree
    <2> SUFFICES ASSUME phase = "done"
                 PROVE  /\ Len(out.titles) = Len(out.sizes)
                        /\ \A d \in DOMAIN out.sizes :
                             out.sizes[d] = Merger!CountsOf(d - 1) /\ out.titles[d] = d - 1
                        /\ out.properties[1].occurrences = Merger!Sum(out.sizes)
      BY Zenon DEF Merger!DocumentsAgree
    <2>1. PICK t : t = Total /\ t \in Nat
      BY <1>1, Shifts
    <2>2. /\ out.titles = [d \in 1..t |-> d - 1] /\ out.sizes = [d \in 1..t |-> out.sizes[d]]
          /\ out.properties[1].occurrences = Merger!Sum(out.occurrences)
      BY <2>1 DEF MergerInv, FilesInv, TitlesInv, SizesInv
    <2>3. Len(out.titles) = Len(out.sizes)
      <3>1. \A f : f = [d \in 1..t |-> f[d]] => Len(f) = t
        BY <2>1
      <3>2. out.titles = [d \in 1..t |-> out.titles[d]]
        BY <2>2
      <3>3. Len(out.titles) = t
        BY <3>1, <3>2
      <3>4. Len(out.sizes) = t
        BY <3>1, <2>2
      <3> QED BY <3>3, <3>4
    <2>4. \A d \in DOMAIN out.sizes : out.sizes[d] = Merger!CountsOf(d - 1) /\ out.titles[d] = d - 1
      <3>1. DOMAIN out.sizes = 1..t
        BY <2>2
      <3>2. \A d \in 1..t : out.titles[d] = d - 1
        BY <2>2
      <3>3. \A d \in 1..t : out.sizes[d] = Merger!CountsOf(d - 1)
        BY <2>1, SizeIsCounts
      <3> QED BY <3>1, <3>2, <3>3
    <2> QED BY <2>2, <2>3, <2>4, OccurrencesAre
  <1> QED BY <1>2, <1>3, <1>4 DEF Merger!FilesAgree

(* Every posting of the batches is in the merged index once the terms are  *)
(* merged, in one row only, and nothing else is, whatever order the heap   *)
(* starts in.                                                              *)
THEOREM MergerKeepsPostings == MergerSpec => []EveryPostingOnce
  <1>1. MergerInv => EveryPostingOnce
    BY PostingOnce DEF EveryPostingOnce
  <1> QED BY <1>1, MergerKeeps, PTL

(* The files of the merged index agree: documents, counts, frequencies and *)
(* occurrences of a row, the offsets with the lists, and the titles, sizes *)
(* and occurrences of the documents with the postings.                     *)
THEOREM MergedFilesAgree == MergerSpec => []FilesAgree
  <1>1. MergerInv => FilesAgree
    BY FilesDo DEF FilesAgree
  <1> QED BY <1>1, MergerKeeps, PTL
===============================================================================
