----------------------------- MODULE TopK_proofs -----------------------------
(***************************************************************************)
(* Proofs about TopK, for every k, every set of scores and any number of   *)
(* offers: the type invariant, TopIsBest, ThresholdIsKth and               *)
(* ThresholdNeverFalls.  None of them is inductive by itself: a rejected   *)
(* offer is no better than the held ones because of what the threshold is, *)
(* and the threshold is the lowest held score only while exactly k offers  *)
(* are held, and the lowest value before.  Inv is their conjunction, with  *)
(* the bound on the offers held.                                           *)
(*                                                                         *)
(* Then that the accumulator, with its heap, implements TopK.  HeapInv     *)
(* relates the entries of the heap to the offers; what push_heap and       *)
(* pop_heap do with it is proved in StdHeap_proofs.                        *)
(***************************************************************************)
EXTENDS TopKHeap, FiniteSetTheorems, TLAPS

Heaps == INSTANCE StdHeap_proofs WITH Less <- Accumulator!result_order

Held == IsFiniteSet(top) /\ Cardinality(top) <= K

(* What threshold_ is at any time: ThresholdIsKth, and what lets the next  *)
(* offer in while there is room.                                           *)
KthOrLowest ==
  IF Cardinality(top) = K
  THEN \E i \in top : threshold = seen[i] /\ \A j \in top : threshold <= seen[j]
  ELSE Cardinality(top) < K /\ threshold = Lowest

Inv == TypeOK /\ Held /\ TopIsBest /\ KthOrLowest

(* Appending a score changes none of those before it.                      *)
LEMMA AppendScore ==
  ASSUME NEW s \in Seq(Values), NEW v \in Values
  PROVE  /\ Append(s, v) \in Seq(Values)
         /\ DOMAIN Append(s, v) = DOMAIN s \cup {Len(s) + 1}
         /\ Append(s, v)[Len(s) + 1] = v
         /\ \A i \in DOMAIN s : Append(s, v)[i] = s[i]
         /\ Len(s) + 1 \notin DOMAIN s
  OBVIOUS

LEMMA ScoresAreIntegers ==
  /\ \A v \in Values : v \in Int /\ Lowest <= v
  /\ Lowest \in Int
  BY ValuesAssumption

(* The lowest score of a set of held offers is one number.                 *)
LEMMA LowestScore ==
  ASSUME TypeOK, NEW i \in LowestOf(seen, top)
  PROVE  i \in top /\ \A j \in top : seen[i] <= seen[j]
  BY DEF LowestOf

LEMMA InitInv == Init => Inv
  <1> SUFFICES ASSUME Init PROVE Inv
    OBVIOUS
  <1>1. TypeOK
    BY DEF Init, TypeOK
  <1>2. IsFiniteSet(top) /\ Cardinality(top) = 0
    BY FS_EmptySet DEF Init
  <1>3. Held /\ KthOrLowest
    BY <1>2, KAssumption DEF Held, KthOrLowest, Init
  <1>4. TopIsBest
    BY DEF Init, TopIsBest, RejectedAreNoBetter, HeldAreWorthy
  <1> QED BY <1>1, <1>3, <1>4 DEF Inv

LEMMA RejectInv ==
  ASSUME Inv, NEW v \in Values, Reject(v)
  PROVE  Inv' /\ threshold' >= threshold
  <1> USE DEF Inv, TypeOK
  <1>1. /\ seen' \in Seq(Values)
        /\ DOMAIN seen' = DOMAIN seen \cup {Len(seen) + 1}
        /\ seen'[Len(seen) + 1] = v
        /\ \A i \in DOMAIN seen : seen'[i] = seen[i]
    BY AppendScore DEF Reject
  <1>2. top' = top /\ threshold' = threshold
    BY DEF Reject
  <1>3. TypeOK'
    BY <1>1, <1>2
  <1>4. Held'
    BY <1>2 DEF Held
  <1>5. KthOrLowest'
    BY <1>1, <1>2 DEF KthOrLowest
  <1>6. RejectedAreNoBetter'
    <2> SUFFICES ASSUME NEW i \in DOMAIN seen' \ top'
                 PROVE  \/ seen'[i] \in {0, Lowest}
                        \/ Cardinality(top') = K /\ \A j \in top' : seen'[i] <= seen'[j]
      BY DEF RejectedAreNoBetter
    <2>1. CASE i \in DOMAIN seen
      BY <2>1, <1>1, <1>2 DEF TopIsBest, RejectedAreNoBetter
    <2>2. CASE i = Len(seen) + 1
      <3>1. v \in Int /\ threshold \in Int /\ Lowest <= v
        BY ScoresAreIntegers
      <3>2. CASE v = 0
        BY <2>2, <3>2, <1>1
      <3>3. CASE v <= threshold /\ Cardinality(top) = K
        <4>1. \A j \in top : threshold <= seen[j] /\ seen[j] \in Int
          BY <3>3, ScoresAreIntegers DEF KthOrLowest
        <4> QED BY <4>1, <3>1, <3>3, <2>2, <1>1, <1>2
      <3>4. CASE v <= threshold /\ Cardinality(top) # K
        BY <3>4, <3>1, <2>2, <1>1 DEF KthOrLowest
      <3> QED BY <3>2, <3>3, <3>4 DEF Reject
    <2> QED BY <2>1, <2>2, <1>1
  <1>7. threshold' >= threshold
    BY <1>2, ScoresAreIntegers
  <1>8. HeldAreWorthy'
    BY <1>1, <1>2 DEF TopIsBest, HeldAreWorthy
  <1> QED BY <1>3, <1>4, <1>5, <1>6, <1>7, <1>8 DEF TopIsBest

LEMMA FillInv ==
  ASSUME Inv, NEW v \in Values, Fill(v)
  PROVE  Inv' /\ threshold' >= threshold
  <1> USE DEF Inv, TypeOK
  <1>1. /\ seen' \in Seq(Values)
        /\ DOMAIN seen' = DOMAIN seen \cup {Len(seen) + 1}
        /\ seen'[Len(seen) + 1] = v
        /\ \A i \in DOMAIN seen : seen'[i] = seen[i]
        /\ Len(seen) + 1 \notin DOMAIN seen
    BY AppendScore DEF Fill
  <1>2. top' = top \cup {Len(seen) + 1}
    BY DEF Fill
  <1>3. IsFiniteSet(top') /\ Cardinality(top') = Cardinality(top) + 1
    BY <1>1, <1>2, FS_AddElement DEF Held
  <1>4. Cardinality(top) \in Nat /\ Cardinality(top) < K
    BY FS_CardinalityType DEF Held, Fill
  <1>5. threshold = Lowest
    BY <1>4, KAssumption DEF KthOrLowest
  <1>6. \A i \in top' : seen'[i] \in Values
    BY <1>1, <1>2
  <1>7. ASSUME Cardinality(top') = K
        PROVE  threshold' \in Values /\ KthOrLowest' /\ threshold' >= threshold
    <2>1. \E i \in top' : threshold' = seen'[i] /\ \A j \in top' : threshold' <= seen'[j]
      BY <1>7 DEF Fill, IsThreshold, LowestOf
    <2>2. threshold' \in Values
      BY <2>1, <1>6
    <2> QED BY <1>7, <2>1, <2>2, <1>5, ScoresAreIntegers DEF KthOrLowest
  <1>8. ASSUME Cardinality(top') # K
        PROVE  threshold' = Lowest /\ KthOrLowest' /\ threshold' >= threshold
    <2>1. threshold' = Lowest
      BY <1>5, <1>8 DEF Fill, IsThreshold
    <2>2. Cardinality(top') < K
      BY <1>3, <1>4, <1>8, KAssumption
    <2> QED BY <2>1, <2>2, <1>5, <1>8, ScoresAreIntegers DEF KthOrLowest
  <1>9. RejectedAreNoBetter'
    <2> SUFFICES ASSUME NEW i \in DOMAIN seen' \ top'
                 PROVE  seen'[i] \in {0, Lowest}
      BY DEF RejectedAreNoBetter
    <2>1. i \in DOMAIN seen \ top
      BY <1>1, <1>2
    <2> QED BY <2>1, <1>1, <1>4, KAssumption DEF TopIsBest, RejectedAreNoBetter
  <1>10. Held'
    BY <1>3, <1>4, KAssumption DEF Held
  <1>11. TypeOK'
    BY <1>1, <1>2, <1>7, <1>8
  <1>12. HeldAreWorthy'
    <2>1. v \notin {0, Lowest}
      BY <1>5, ScoresAreIntegers DEF Fill
    <2> QED BY <2>1, <1>1, <1>2 DEF TopIsBest, HeldAreWorthy
  <1> QED BY <1>7, <1>8, <1>9, <1>10, <1>11, <1>12 DEF TopIsBest

LEMMA ReplaceInv ==
  ASSUME Inv, NEW v \in Values, Replace(v)
  PROVE  Inv' /\ threshold' >= threshold
  <1> USE DEF Inv, TypeOK
  <1>1. /\ seen' \in Seq(Values)
        /\ DOMAIN seen' = DOMAIN seen \cup {Len(seen) + 1}
        /\ seen'[Len(seen) + 1] = v
        /\ \A i \in DOMAIN seen : seen'[i] = seen[i]
        /\ Len(seen) + 1 \notin DOMAIN seen
    BY AppendScore DEF Replace
  <1>2. PICK last \in LowestOf(seen, top) : top' = (top \ {last}) \cup {Len(seen) + 1}
    BY DEF Replace
  <1>3. last \in top /\ \A j \in top : seen[last] <= seen[j]
    BY <1>2 DEF LowestOf
  <1>4. IsFiniteSet(top') /\ Cardinality(top') = K
    <2>1. IsFiniteSet(top \ {last}) /\ Cardinality(top \ {last}) = Cardinality(top) - 1
      BY <1>3, FS_RemoveElement DEF Held
    <2>2. Len(seen) + 1 \notin top \ {last}
      BY <1>1
    <2>3. /\ IsFiniteSet((top \ {last}) \cup {Len(seen) + 1})
          /\ Cardinality((top \ {last}) \cup {Len(seen) + 1}) = Cardinality(top) - 1 + 1
      BY <2>1, <2>2, FS_AddElement
    <2>4. Cardinality(top) = K /\ K \in Nat
      BY KAssumption DEF Replace
    <2> QED BY <1>2, <2>3, <2>4
  <1>5. /\ v \in Int /\ seen[last] \in Int /\ threshold \in Int
        /\ \A j \in DOMAIN seen : seen[j] \in Int
    BY <1>3, ScoresAreIntegers
  <1>6. threshold = seen[last] /\ v > threshold
    <2>1. PICK i \in top : threshold = seen[i] /\ \A j \in top : threshold <= seen[j]
      BY DEF Replace, KthOrLowest
    <2> QED BY <2>1, <1>3, <1>5 DEF Replace
  <1>7. PICK i \in top' : threshold' = seen'[i] /\ \A j \in top' : threshold' <= seen'[j]
    BY <1>4 DEF Replace, IsThreshold, LowestOf
  <1>8. KthOrLowest' /\ Held'
    BY <1>4, <1>7, KAssumption DEF KthOrLowest, Held
  <1>9. TypeOK'
    BY <1>1, <1>2, <1>7
  <1>10. \A j \in top' : seen'[j] \in Int /\ seen'[j] >= seen[last]
    BY <1>1, <1>2, <1>3, <1>5, <1>6
  <1>11. threshold' >= threshold
    BY <1>6, <1>7, <1>10
  <1>12. RejectedAreNoBetter'
    <2> SUFFICES ASSUME NEW j \in DOMAIN seen' \ top'
                 PROVE  \/ seen'[j] \in {0, Lowest}
                        \/ \A m \in top' : seen'[j] <= seen'[m]
      BY <1>4 DEF RejectedAreNoBetter
    <2>1. j \in DOMAIN seen /\ (j = last \/ j \notin top)
      BY <1>1, <1>2
    <2>2. seen'[j] = seen[j] /\ seen[j] \in Int
      BY <2>1, <1>1, <1>5
    <2>3. CASE seen[j] \in {0, Lowest}
      BY <2>2, <2>3
    <2>4. CASE seen[j] <= seen[last]
      BY <2>2, <2>4, <1>5, <1>10
    <2> QED BY <2>1, <2>2, <2>3, <2>4, <1>3, <1>5 DEF TopIsBest, RejectedAreNoBetter
  <1>13. HeldAreWorthy'
    <2>1. v > Lowest
      <3>1. \A u \in Values : u \in Int /\ Lowest <= u
        BY ScoresAreIntegers
      <3> QED BY <3>1, <1>5, <1>6, <1>3, ScoresAreIntegers
    <2>2. v \notin {0, Lowest}
      BY <2>1, <1>5, ScoresAreIntegers DEF Replace
    <2> QED BY <2>2, <1>1, <1>2 DEF TopIsBest, HeldAreWorthy
  <1> QED BY <1>8, <1>9, <1>11, <1>12, <1>13 DEF TopIsBest

LEMMA NextInv ==
  ASSUME Inv, [Next]_vars
  PROVE  Inv' /\ threshold' >= threshold
  <1>1. CASE UNCHANGED vars
    BY <1>1, ScoresAreIntegers DEF vars, Inv, TypeOK, Held, TopIsBest, RejectedAreNoBetter,
                                   HeldAreWorthy, KthOrLowest
  <1>2. CASE Next
    BY <1>2, RejectInv, FillInv, ReplaceInv DEF Next
  <1> QED BY <1>1, <1>2

(* The invariant holds of every execution.                                 *)
THEOREM Invariance == Spec => []Inv
  BY InitInv, NextInv, PTL DEF Spec

(* The offers held are offers that were made, and the threshold is a score.*)
THEOREM TypeCorrect == Spec => []TypeOK
  BY Invariance, PTL DEF Inv

(* accumulate(): no offer that was rejected or discarded is better than a  *)
(* held one, and none but worthless ones is rejected while there is room.  *)
THEOREM BestAreHeld == Spec => []TopIsBest
  BY Invariance, PTL DEF Inv

(* threshold() is the score of the k-th best offer from the k-th on.       *)
THEOREM ThresholdCorrect == Spec => []ThresholdIsKth
  <1>1. Inv => ThresholdIsKth
    BY DEF Inv, KthOrLowest, ThresholdIsKth
  <1> QED BY <1>1, Invariance, PTL

(* threshold() never falls, so that what was skipped because of it stays   *)
(* irrelevant.                                                             *)
THEOREM ThresholdMonotone == Spec => ThresholdNeverFalls
  <1>1. Inv /\ [Next]_vars => [threshold' >= threshold]_vars
    BY NextInv
  <1> QED BY <1>1, Invariance, PTL DEF Spec, ThresholdNeverFalls

-----------------------------------------------------------------------------
(* The accumulator implements TopK: the entries of the heap are the offers *)
(* held, and the heap's front is a lowest one of them.                     *)

Entries == [first : Nat, second : Int]

(* No two entries are of the same offer.                                   *)
Distinct(h) == \A i, j \in DOMAIN h : h[i].first = h[j].first => i = j

Contents(h) == { h[i] : i \in DOMAIN h }

LEMMA ResultOrder == Heaps!WeakOrder(Entries)
  BY DEF Heaps!WeakOrder, Accumulator!result_order, Entries

LEMMA RearrangedContents ==
  ASSUME NEW h \in Seq(Entries), NEW g \in Seq(Entries), NEW p, Heaps!Rearranges(p, h, g)
  PROVE  Contents(g) = Contents(h) /\ (Distinct(h) => Distinct(g))
  <1>1. DOMAIN h = 1..Len(h) /\ DOMAIN g = 1..Len(h)
    BY DEF Heaps!Rearranges
  <1>2. /\ p \in [1..Len(h) -> 1..Len(h)]
        /\ \A i, j \in 1..Len(h) : p[i] = p[j] => i = j
        /\ \A j \in 1..Len(h) : \E i \in 1..Len(h) : p[i] = j
        /\ \A k \in 1..Len(h) : g[k] = h[p[k]]
    BY DEF Heaps!Rearranges, Heaps!Places
  <1>3. Contents(g) = Contents(h)
    <2>1. \A i \in DOMAIN g : \E k \in DOMAIN h : g[i] = h[k]
      BY <1>1, <1>2
    <2>2. ASSUME NEW k \in DOMAIN h PROVE \E i \in DOMAIN g : h[k] = g[i]
      <3>1. PICK i \in 1..Len(h) : p[i] = k
        BY <1>1, <1>2
      <3> QED BY <3>1, <1>1, <1>2
    <2> QED BY <2>1, <2>2 DEF Contents
  <1>4. ASSUME Distinct(h), NEW i \in DOMAIN g, NEW j \in DOMAIN g, g[i].first = g[j].first
        PROVE  i = j
    <2>1. p[i] = p[j]
      BY <1>1, <1>2, <1>4, SMTT(30) DEF Distinct
    <2> QED BY <2>1, <1>1, <1>2
  <1> QED BY <1>3, <1>4 DEF Distinct

LEMMA SameHeap ==
  ASSUME NEW h
  PROVE  /\ Accumulator!Heap!PushHeap(h) = Heaps!PushHeap(h)
         /\ Accumulator!Heap!PopHeap(h) = Heaps!PopHeap(h)
  <1>1. Accumulator!Heap!PushHeap(h) = Heaps!PushHeap(h)
    BY DEF Heaps!PushHeap, Accumulator!Heap!PushHeap, Heaps!Rise, Accumulator!Heap!Rise,
           Heaps!Risen, Accumulator!Heap!Risen
  <1>2. Accumulator!Heap!PopHeap(h) = Heaps!PopHeap(h)
    BY DEF Heaps!PopHeap, Accumulator!Heap!PopHeap, Heaps!Rise, Accumulator!Heap!Rise,
           Heaps!Risen, Accumulator!Heap!Risen, Heaps!Sunk, Accumulator!Heap!Sunk,
           Heaps!GreaterChild, Accumulator!Heap!GreaterChild
  <1> QED BY <1>1, <1>2

(* Insert() adds the entry, for the front of the heap when it is full, and *)
(* leaves a heap.                                                          *)
LEMMA InsertIs ==
  ASSUME NEW h \in Seq(Entries), NEW e \in Entries, Heaps!IsHeap(h), Distinct(h),
         \A i \in DOMAIN h : h[i].first # e.first, Len(h) <= K
  PROVE  LET g == Accumulator!Insert(h, e) IN
         /\ g \in Seq(Entries) /\ Heaps!IsHeap(g) /\ Distinct(g)
         /\ Len(h) < K => Len(g) = Len(h) + 1 /\ Contents(g) = Contents(h) \cup {e}
         /\ Len(h) = K => Len(g) = K /\ Contents(g) = (Contents(h) \ {h[1]}) \cup {e}
  <1> DEFINE a == Append(h, e)
             n == Len(h)
             g == Accumulator!Insert(h, e)
  <1>1. /\ a \in Seq(Entries) /\ Len(a) = n + 1 /\ DOMAIN a = 1..n + 1 /\ n \in Nat
        /\ a[n + 1] = e /\ DOMAIN h = 1..n /\ \A i \in 1..n : a[i] = h[i]
    OBVIOUS
  <1>2. K \in Nat /\ K > 0
    BY KAssumption
  <1> HIDE DEF a
  <1>3. Distinct(a)
    BY <1>1 DEF Distinct
  <1>4. Contents(a) = Contents(h) \cup {e}
    <2>1. Contents(a) \subseteq Contents(h) \cup {e}
      BY <1>1 DEF Contents
    <2>2. Contents(h) \cup {e} \subseteq Contents(a)
      BY <1>1 DEF Contents
    <2> QED BY <2>1, <2>2
  <1>5. CASE n < K
    <2>1. g = Heaps!PushHeap(a)
      <3>1. Len(a) <= K /\ a = Append(h, e)
        BY <1>1, <1>2, <1>5 DEF a
      <3>2. g = Accumulator!Heap!PushHeap(a)
        BY <3>1 DEF Accumulator!Insert
      <3> QED BY <3>2, SameHeap
    <2>2. /\ g \in Seq(Entries) /\ Heaps!IsHeap(g)
          /\ \E p : Heaps!Rearranges(p, a, g)
      BY <2>1, ResultOrder, Heaps!PushHeapIs DEF a
    <2> HIDE DEF g
    <2>3. PICK p : Heaps!Rearranges(p, a, g)
      BY <2>2
    <2>4. Contents(g) = Contents(a) /\ Distinct(g)
      BY <2>2, <2>3, <1>1, <1>3, RearrangedContents
    <2>5. Len(g) = n + 1
      BY <2>3, <1>1 DEF Heaps!Rearranges
    <2> QED BY <2>2, <2>4, <2>5, <1>4, <1>5 DEF g
  <1>6. CASE n = K
    <2> DEFINE popped == Heaps!PopHeap(a)
    <2>1. g = SubSeq(popped, 1, n)
      <3>1. ~(Len(a) <= K) /\ a = Append(h, e)
        BY <1>1, <1>2, <1>6 DEF a
      <3>2. g = Accumulator!Front(Accumulator!Heap!PopHeap(a))
        BY <3>1 DEF Accumulator!Insert
      <3>3. Accumulator!Heap!PopHeap(a) = popped
        BY SameHeap
      <3>4. a # << >> /\ Len(popped) = Len(a)
        BY <1>1, ResultOrder, Heaps!PopHeapIs DEF Heaps!Rearranges
      <3> HIDE DEF popped, g
      <3> QED BY <3>2, <3>3, <3>4, <1>1 DEF Accumulator!Front
    <2>2. SubSeq(a, 1, n) = h
      BY <1>1 DEF a
    <2>3. /\ popped \in Seq(Entries) /\ Heaps!IsHeap(SubSeq(popped, 1, n))
          /\ \E p : Heaps!Rearranges(p, a, popped) /\ p[n + 1] = 1
      <3>1. a # << >> /\ Len(a) - 1 = n
        BY <1>1
      <3> QED BY <3>1, <2>2, <1>1, ResultOrder, Heaps!PopHeapIs
    <2> HIDE DEF popped, g
    <2>4. PICK p : Heaps!Rearranges(p, a, popped) /\ p[n + 1] = 1
      BY <2>3
    <2>5. Contents(popped) = Contents(a) /\ Distinct(popped)
      BY <2>3, <2>4, <1>1, <1>3, RearrangedContents
    <2>6. Len(popped) = n + 1 /\ DOMAIN popped = 1..n + 1 /\ popped[n + 1] = h[1]
      BY <2>3, <2>4, <1>1, <1>2, <1>6 DEF Heaps!Rearranges
    <2>7. /\ g \in Seq(Entries) /\ Len(g) = n /\ DOMAIN g = 1..n
          /\ \A i \in 1..n : g[i] = popped[i]
      BY <2>1, <2>3, <2>6, <1>1
    <2>8. Distinct(g)
      BY <2>5, <2>6, <2>7, <1>1 DEF Distinct
    <2>9. Contents(g) = Contents(popped) \ {h[1]}
      <3>1. Contents(g) \subseteq Contents(popped)
        BY <2>6, <2>7, <1>1 DEF Contents
      <3>2. h[1] \notin Contents(g)
        <4>1. ASSUME NEW i \in 1..n PROVE g[i] # h[1]
          <5>1. i \in DOMAIN popped /\ n + 1 \in DOMAIN popped /\ i # n + 1
            BY <2>6, <1>1
          <5>2. popped[i].first # popped[n + 1].first
            BY <5>1, <2>5 DEF Distinct
          <5> QED BY <5>2, <2>6, <2>7
        <4> QED BY <4>1, <2>7 DEF Contents
      <3>3. Contents(popped) \ {h[1]} \subseteq Contents(g)
        BY <2>6, <2>7, <1>1 DEF Contents
      <3> QED BY <3>1, <3>2, <3>3
    <2>10. h[1] # e
      BY <1>1, <1>2, <1>6
    <2> QED BY <2>1, <2>3, <2>5, <2>7, <2>8, <2>9, <2>10, <1>4, <1>6 DEF g
  <1>7. n < K \/ n = K
    <2>1. n <= K /\ n \in Nat
      BY <1>1
    <2> HIDE DEF n
    <2> QED BY <2>1, <1>2
  <1> HIDE DEF n
  <1> QED BY <1>5, <1>6, <1>7 DEF n

(* What holds between the heap and the offers: one entry for each offer    *)
(* held, with its score, in a heap of at most k.                           *)
HeapInv ==
  /\ seen \in Seq(Values)
  /\ threshold \in Values \cup {Lowest}
  /\ top_ \in Seq(Entries) /\ Len(top_) <= K
  /\ Heaps!IsHeap(top_)
  /\ Distinct(top_)
  /\ \A i \in DOMAIN top_ : top_[i].first \in DOMAIN seen /\ top_[i].second = seen[top_[i].first]
  /\ top = { top_[i].first : i \in DOMAIN top_ }

LEMMA HeldOffers ==
  ASSUME NEW h \in Seq(Entries), Distinct(h)
  PROVE  Cardinality({ h[i].first : i \in DOMAIN h }) = Len(h)
  <1> DEFINE T == { h[i].first : i \in DOMAIN h }
             f == [i \in 1..Len(h) |-> h[i].first]
  <1>1. DOMAIN h = 1..Len(h) /\ Len(h) \in Nat
    OBVIOUS
  <1>2. f \in Bijection(1..Len(h), T)
    BY <1>1 DEF Bijection, Injection, Surjection, IsInjective, Distinct
  <1>3. IsFiniteSet(1..Len(h)) /\ Cardinality(1..Len(h)) = Len(h)
    BY <1>1, FS_Interval, SMTT(30)
  <1> HIDE DEF f, T
  <1>4. ExistsBijection(1..Len(h), T)
    BY <1>2 DEF ExistsBijection
  <1> QED BY <1>3, <1>4, FS_Bijection DEF T

LEMMA InitHeapInv == HeapInit => HeapInv /\ Init
  <1> SUFFICES ASSUME HeapInit PROVE HeapInv /\ Init
    OBVIOUS
  <1>1. seen = << >> /\ top_ = << >> /\ threshold = Lowest /\ top = {}
    BY DEF HeapInit, Accumulator!Init
  <1>2. Init
    BY <1>1 DEF Init
  <1>3. Heaps!IsHeap(top_) /\ Distinct(top_)
    BY <1>1 DEF Heaps!IsHeap, Distinct
  <1>4. HeapInv
    BY <1>1, <1>3, KAssumption DEF HeapInv
  <1> QED BY <1>2, <1>4

(* The front of the heap is an entry of a lowest offer.                    *)
LEMMA FrontIsLowest ==
  HeapInv /\ top_ # << >> =>
    top_[1].first \in LowestOf(seen, top) /\ seen[top_[1].first] = top_[1].second
  <1> SUFFICES ASSUME HeapInv, top_ # << >>
               PROVE  /\ top_[1].first \in LowestOf(seen, top)
                      /\ seen[top_[1].first] = top_[1].second
    OBVIOUS
  <1> USE DEF HeapInv
  <1>1. 1 \in DOMAIN top_ /\ \A i \in DOMAIN top_ : top_[i] \in Entries
    OBVIOUS
  <1>2. \A i \in DOMAIN top_ : ~Accumulator!result_order(top_[1], top_[i])
    BY ResultOrder, Heaps!HeapFront
  <1>3. \A i \in DOMAIN top_ : top_[1].second <= top_[i].second
    BY <1>1, <1>2 DEF Accumulator!result_order, Entries
  <1> QED BY <1>1, <1>3 DEF LowestOf

LEMMA RejectStep ==
  ASSUME HeapInv, NEW v \in Values, HeapNext, Accumulator!accumulate(v), ~Accumulator!Accepts(v)
  PROVE  HeapInv' /\ Reject(v)
  <1> USE DEF HeapInv
  <1>1. top_' = top_ /\ threshold' = threshold /\ seen' = Append(seen, v)
    BY DEF Accumulator!accumulate
  <1>2. top' = { top_'[i].first : i \in DOMAIN top_' }
    BY DEF HeapNext, Accumulator!Keys
  <1>3. top' = top
    BY <1>1, <1>2
  <1>4. v = 0 \/ v <= threshold
    BY ScoresAreIntegers DEF Accumulator!Accepts
  <1>5. Reject(v)
    BY <1>1, <1>3, <1>4 DEF Reject
  <1>6. /\ seen' \in Seq(Values) /\ DOMAIN seen \subseteq DOMAIN seen'
        /\ \A i \in DOMAIN seen : seen'[i] = seen[i]
    BY <1>1, AppendScore
  <1>7. HeapInv'
    <2>1. Heaps!IsHeap(top_)' /\ Distinct(top_)'
      BY <1>1 DEF Heaps!IsHeap, Distinct
    <2>2. \A i \in DOMAIN top_' :
            top_'[i].first \in DOMAIN seen' /\ top_'[i].second = seen'[top_'[i].first]
      BY <1>1, <1>6
    <2> QED BY <2>1, <2>2, <1>1, <1>2, <1>6
  <1> QED BY <1>5, <1>7

LEMMA AcceptStep ==
  ASSUME HeapInv, NEW v \in Values, HeapNext, Accumulator!accumulate(v), Accumulator!Accepts(v)
  PROVE  HeapInv' /\ (Fill(v) \/ Replace(v))
  <1> DEFINE e == Accumulator!Offer(v)
             new == Len(seen) + 1
  <1> USE DEF HeapInv
  <1>1. /\ top_' = Accumulator!Insert(top_, e) /\ seen' = Append(seen, v)
        /\ threshold' = IF Len(top_') = K THEN top_'[1].second ELSE threshold
    BY DEF Accumulator!accumulate, Accumulator!NextThreshold
  <1>2. top' = { top_'[i].first : i \in DOMAIN top_' }
    BY DEF HeapNext, Accumulator!Keys
  <1>3. /\ seen' \in Seq(Values)
        /\ DOMAIN seen' = DOMAIN seen \cup {new}
        /\ seen'[new] = v
        /\ \A i \in DOMAIN seen : seen'[i] = seen[i]
        /\ new \notin DOMAIN seen
    BY <1>1, AppendScore
  <1>4. e \in Entries /\ e.first = new /\ e.second = v
    BY ScoresAreIntegers DEF Accumulator!Offer, Entries
  <1>5. v # 0 /\ v > threshold
    BY DEF Accumulator!Accepts
  <1> HIDE DEF e, new
  <1>6. \A i \in DOMAIN top_ : top_[i].first # e.first
    BY <1>3, <1>4
  <1>7. /\ top_' \in Seq(Entries) /\ Heaps!IsHeap(top_') /\ Distinct(top_')
        /\ Len(top_) < K => Len(top_') = Len(top_) + 1 /\ Contents(top_') = Contents(top_) \cup {e}
        /\ Len(top_) = K => Len(top_') = K /\ Contents(top_') = (Contents(top_) \ {top_[1]}) \cup {e}
    BY <1>1, <1>4, <1>6, InsertIs
  <1>8. Len(top_) \in Nat /\ Len(top_') \in Nat /\ K \in Nat /\ K > 0 /\ Len(top_) <= K
    BY <1>7, KAssumption
  <1>9. \A i \in DOMAIN top_' : top_'[i] \in Contents(top_) \cup {e}
    <2>1. Contents(top_') \subseteq Contents(top_) \cup {e}
      BY <1>7, <1>8
    <2> QED BY <2>1 DEF Contents
  <1>10. ASSUME NEW i \in DOMAIN top_'
         PROVE  top_'[i].first \in DOMAIN seen' /\ top_'[i].second = seen'[top_'[i].first]
    <2>1. CASE top_'[i] = e
      BY <2>1, <1>3, <1>4
    <2>2. CASE top_'[i] \in Contents(top_)
      BY <2>2, <1>3 DEF Contents
    <2> QED BY <2>1, <2>2, <1>9
  <1>11. HeapInv'
    <2>1. threshold' \in Values \cup {Lowest}
      <3>1. Len(top_') = K => 1 \in DOMAIN top_'
        BY <1>7, <1>8, SMTT(30)
      <3>2. Len(top_') = K => top_'[1].second \in Values
        BY <3>1, <1>3, <1>10, SMTT(30)
      <3> QED BY <3>2, <1>1
    <2>2. Heaps!IsHeap(top_)' /\ Distinct(top_)'
      BY <1>7 DEF Heaps!IsHeap, Distinct
    <2> QED BY <2>1, <2>2, <1>2, <1>3, <1>7, <1>8, <1>10
  <1>12. Cardinality(top) = Len(top_) /\ Cardinality(top') = Len(top_')
    BY <1>2, <1>7, HeldOffers
  <1>13. IsThreshold(threshold', seen', top', threshold)
    <2>1. CASE Len(top_') = K
      <3>1. top_' # << >>
        BY <2>1, <1>8
      <3>2. top_'[1].first \in LowestOf(seen', top') /\ seen'[top_'[1].first] = top_'[1].second
        <4>1. (HeapInv /\ top_ # << >> =>
                 top_[1].first \in LowestOf(seen, top) /\ seen[top_[1].first] = top_[1].second)'
          BY FrontIsLowest, PTL
        <4> QED BY <4>1, <3>1, <1>11
      <3> QED BY <3>2, <2>1, <1>1, <1>12 DEF IsThreshold
    <2>2. CASE Len(top_') # K
      BY <2>2, <1>1, <1>12 DEF IsThreshold
    <2> QED BY <2>1, <2>2
  <1>14. /\ top = { x.first : x \in Contents(top_) }
         /\ top' = { x.first : x \in Contents(top_') }
    BY <1>2 DEF Contents
  <1>15. CASE Len(top_) < K
    <2>1. top' = top \cup {new}
      BY <1>4, <1>7, <1>14, <1>15
    <2> QED BY <2>1, <1>1, <1>5, <1>11, <1>12, <1>13, <1>15 DEF Fill, new
  <1>16. CASE Len(top_) = K
    <2>1. top_ # << >> /\ 1 \in DOMAIN top_
      BY <1>8, <1>16
    <2>2. top_[1].first \in LowestOf(seen, top)
      BY <2>1, FrontIsLowest
    <2>3. \A x \in Contents(top_) : x.first = top_[1].first => x = top_[1]
      BY <2>1 DEF Contents, Distinct
    <2>4. top' = (top \ {top_[1].first}) \cup {new}
      <3>1. Contents(top_') = (Contents(top_) \ {top_[1]}) \cup {e}
        BY <1>7, <1>16
      <3>2. top_[1] \in Contents(top_)
        BY <2>1 DEF Contents
      <3>3. top' = { x.first : x \in Contents(top_) \ {top_[1]} } \cup {new}
        BY <3>1, <1>4, <1>14
      <3>4. { x.first : x \in Contents(top_) \ {top_[1]} } = top \ {top_[1].first}
        BY <3>2, <2>3, <1>14
      <3> QED BY <3>3, <3>4
    <2> QED BY <2>2, <2>4, <1>1, <1>5, <1>11, <1>12, <1>13, <1>16 DEF Replace, new
  <1> QED BY <1>15, <1>16, <1>8

LEMMA HeapStep ==
  ASSUME HeapInv, [HeapNext]_<<vars, top_>>
  PROVE  HeapInv' /\ [Next]_vars
  <1>1. CASE UNCHANGED <<vars, top_>>
    BY <1>1 DEF vars, HeapInv, Heaps!IsHeap, Distinct
  <1>2. CASE HeapNext
    <2>1. PICK v \in Values : Accumulator!accumulate(v)
      BY <1>2 DEF HeapNext
    <2> QED BY <2>1, <1>2, RejectStep, AcceptStep DEF Next
  <1> QED BY <1>1, <1>2

(* accumulate() is a step of TopK: for every k, every set of scores and    *)
(* any number of offers, the heap discards a lowest entry, and threshold_  *)
(* is what TopK says.                                                      *)
THEOREM Implementation == HeapSpec => ImplementsTopK
  BY InitHeapInv, HeapStep, PTL DEF HeapSpec, Spec, ImplementsTopK

(* So what was proved of TopK is true of the accumulator.                  *)
THEOREM AccumulatorIsBest == HeapSpec => [](TypeOK /\ TopIsBest /\ ThresholdIsKth)
  BY Implementation, TypeCorrect, BestAreHeld, ThresholdCorrect, PTL DEF ImplementsTopK

(* accumulate() leaves a heap: emplace_back and push_heap add to one, and  *)
(* pop_heap of a heap with a new entry behind it, then pop_back, leave one.*)
THEOREM AccumulatorIsHeap == HeapSpec => []TopIsHeap
  <1>1. HeapInv => TopIsHeap
    BY DEF HeapInv, TopIsHeap, Heaps!IsHeap, Accumulator!Heap!IsHeap
  <1> QED BY <1>1, InitHeapInv, HeapStep, PTL DEF HeapSpec
=============================================================================
