-------------------------- MODULE Retrieval_proofs --------------------------
(***************************************************************************)
(* Proofs about Traversals, for any lists, weights, number of results and  *)
(* size of the collection.                                                 *)
(***************************************************************************)
EXTENDS Traversals, Induction

(* The scores that are offered, and the accumulator as TopK_proofs has it. *)
Scores == { v \in Int : Lowest < v }

Heaped == INSTANCE TopK_proofs WITH
            Values <- Scores, top <- Accumulator!Keys, threshold <- threshold_

LEMMA TopKAssumptions == Heaped!KAssumption /\ Heaped!ValuesAssumption
  BY RetrievalAssumption DEF Heaped!KAssumption, Heaped!ValuesAssumption, Scores

LEMMA SameCardinality ==
  \A S : Heaped!Cardinality(S) = Cardinality(S) /\ (Heaped!IsFiniteSet(S) <=> IsFiniteSet(S))
  BY DEF Heaped!Cardinality, Cardinality, Heaped!IsFiniteSet, IsFiniteSet

LEMMA SameInsert ==
  ASSUME NEW h, NEW e
  PROVE  Accumulator!Insert(h, e) = Heaped!Accumulator!Insert(h, e)
  <1>1. \A g : /\ Accumulator!Heap!PushHeap(g) = Heaped!Accumulator!Heap!PushHeap(g)
               /\ Accumulator!Heap!PopHeap(g) = Heaped!Accumulator!Heap!PopHeap(g)
    <2> SUFFICES ASSUME NEW g
                 PROVE  /\ Accumulator!Heap!PushHeap(g) = Heaped!Accumulator!Heap!PushHeap(g)
                        /\ Accumulator!Heap!PopHeap(g) = Heaped!Accumulator!Heap!PopHeap(g)
      OBVIOUS
    <2>1. Accumulator!Heap!PushHeap(g) = Heaped!Accumulator!Heap!PushHeap(g)
      BY DEF Heaped!Accumulator!Heap!PushHeap, Accumulator!Heap!PushHeap,
             Heaped!Accumulator!Heap!Rise, Accumulator!Heap!Rise,
             Heaped!Accumulator!Heap!Risen, Accumulator!Heap!Risen,
             Heaped!Accumulator!result_order, Accumulator!result_order
    <2>2. Accumulator!Heap!PopHeap(g) = Heaped!Accumulator!Heap!PopHeap(g)
      BY DEF Heaped!Accumulator!Heap!PopHeap, Accumulator!Heap!PopHeap,
             Heaped!Accumulator!Heap!Rise, Accumulator!Heap!Rise,
             Heaped!Accumulator!Heap!Risen, Accumulator!Heap!Risen,
             Heaped!Accumulator!Heap!Sunk, Accumulator!Heap!Sunk,
             Heaped!Accumulator!Heap!GreaterChild, Accumulator!Heap!GreaterChild,
             Heaped!Accumulator!result_order, Accumulator!result_order
    <2> QED BY <2>1, <2>2
  <1> QED BY <1>1 DEF Accumulator!Insert, Heaped!Accumulator!Insert,
                      Accumulator!Front, Heaped!Accumulator!Front

(* An offer is a step of the accumulator that TopK_proofs is about.        *)
LEMMA OfferIsHeapNext ==
  ASSUME NEW v \in Scores, Accumulator!accumulate(v)
  PROVE  Heaped!HeapNext
  <1>1. Heaped!Accumulator!accumulate(v)
    BY SameInsert DEF Heaped!Accumulator!accumulate, Accumulator!accumulate,
         Heaped!Accumulator!Accepts, Accumulator!Accepts,
         Heaped!Accumulator!Offer, Accumulator!Offer,
         Heaped!Accumulator!NextThreshold, Accumulator!NextThreshold
  <1> QED BY <1>1 DEF Heaped!HeapNext, Accumulator!Keys, Heaped!Accumulator!Keys

-----------------------------------------------------------------------------
LEMMA ListIs ==
  ASSUME NEW list \in Lists
  PROVE  /\ Len(list) \in Nat /\ DOMAIN list = 1..Len(list)
         /\ \A i \in DOMAIN list : /\ list[i].document \in Documents /\ list[i].document \in Nat
                                  /\ list[i].payload \in Int
         /\ \A i, j \in DOMAIN list : i < j => list[i].document < list[j].document
  <1> DEFINE Posting == [document : Nat, payload : Int]
  <1>1. list \in Seq(Posting) /\ Increases(list)
    BY ListsAssumption
  <1>2. \A i \in DOMAIN list : list[i] \in Posting
    <2> HIDE DEF Posting
    <2> QED BY <1>1
  <1>3. \A i \in DOMAIN list : /\ list[i].document \in Nat /\ list[i].payload \in Int
                               /\ list[i].document < CollectionSize
    BY <1>2, RetrievalAssumption
  <1>4. \A i \in DOMAIN list : list[i].document \in Documents
    BY <1>3, RetrievalAssumption DEF Documents
  <1> QED BY <1>1, <1>3, <1>4 DEF Increases

(* What a query is made of.                                                *)
LEMMA QueryIs ==
  ASSUME NEW q \in Queries
  PROVE  /\ Len(Weights) \in Nat \ {0} /\ DOMAIN q = 1..Len(Weights) /\ Len(q) = Len(Weights)
         /\ IsFiniteSet(DOMAIN q)
         /\ \A t \in DOMAIN q :
              /\ q[t] \in Lists /\ Len(q[t]) \in Nat /\ DOMAIN q[t] = 1..Len(q[t])
              /\ \A i \in DOMAIN q[t] : q[t][i].document \in Documents /\ q[t][i].document \in Nat
              /\ \A i, j \in DOMAIN q[t] : i < j => q[t][i].document < q[t][j].document
              /\ \A i \in DOMAIN q[t] : score_fn(t, q[t][i]) \in Int
         /\ \E t \in DOMAIN q : q[t] # << >>
  <1>1. /\ q \in [DOMAIN Weights -> Lists] /\ Weights \in Seq(Int)
        /\ CollectionSize \in Nat /\ \E t \in DOMAIN q : q[t] # << >>
    BY RetrievalAssumption DEF Queries
  <1>2. DOMAIN q = 1..Len(Weights) /\ Len(Weights) \in Nat /\ q \in Seq(Lists)
    BY <1>1
  <1>3. Len(Weights) # 0 /\ Len(q) = Len(Weights)
    BY <1>1, <1>2
  <1>4. IsFiniteSet(DOMAIN q)
    BY <1>2, FS_Interval
  <1>5. ASSUME NEW t \in DOMAIN q
        PROVE  /\ q[t] \in Lists /\ Len(q[t]) \in Nat /\ DOMAIN q[t] = 1..Len(q[t])
               /\ \A i \in DOMAIN q[t] : q[t][i].document \in Documents /\ q[t][i].document \in Nat
               /\ \A i, j \in DOMAIN q[t] : i < j => q[t][i].document < q[t][j].document
               /\ \A i \in DOMAIN q[t] : score_fn(t, q[t][i]) \in Int
    <2>1. q[t] \in Lists /\ Weights[t] \in Int
      BY <1>1, <1>2
    <2>2. \A i \in DOMAIN q[t] : score_fn(t, q[t][i]) \in Int
      BY <2>1, ListIs DEF score_fn
    <2> QED BY <2>1, <2>2, ListIs
  <1> QED BY <1>1, <1>2, <1>3, <1>4, <1>5

(* A list has one posting of a document, or none.                          *)
LEMMA ScoreInIs ==
  ASSUME NEW q \in Queries, NEW t \in DOMAIN q, NEW document
  PROVE  /\ ScoreIn(q, t, document) \in Int
         /\ Postings(q, t, document) = {} => ScoreIn(q, t, document) = 0
         /\ \A i \in Postings(q, t, document) :
              ScoreIn(q, t, document) = score_fn(t, q[t][i])
  <1> DEFINE P == Postings(q, t, document)
             f == [i \in P |-> score_fn(t, q[t][i])]
  <1>1. ScoreIn(q, t, document) = SumFunctionOnSet(f, P)
    BY DEF ScoreIn, SumFunction
  <1>2. /\ P \subseteq DOMAIN q[t] /\ \A i \in DOMAIN q[t] : i \in Int
        /\ \A i \in P : f[i] = score_fn(t, q[t][i]) /\ f[i] \in Int
    BY QueryIs DEF Postings
  <1>3. \A i, j \in P : i = j
    <2> SUFFICES ASSUME NEW i \in P, NEW j \in P, i # j PROVE FALSE
      OBVIOUS
    <2>1. /\ i \in DOMAIN q[t] /\ j \in DOMAIN q[t]
          /\ q[t][i].document = document /\ q[t][j].document = document
      BY DEF Postings
    <2>2. q[t][i].document \in Nat /\ (i < j \/ j < i)
      BY <2>1, <1>2, QueryIs
    <2> QED BY <2>1, <2>2, QueryIs
  <1> HIDE DEF P, f
  <1>4. P = {} => SumFunctionOnSet(f, P) = 0
    BY SetSumEmpty
  <1>5. ASSUME NEW i \in P PROVE SumFunctionOnSet(f, P) = f[i] /\ f[i] \in Int
    <2>1. P = {i} /\ P \ {i} = {} /\ f[i] \in Int
      BY <1>2, <1>3
    <2>2. IsFiniteSet(P)
      BY <2>1, FS_Singleton
    <2>3. SumFunctionOnSet(f, P) = f[i] + SumFunctionOnSet(f, P \ {i})
      BY <1>2, <2>2, SetSumRemove
    <2>4. SumFunctionOnSet(f, P \ {i}) = 0
      BY <2>1, SetSumEmpty
    <2> QED BY <2>1, <2>3, <2>4
  <1>6. ScoreIn(q, t, document) \in Int
    BY <1>1, <1>4, <1>5
  <1>7. \A i \in P : ScoreIn(q, t, document) = score_fn(t, q[t][i])
    BY <1>1, <1>2, <1>5
  <1> QED BY <1>1, <1>4, <1>6, <1>7 DEF P

LEMMA ScoreIsSum ==
  ASSUME NEW q \in Queries, NEW document
  PROVE  /\ ScoreOf(q, document) =
              SumFunctionOnSet([t \in DOMAIN q |-> ScoreIn(q, t, document)], DOMAIN q)
         /\ ScoreOf(q, document) \in Int
         /\ \A t \in DOMAIN q : ScoreIn(q, t, document) \in Int
  <1> DEFINE f == [t \in DOMAIN q |-> ScoreIn(q, t, document)]
             D == DOMAIN q
  <1>1. ScoreOf(q, document) = SumFunctionOnSet(f, D)
    BY DEF ScoreOf, SumFunction
  <1>2. \A t \in D : f[t] \in Int /\ ScoreIn(q, t, document) \in Int
    BY ScoreInIs
  <1>3. IsFiniteSet(D)
    BY QueryIs
  <1> HIDE DEF f, D
  <1>4. SumFunctionOnSet(f, D) \in Int
    BY <1>2, <1>3, SetSumRemove
  <1> QED BY <1>1, <1>2, <1>4 DEF f, D

-----------------------------------------------------------------------------
(* What every traversal keeps: the query, and an accumulator that was      *)
(* offered the scores of documents, in order.                              *)
OfferInv ==
  /\ query \in Queries
  /\ offered \in Seq(Documents) /\ Len(seen) = Len(offered)
  /\ OffersAreScores
  /\ Heaped!HeapInv /\ Heaped!Inv

LEMMA OfferInit == RetrievalInit => OfferInv
  <1> SUFFICES ASSUME RetrievalInit PROVE OfferInv
    OBVIOUS
  <1>1. query \in Queries /\ offered = << >> /\ seen = << >> /\ top_ = << >> /\ threshold_ = Lowest
    BY DEF RetrievalInit, Accumulator!Init
  <1>2. Heaped!HeapInit
    BY <1>1 DEF Heaped!HeapInit, Heaped!Accumulator!Init, Accumulator!Keys
  <1>3. Heaped!HeapInv /\ Heaped!Inv
    BY <1>2, Heaped!InitHeapInv, Heaped!InitInv, TopKAssumptions
  <1>4. OffersAreScores
    BY <1>1 DEF OffersAreScores
  <1> QED BY <1>1, <1>3, <1>4 DEF OfferInv

LEMMA OfferStep ==
  ASSUME OfferInv, NEW document \in Documents, accumulate(document, Score(document)),
         \A i \in DOMAIN offered : offered[i] < document, query' = query
  PROVE  /\ OfferInv'
         /\ offered' = Append(offered, document)
         /\ threshold_ <= threshold_'
  <1> DEFINE v == Score(document)
  <1>1. v \in Scores
    <2>1. query \in Queries
      BY DEF OfferInv
    <2>2. v \in Int /\ Lowest < v
      BY <2>1, LowestAssumption, ScoreIsSum DEF Score
    <2> HIDE DEF v
    <2> QED BY <2>2 DEF Scores
  <1>2. Accumulator!accumulate(v) /\ offered' = Append(offered, document) /\ seen' = Append(seen, v)
    BY DEF accumulate, Accumulator!accumulate
  <1>3. Heaped!HeapInv' /\ Heaped!Inv' /\ threshold_ <= threshold_'
    <2>1. Heaped!HeapNext
      BY <1>1, <1>2, OfferIsHeapNext
    <2>2. Heaped!HeapInv' /\ [Heaped!Next]_Heaped!vars
      BY <2>1, Heaped!HeapStep, TopKAssumptions DEF OfferInv
    <2>3. Heaped!Inv' /\ threshold_' >= threshold_
      BY <2>2, Heaped!NextInv, TopKAssumptions DEF OfferInv
    <2>4. threshold_ \in Int /\ threshold_' \in Int
      BY <2>2, RetrievalAssumption DEF OfferInv, Heaped!HeapInv, Scores
    <2> QED BY <2>2, <2>3, <2>4
  <1> DEFINE n == Len(offered)
  <1>4. offered \in Seq(Documents) /\ seen \in Seq(Scores) /\ Len(seen) = n
    BY DEF OfferInv, Heaped!HeapInv
  <1>5. /\ offered' \in Seq(Documents) /\ DOMAIN offered' = 1..n + 1 /\ DOMAIN offered = 1..n
        /\ Len(seen') = Len(offered') /\ n \in Nat
        /\ offered'[n + 1] = document /\ \A i \in 1..n : offered'[i] = offered[i]
        /\ seen'[n + 1] = v /\ \A i \in 1..n : seen'[i] = seen[i]
    BY <1>1, <1>2, <1>4
  <1> HIDE DEF n, v
  <1>6. OffersAreScores'
    <2>1. ASSUME NEW i \in 1..n + 1, NEW j \in 1..n + 1, i < j
          PROVE  offered'[i] < offered'[j]
      <3>1. i \in 1..n
        BY <1>5, <2>1
      <3>2. j \in 1..n \/ j = n + 1
        BY <1>5
      <3> QED BY <1>5, <2>1, <3>1, <3>2 DEF OfferInv, OffersAreScores
    <2>2. ASSUME NEW i \in 1..n + 1
          PROVE  seen'[i] = ScoreOf(query, offered'[i])
      <3>1. i \in 1..n \/ i = n + 1
        BY <1>5
      <3>2. CASE i \in 1..n
        BY <3>2, <1>5 DEF OfferInv, OffersAreScores, Score
      <3>3. CASE i = n + 1
        BY <3>3, <1>5 DEF v, Score
      <3> QED BY <3>1, <3>2, <3>3
    <2> QED BY <1>5, <2>1, <2>2 DEF OffersAreScores, Score
  <1>7. query' \in Queries
    BY DEF OfferInv
  <1> QED BY <1>2, <1>3, <1>5, <1>6, <1>7 DEF OfferInv

LEMMA OfferStutter ==
  ASSUME OfferInv, query' = query, UNCHANGED accumulator
  PROVE  OfferInv' /\ Worthy' = Worthy
  <1>1. /\ offered' = offered /\ seen' = seen /\ top_' = top_ /\ threshold_' = threshold_
        /\ Accumulator!Keys' = Accumulator!Keys
    BY DEF accumulator, Accumulator!Keys
  <1>2. OffersAreScores' /\ Worthy' = Worthy
    BY <1>1 DEF OfferInv, OffersAreScores, Score, Worthy
  <1>3. Heaped!Inv'
    BY <1>1 DEF OfferInv, Heaped!Inv, Heaped!TypeOK, Heaped!Held, Heaped!TopIsBest,
                Heaped!RejectedAreNoBetter, Heaped!HeldAreWorthy, Heaped!KthOrLowest
  <1>4. Heaped!HeapInv'
    BY <1>1 DEF OfferInv, Heaped!HeapInv, Heaped!Entries, Heaped!Heaps!IsHeap, Heaped!Distinct
  <1> QED BY <1>1, <1>2, <1>3, <1>4 DEF OfferInv

(* All documents before this one that score were offered, and no other.    *)
OfferedBefore(document) ==
  /\ \A i \in DOMAIN offered : offered[i] < document
  /\ \A d \in Worthy : d < document => d \in Range(offered)

LEMMA DocumentOffered ==
  ASSUME OfferInv, NEW document \in Documents, OfferedBefore(document),
         accumulate(document, Score(document)), query' = query
  PROVE  /\ OfferInv' /\ Worthy' = Worthy
         /\ \A i \in DOMAIN offered' : offered'[i] <= document
         /\ \A d \in Worthy : d <= document => d \in Range(offered')
  <1> DEFINE n == Len(offered)
  <1>1. OfferInv' /\ offered' = Append(offered, document)
    BY OfferStep DEF OfferedBefore
  <1>2. offered \in Seq(Documents)
    BY DEF OfferInv
  <1>3. /\ n \in Nat /\ DOMAIN offered = 1..n /\ DOMAIN offered' = 1..n + 1
        /\ offered'[n + 1] = document
        /\ \A i \in 1..n : offered'[i] = offered[i] /\ offered[i] \in Documents
    BY <1>1, <1>2
  <1>4. \A d \in Documents : d \in Int
    BY RetrievalAssumption DEF Documents
  <1> HIDE DEF n
  <1>5. ASSUME NEW i \in DOMAIN offered' PROVE offered'[i] <= document
    <2>1. CASE i = n + 1
      BY <2>1, <1>3, <1>4
    <2>2. CASE i \in 1..n
      <3>1. offered[i] < document
        BY <2>2, <1>3 DEF OfferedBefore
      <3> QED BY <2>2, <3>1, <1>3, <1>4
    <2>3. i \in 1..n \/ i = n + 1
      BY <1>3
    <2> QED BY <2>1, <2>2, <2>3
  <1>6. ASSUME NEW d \in Worthy, d <= document PROVE d \in Range(offered')
    <2>1. d \in Documents
      BY DEF Worthy
    <2>2. CASE d = document
      <3>1. n + 1 \in DOMAIN offered'
        BY <1>3
      <3> QED BY <2>2, <3>1, <1>3 DEF Range
    <2>3. CASE d # document
      <3>1. d < document
        BY <1>4, <1>6, <2>1, <2>3
      <3>2. d \in Range(offered)
        BY <3>1 DEF OfferedBefore
      <3>3. PICK i \in 1..n : offered[i] = d
        BY <3>2, <1>3 DEF Range
      <3>4. i \in DOMAIN offered' /\ offered'[i] = d
        BY <3>3, <1>3
      <3> QED BY <3>4 DEF Range
    <2> QED BY <2>2, <2>3
  <1>7. Worthy' = Worthy
    BY DEF Worthy, Score
  <1> QED BY <1>1, <1>5, <1>6, <1>7

LEMMA MinOfTwo ==
  ASSUME NEW a \in Int, NEW b \in Int, a <= b
  PROVE  Min({a, b}) = a /\ Min({b, a}) = a
  <1>1. \A x \in {a, b} : (\A y \in {a, b} : x <= y) <=> x = a
    OBVIOUS
  <1>2. {a, b} = {b, a}
    OBVIOUS
  <1>3. Min({a, b}) = a
    BY <1>1 DEF Min
  <1> QED BY <1>2, <1>3

(* If every document that scores was offered, or scores too little for the *)
(* threshold, the documents held are the best.                             *)
LEMMA BestAnswer ==
  ASSUME OfferInv, \A d \in Worthy : d \in Range(offered) \/ Score(d) <= threshold_
  PROVE  IsBestAnswer(AnswerOf(top_))
  <1> DEFINE held == Accumulator!Keys
             answer == AnswerOf(top_)
             n == Len(offered)
             size == Cardinality(held)
  <1>1. answer = { offered[i] : i \in held }
    BY DEF AnswerOf, Accumulator!Keys
  <1>2. /\ n \in Nat /\ DOMAIN offered = 1..n /\ DOMAIN seen = 1..n /\ held \subseteq 1..n
        /\ \A i \in 1..n : offered[i] \in Documents /\ seen[i] = Score(offered[i])
        /\ \A i, j \in 1..n : i < j => offered[i] < offered[j]
    BY DEF OfferInv, OffersAreScores, Heaped!Inv, Heaped!TypeOK
  <1>3. \A d \in Documents : d \in Int
    BY RetrievalAssumption DEF Documents
  <1>4. \A d \in Documents : Score(d) \in Int /\ Lowest < Score(d)
    BY LowestAssumption, ScoreIsSum DEF OfferInv, Score
  <1>5. /\ IsFiniteSet(held) /\ size \in Nat /\ size <= K
        /\ \A i \in 1..n \ held : \/ seen[i] \in {0, Lowest}
                                  \/ size = K /\ \A j \in held : seen[i] <= seen[j]
        /\ \A i \in held : seen[i] \notin {0, Lowest}
    <2>1. IsFiniteSet(held) /\ size <= K
      BY SameCardinality DEF OfferInv, Heaped!Inv, Heaped!Held
    <2>2. size \in Nat
      BY <2>1, FS_CardinalityType
    <2> QED BY <1>2, <2>1, <2>2, SameCardinality
            DEF OfferInv, Heaped!Inv, Heaped!TopIsBest, Heaped!RejectedAreNoBetter,
                Heaped!HeldAreWorthy
  <1>6. IF size = K THEN \E i \in held : threshold_ = seen[i] /\ \A j \in held : threshold_ <= seen[j]
                    ELSE size < K /\ threshold_ = Lowest
    BY SameCardinality DEF OfferInv, Heaped!Inv, Heaped!KthOrLowest
  <1> HIDE DEF held, answer, n, size
  <1>7. answer \subseteq Worthy
    BY <1>1, <1>2, <1>5 DEF Worthy
  <1>8. IsFiniteSet(Worthy)
    <2>1. IsFiniteSet(Documents)
      BY RetrievalAssumption, FS_Interval DEF Documents
    <2> QED BY <2>1, FS_Subset DEF Worthy
  <1>9. Cardinality(answer) = size
    <2> DEFINE f == [i \in held |-> offered[i]]
    <2>1. \A i, j \in held : i # j => f[i] # f[j]
      <3> SUFFICES ASSUME NEW i \in held, NEW j \in held, i # j PROVE offered[i] # offered[j]
        OBVIOUS
      <3>1. i \in 1..n /\ j \in 1..n /\ offered[i] \in Int /\ offered[j] \in Int /\ (i < j \/ j < i)
        BY <1>2, <1>3
      <3> QED BY <3>1, <1>2
    <2>2. f \in [held -> answer] /\ \A d \in answer : \E i \in held : f[i] = d
      BY <1>1
    <2>3. f \in Bijection(held, answer)
      BY <2>1, <2>2 DEF Bijection, Injection, Surjection, IsInjective
    <2>4. Cardinality(held) = Cardinality(answer)
      BY <2>3, <1>5, FS_Bijection DEF ExistsBijection
    <2> QED BY <2>4 DEF size
  <1>10. Cardinality(Worthy) \in Nat /\ size <= Cardinality(Worthy)
    BY <1>7, <1>8, <1>9, FS_Subset, FS_CardinalityType
  <1>11. \A i \in 1..n \ held : size = K \/ offered[i] \notin Worthy
    <2> SUFFICES ASSUME NEW i \in 1..n \ held, offered[i] \in Worthy PROVE size = K
      OBVIOUS
    <2>1. seen[i] # 0 /\ seen[i] # Lowest
      <3>1. seen[i] = Score(offered[i]) /\ offered[i] \in Documents /\ Score(offered[i]) # 0
        BY <1>2 DEF Worthy
      <3>2. Score(offered[i]) \in Int /\ Lowest < Score(offered[i])
        BY <3>1, <1>4
      <3> QED BY <3>1, <3>2, RetrievalAssumption
    <2> QED BY <2>1, <1>5
  <1>12. ASSUME size # K PROVE answer = Worthy
    <2> SUFFICES ASSUME NEW d \in Worthy PROVE d \in answer
      BY <1>7
    <2>1. d \in Documents /\ Score(d) \in Int /\ Lowest < Score(d) /\ threshold_ = Lowest
      BY <1>4, <1>6, <1>12 DEF Worthy
    <2>2. d \in Range(offered)
      BY <2>1, RetrievalAssumption
    <2>3. PICK i \in 1..n : offered[i] = d
      BY <2>2, <1>2 DEF Range
    <2> QED BY <2>3, <1>1, <1>11, <1>12
  <1>13. Cardinality(answer) = Min({K, Cardinality(Worthy)})
    <2>1. CASE size = K
      BY <2>1, <1>9, <1>10, RetrievalAssumption, MinOfTwo
    <2>2. CASE size # K
      <3>1. size < K /\ Cardinality(Worthy) = size
        BY <2>2, <1>6, <1>9, <1>12
      <3> QED BY <3>1, <1>9, <1>10, RetrievalAssumption, MinOfTwo
    <2> QED BY <2>1, <2>2
  <1>14. ASSUME NEW d \in answer, NEW e \in Worthy \ answer PROVE Score(e) <= Score(d)
    <2>1. size = K
      BY <1>12
    <2>2. PICK j \in held : d = offered[j] /\ Score(d) = seen[j]
      BY <1>1, <1>2
    <2>3. e \in Documents /\ d \in Documents /\ Score(e) \in Int /\ Score(d) \in Int
      BY <1>4, <1>7 DEF Worthy
    <2>4. CASE e \in Range(offered)
      <3>1. PICK i \in 1..n : offered[i] = e
        BY <2>4, <1>2 DEF Range
      <3>2. i \notin held
        BY <3>1, <1>1
      <3>3. seen[i] = Score(e) /\ seen[i] \notin {0, Lowest}
        <4>1. seen[i] = Score(e) /\ Score(e) # 0
          BY <3>1, <1>2 DEF Worthy
        <4> QED BY <4>1, <2>3, <1>4, RetrievalAssumption
      <3> QED BY <3>2, <3>3, <2>2, <1>5
    <2>5. CASE Score(e) <= threshold_
      <3>1. PICK i \in held : threshold_ = seen[i] /\ \A k \in held : threshold_ <= seen[k]
        BY <2>1, <1>6
      <3>2. threshold_ \in Int /\ threshold_ <= Score(d)
        BY <3>1, <2>2, <1>2, <1>4
      <3> QED BY <3>2, <2>3, <2>5
    <2> QED BY <2>4, <2>5
  <1> QED BY <1>7, <1>13, <1>14 DEF IsBestAnswer, answer

-----------------------------------------------------------------------------
(* Document at a time.  The ranges are a permutation of the lists.         *)
RangeOf(q) == [term : DOMAIN q, left : Nat \ {0}]

Permuted(q, rs) ==
  /\ DOMAIN rs = DOMAIN q /\ \A i \in DOMAIN q : rs[i] \in RangeOf(q)
  /\ \A i, j \in DOMAIN q : rs[i].term = rs[j].term => i = j
  /\ \A t \in DOMAIN q : \E i \in DOMAIN q : rs[i].term = t

(* What is behind the ranges are the postings before a document.           *)
BeforeDocument(q, rs, document) ==
  \A i \in DOMAIN q : \A k \in DOMAIN q[rs[i].term] :
    q[rs[i].term][k].document < document <=> k < rs[i].left

DaatInv ==
  /\ OfferInv
  /\ Permuted(query, ranges)
  /\ current_doc \in Documents
  /\ running \in BOOLEAN
  /\ running =>
       /\ BeforeDocument(query, ranges, current_doc)
       /\ OfferedBefore(current_doc)
  /\ ~running => \A d \in Worthy : d \in Range(offered)

LEMMA SwappedPermutes ==
  ASSUME NEW q, NEW rs, Permuted(q, rs), NEW a \in DOMAIN q, NEW b \in DOMAIN q
  PROVE  /\ Permuted(q, Swapped(rs, a, b))
         /\ \A i \in DOMAIN q : \E j \in DOMAIN q : Swapped(rs, a, b)[i] = rs[j]
  <1> DEFINE new == Swapped(rs, a, b)
             p == [i \in DOMAIN q |-> IF i = b THEN a ELSE IF i = a THEN b ELSE i]
  <1>1. DOMAIN new = DOMAIN q /\ \A i \in DOMAIN q : p[i] \in DOMAIN q /\ new[i] = rs[p[i]]
    BY DEF Swapped, Permuted
  <1>2. /\ \A i, j \in DOMAIN q : p[i] = p[j] => i = j
        /\ \A j \in DOMAIN q : p[j] \in DOMAIN q /\ p[p[j]] = j
    OBVIOUS
  <1> HIDE DEF new, p
  <1>3. \A i \in DOMAIN q : new[i] \in RangeOf(q)
    BY <1>1 DEF Permuted
  <1>4. ASSUME NEW i \in DOMAIN q, NEW j \in DOMAIN q, new[i].term = new[j].term PROVE i = j
    <2>1. p[i] \in DOMAIN q /\ p[j] \in DOMAIN q /\ rs[p[i]].term = rs[p[j]].term
      BY <1>1, <1>4
    <2> QED BY <2>1, <1>2, ZenonT(30) DEF Permuted
  <1>5. ASSUME NEW t \in DOMAIN q PROVE \E i \in DOMAIN q : new[i].term = t
    <2>1. PICK j \in DOMAIN q : rs[j].term = t
      BY DEF Permuted
    <2>2. new[p[j]] = rs[j] /\ p[j] \in DOMAIN q
      BY <1>1, <1>2
    <2> QED BY <2>1, <2>2
  <1>6. Permuted(q, new)
    BY <1>1, <1>3, <1>4, <1>5 DEF Permuted
  <1> QED BY <1>1, <1>6 DEF new

LEMMA NoPostings ==
  ASSUME NEW q \in Queries, NEW document,
         \A t \in DOMAIN q : Postings(q, t, document) = {}
  PROVE  ScoreOf(q, document) = 0
  <1> DEFINE f == [t \in DOMAIN q |-> ScoreIn(q, t, document)]
             D == DOMAIN q
  <1>1. ScoreOf(q, document) = SumFunctionOnSet(f, D)
    BY ScoreIsSum
  <1>2. \A t \in D : f[t] = 0
    BY ScoreInIs
  <1>3. IsFiniteSet(D)
    BY QueryIs
  <1> HIDE DEF f, D
  <1>4. /\ {} \in SUBSET D
        /\ \A t \in D : f[t] \in Int
        /\ \A t \in D \ {} : f[t] = 0
    BY <1>2
  <1>5. SumFunctionOnSet(f, D) = SumFunctionOnSet(f, {})
    BY <1>3, <1>4, SetSumZero
  <1> QED BY <1>1, <1>5, SetSumEmpty

(* The ranges at a document have all its postings.                         *)
LEMMA AtCurrentIs ==
  ASSUME query \in Queries, Permuted(query, ranges), NEW i \in DOMAIN query,
         BeforeDocument(query, ranges, current_doc), current_doc \in Documents
  PROVE  LET t == ranges[i].term
             l == ranges[i].left
         IN  /\ i \in AtCurrent => /\ l \in Postings(query, t, current_doc)
                                   /\ front(ranges[i]) = query[t][l]
             /\ i \notin AtCurrent => Postings(query, t, current_doc) = {}
  <1> DEFINE t == ranges[i].term
             l == ranges[i].left
             list == query[t]
  <1>1. t \in DOMAIN query /\ l \in Nat \ {0} /\ i \in DOMAIN ranges
    <2>1. ranges[i] \in RangeOf(query) /\ i \in DOMAIN ranges
      BY DEF Permuted
    <2> QED BY <2>1 DEF RangeOf
  <1>2. /\ Len(list) \in Nat /\ DOMAIN list = 1..Len(list)
        /\ \A k \in DOMAIN list : list[k].document \in Nat
        /\ \A j, k \in DOMAIN list : j < k => list[j].document < list[k].document
    BY <1>1, QueryIs
  <1>3. \A k \in DOMAIN list : list[k].document < current_doc <=> k < l
    BY DEF BeforeDocument
  <1>4. current_doc \in Nat
    BY RetrievalAssumption DEF Documents
  <1>5. i \in AtCurrent <=> l \in DOMAIN list /\ list[l].document = current_doc
    BY <1>1, <1>2 DEF AtCurrent, empty, front
  <1> HIDE DEF list, t, l
  <1>6. ASSUME i \notin AtCurrent, NEW k \in DOMAIN list, list[k].document = current_doc
        PROVE  FALSE
    <2>1. ~(k < l) /\ k \in Nat
      BY <1>2, <1>3, <1>4, <1>6
    <2>2. l \in DOMAIN list
      BY <2>1, <1>1, <1>2
    <2>3. ~(list[l].document < current_doc) /\ (l = k \/ list[l].document < list[k].document)
      BY <2>1, <2>2, <1>1, <1>2, <1>3
    <2>4. list[l].document = current_doc
      BY <2>2, <2>3, <1>2, <1>4, <1>6
    <2> QED BY <2>2, <2>4, <1>5, <1>6
  <1> QED BY <1>5, <1>6 DEF Postings, front, list, t, l

(* The sum over the ranges at the current document is its whole score.     *)
LEMMA CurrentScoreIs ==
  ASSUME query \in Queries, Permuted(query, ranges),
         BeforeDocument(query, ranges, current_doc), current_doc \in Documents
  PROVE  CurrentScore = Score(current_doc)
  <1> DEFINE D == DOMAIN query
             T == { ranges[i].term : i \in AtCurrent }
             f == [i \in AtCurrent |-> score_fn(ranges[i].term, front(ranges[i]))]
             g == [t \in D |-> ScoreIn(query, t, current_doc)]
             p == [i \in AtCurrent |-> ranges[i].term]
  <1>1. CurrentScore = SumFunctionOnSet(f, AtCurrent)
    BY DEF CurrentScore, SumFunction
  <1>2. Score(current_doc) = SumFunctionOnSet(g, D) /\ \A t \in D : g[t] \in Int
    BY ScoreIsSum DEF Score
  <1>3. IsFiniteSet(D)
    BY QueryIs
  <1>4. AtCurrent \subseteq D /\ IsFiniteSet(AtCurrent)
    <2>1. AtCurrent \subseteq D
      BY DEF AtCurrent, Permuted
    <2> QED BY <2>1, <1>3, FS_Subset
  <1>5. \A i \in D : ranges[i].term \in D
    BY DEF Permuted, RangeOf
  <1>6. ASSUME NEW i \in AtCurrent
        PROVE  f[i] \in Int /\ p[i] \in T /\ g[p[i]] = f[i]
    <2>1. ranges[i].term \in D /\ i \in D
      BY <1>4, <1>5
    <2>2. ScoreIn(query, ranges[i].term, current_doc) = score_fn(ranges[i].term, front(ranges[i]))
      BY <2>1, AtCurrentIs, ScoreInIs
    <2>3. ScoreIn(query, ranges[i].term, current_doc) \in Int
      BY <2>1, ScoreInIs
    <2> QED BY <2>1, <2>2, <2>3
  <1>7. \A i, j \in AtCurrent : p[i] = p[j] => i = j
    BY <1>4 DEF Permuted
  <1>8. \A t \in T : \E i \in AtCurrent : p[i] = t
    OBVIOUS
  <1>9. T \in SUBSET D
    BY <1>4, <1>5
  <1>10. ASSUME NEW t \in D \ T PROVE g[t] = 0
    <2>1. PICK i \in D : ranges[i].term = t
      BY DEF Permuted
    <2>2. i \notin AtCurrent
      BY <2>1
    <2>3. Postings(query, t, current_doc) = {}
      BY <2>1, <2>2, AtCurrentIs
    <2> QED BY <2>3, ScoreInIs
  <1> HIDE DEF D, T, f, g, p
  <1>11. SumFunctionOnSet(f, AtCurrent) = SumFunctionOnSet(g, T)
    BY <1>4, <1>6, <1>7, <1>8, SetSumMap
  <1>12. SumFunctionOnSet(g, D) = SumFunctionOnSet(g, T)
    BY <1>2, <1>3, <1>9, <1>10, SetSumZero
  <1> QED BY <1>1, <1>2, <1>11, <1>12

(* After a round the postings up to the current document are behind.       *)
LEMMA AdvancedIs ==
  ASSUME query \in Queries, Permuted(query, ranges),
         BeforeDocument(query, ranges, current_doc), current_doc \in Documents
  PROVE  /\ Permuted(query, AdvancedRanges)
         /\ \A i \in DOMAIN query : \A k \in DOMAIN query[AdvancedRanges[i].term] :
              query[AdvancedRanges[i].term][k].document <= current_doc <=> k < AdvancedRanges[i].left
  <1> DEFINE A == AdvancedRanges
  <1>1. DOMAIN A = DOMAIN query /\ DOMAIN ranges = DOMAIN query
    BY DEF AdvancedRanges, Permuted
  <1>2. ASSUME NEW i \in DOMAIN query
        PROVE  /\ A[i] \in RangeOf(query) /\ A[i].term = ranges[i].term
               /\ A[i].left = IF i \in AtCurrent THEN ranges[i].left + 1 ELSE ranges[i].left
    <2>1. ranges[i] \in RangeOf(query)
      BY DEF Permuted
    <2> QED BY <1>1, <2>1 DEF AdvancedRanges, advance, RangeOf
  <1> HIDE DEF A
  <1>3. Permuted(query, A)
    BY <1>1, <1>2 DEF Permuted
  <1>4. ASSUME NEW i \in DOMAIN query, NEW k \in DOMAIN query[A[i].term]
        PROVE  query[A[i].term][k].document <= current_doc <=> k < A[i].left
    <2> DEFINE t == ranges[i].term
               l == ranges[i].left
               list == query[t]
    <2>1. t \in DOMAIN query /\ l \in Nat \ {0} /\ A[i].term = t
      BY <1>2 DEF Permuted, RangeOf
    <2>2. /\ Len(list) \in Nat /\ DOMAIN list = 1..Len(list)
          /\ \A m \in DOMAIN list : list[m].document \in Nat
          /\ \A m, n \in DOMAIN list : m < n => list[m].document < list[n].document
      BY <2>1, QueryIs
    <2>3. \A m \in DOMAIN list : list[m].document < current_doc <=> m < l
      BY DEF BeforeDocument
    <2>4. current_doc \in Nat /\ k \in DOMAIN list
      BY <2>1, RetrievalAssumption DEF Documents
    <2>5. CASE i \in AtCurrent
      <3>1. l \in DOMAIN list /\ list[l].document = current_doc
        BY <2>5, AtCurrentIs DEF Postings
      <3>2. A[i].left = l + 1
        BY <2>5, <1>2
      <3> HIDE DEF list, t, l
      <3>3. k < l \/ k = l \/ (l < k /\ list[l].document < list[k].document)
        BY <2>1, <2>2, <2>4, <3>1
      <3>4. list[k].document <= current_doc <=> k < l + 1
        BY <2>1, <2>2, <2>3, <2>4, <3>1, <3>3
      <3> QED BY <3>2, <3>4, <2>1 DEF list
    <2>6. CASE i \notin AtCurrent
      <3>1. list[k].document # current_doc
        BY <2>1, <2>4, <2>6, AtCurrentIs DEF Postings
      <3>2. A[i].left = l
        BY <2>6, <1>2
      <3> HIDE DEF list, t, l
      <3>3. list[k].document <= current_doc <=> k < l
        BY <2>1, <2>2, <2>3, <2>4, <3>1
      <3> QED BY <3>2, <3>3, <2>1 DEF list
    <2> QED BY <2>5, <2>6
  <1> QED BY <1>3, <1>4 DEF A

LEMMA MinOf ==
  ASSUME NEW S \in SUBSET Nat, S # {}
  PROVE  Min(S) \in S /\ \A m \in S : Min(S) <= m
  <1>1. \E n \in S : \A m \in S : n <= m
    BY LeastNumber
  <1> QED BY <1>1 DEF Min

(* Where a range stands after a round, if it is not at its end.            *)
LEMMA LeftIs ==
  ASSUME query \in Queries, Permuted(query, ranges),
         BeforeDocument(query, ranges, current_doc), current_doc \in Documents,
         NEW i \in DOMAIN query
  PROVE  LET t == AdvancedRanges[i].term
             l == AdvancedRanges[i].left
         IN  /\ t \in DOMAIN query /\ l \in Nat \ {0}
             /\ i \in Left <=> l \in DOMAIN query[t]
             /\ i \in Left => /\ front(AdvancedRanges[i]) = query[t][l]
                              /\ query[t][l].document \in Documents
                              /\ current_doc < query[t][l].document
  <1> DEFINE t == AdvancedRanges[i].term
             l == AdvancedRanges[i].left
  <1>1. Permuted(query, AdvancedRanges) /\ i \in DOMAIN ranges
    BY AdvancedIs DEF Permuted
  <1>2. t \in DOMAIN query /\ l \in Nat \ {0}
    BY <1>1 DEF Permuted, RangeOf
  <1>3. Len(query[t]) \in Nat /\ DOMAIN query[t] = 1..Len(query[t])
    BY <1>2, QueryIs
  <1>4. i \in Left <=> l \in DOMAIN query[t]
    BY <1>1, <1>2, <1>3 DEF Left, empty
  <1>5. ASSUME l \in DOMAIN query[t]
        PROVE  query[t][l].document \in Documents /\ current_doc < query[t][l].document
    <2>1. query[t][l].document \in Documents /\ query[t][l].document \in Nat
      BY <1>2, <1>5, QueryIs
    <2>2. query[t][l].document <= current_doc <=> l < l
      BY <1>5, AdvancedIs
    <2>3. current_doc \in Nat
      BY RetrievalAssumption DEF Documents
    <2> QED BY <1>2, <2>1, <2>2, <2>3
  <1> QED BY <1>2, <1>4, <1>5 DEF front

(* No list has a document between the current and the fronts after it.     *)
LEMMA NoneBetween ==
  ASSUME query \in Queries, Permuted(query, ranges),
         BeforeDocument(query, ranges, current_doc), current_doc \in Documents,
         NEW i \in DOMAIN query, NEW k \in DOMAIN query[AdvancedRanges[i].term],
         ~(k < AdvancedRanges[i].left)
  PROVE  /\ i \in Left
         /\ front(AdvancedRanges[i]).document <= query[AdvancedRanges[i].term][k].document
  <1> DEFINE t == AdvancedRanges[i].term
             l == AdvancedRanges[i].left
             list == query[t]
  <1>1. /\ t \in DOMAIN query /\ l \in Nat \ {0} /\ (i \in Left <=> l \in DOMAIN list)
        /\ i \in Left => front(AdvancedRanges[i]) = list[l]
    BY LeftIs
  <1>2. /\ Len(list) \in Nat /\ DOMAIN list = 1..Len(list)
        /\ \A m \in DOMAIN list : list[m].document \in Nat
        /\ \A m, n \in DOMAIN list : m < n => list[m].document < list[n].document
    BY <1>1, QueryIs
  <1> HIDE DEF t, l, list
  <1>3. k \in DOMAIN list /\ ~(k < l)
    BY DEF t, l, list
  <1>4. l \in DOMAIN list
    BY <1>1, <1>2, <1>3
  <1>5. list[l].document <= list[k].document
    <2>1. l = k \/ l < k
      BY <1>1, <1>2, <1>3
    <2> QED BY <2>1, <1>2, <1>3, <1>4
  <1> QED BY <1>1, <1>4, <1>5 DEF t, l, list

LEMMA Between ==
  ASSUME query \in Queries, Permuted(query, ranges),
         BeforeDocument(query, ranges, current_doc), current_doc \in Documents,
         NEW d \in Int, current_doc < d,
         \A i \in Left : d <= front(AdvancedRanges[i]).document
  PROVE  /\ BeforeDocument(query, AdvancedRanges, d)
         /\ \A e \in Documents : current_doc < e /\ e < d => Score(e) = 0
  <1> DEFINE A == AdvancedRanges
  <1>1. Permuted(query, A)
    BY AdvancedIs
  <1>2. ASSUME NEW i \in DOMAIN query, NEW k \in DOMAIN query[A[i].term]
        PROVE  /\ query[A[i].term][k].document < d <=> k < A[i].left
               /\ query[A[i].term][k].document <= current_doc <=> k < A[i].left
    <2>1. query[A[i].term][k].document <= current_doc <=> k < A[i].left
      BY AdvancedIs
    <2>2. A[i].term \in DOMAIN query
      BY <1>1 DEF Permuted, RangeOf
    <2>3. query[A[i].term][k].document \in Nat /\ current_doc \in Nat
      <3>1. query[A[i].term][k].document \in Documents
        <4> HIDE DEF A
        <4> QED BY <2>2, QueryIs
      <3> QED BY <3>1, RetrievalAssumption DEF Documents
    <2>4. CASE k < A[i].left
      BY <2>1, <2>3, <2>4
    <2>5. CASE ~(k < A[i].left)
      <3>1. i \in Left /\ front(A[i]).document <= query[A[i].term][k].document
        BY <2>5, NoneBetween
      <3>2. front(A[i]).document \in Nat
        <4>1. front(A[i]).document \in Documents
          BY <3>1, LeftIs
        <4> QED BY <4>1, RetrievalAssumption DEF Documents
      <3>3. d <= front(A[i]).document
        BY <3>1
      <3> QED BY <2>1, <2>3, <2>5, <3>1, <3>2, <3>3
    <2> QED BY <2>4, <2>5
  <1>3. ASSUME NEW e \in Documents, current_doc < e, e < d PROVE Score(e) = 0
    <2>1. ASSUME NEW t \in DOMAIN query, NEW k \in Postings(query, t, e) PROVE FALSE
      <3>1. PICK i \in DOMAIN query : A[i].term = t
        BY <1>1 DEF Permuted
      <3>2. k \in DOMAIN query[A[i].term] /\ query[A[i].term][k].document = e
        BY <3>1 DEF Postings
      <3>3. e \in Nat /\ current_doc \in Nat
        BY RetrievalAssumption DEF Documents
      <3> HIDE DEF A
      <3> QED BY <3>2, <3>3, <1>2, <1>3
    <2> QED BY <2>1, NoPostings DEF Score
  <1> QED BY <1>2, <1>3 DEF BeforeDocument

LEMMA NextIs ==
  ASSUME query \in Queries, Permuted(query, ranges),
         BeforeDocument(query, ranges, current_doc), current_doc \in Documents, Left # {}
  PROVE  /\ NextDocument \in Documents /\ current_doc < NextDocument
         /\ \A i \in Left : NextDocument <= front(AdvancedRanges[i]).document
         /\ NextList \in DOMAIN query
  <1> DEFINE doc(i) == front(AdvancedRanges[i]).document
             Docs == { doc(i) : i \in Left }
             At == { i \in Left : doc(i) = NextDocument }
  <1>1. Left \subseteq DOMAIN query
    BY DEF Left, Permuted
  <1>2. \A i \in Left : doc(i) \in Documents /\ current_doc < doc(i)
    BY <1>1, LeftIs
  <1>3. \A d \in Documents : d \in Nat
    BY RetrievalAssumption DEF Documents
  <1>4. NextDocument = Min(Docs)
    BY DEF NextDocument
  <1>5. Docs \in SUBSET Nat /\ Docs # {}
    BY <1>2, <1>3
  <1>6. NextDocument \in Docs /\ \A d \in Docs : NextDocument <= d
    <2> HIDE DEF Docs
    <2> QED BY <1>4, <1>5, MinOf
  <1>7. NextList = Min(At)
    BY DEF NextList
  <1>8. At \in SUBSET Nat /\ At # {}
    <2>1. \A i \in DOMAIN query : i \in Nat
      BY QueryIs
    <2> QED BY <2>1, <1>1, <1>6
  <1>9. NextList \in At
    <2> HIDE DEF At
    <2> QED BY <1>7, <1>8, MinOf
  <1> QED BY <1>1, <1>2, <1>6, <1>9

(* A round offers the current document.                                    *)
LEMMA RoundOffers ==
  ASSUME DaatInv, running, accumulate(current_doc, CurrentScore), query' = query
  PROVE  /\ OfferInv'
         /\ \A i \in DOMAIN offered' : offered'[i] <= current_doc
         /\ \A d \in Worthy : d <= current_doc => d \in Range(offered')
         /\ Worthy' = Worthy
  <1>1. accumulate(current_doc, Score(current_doc))
    BY CurrentScoreIs DEF DaatInv, OfferInv
  <1> QED BY <1>1, DocumentOffered DEF DaatInv

LEMMA ContinueStep == ASSUME DaatInv, Continue PROVE DaatInv'
  <1> DEFINE N == NextDocument
  <1>1. /\ query \in Queries /\ Permuted(query, ranges) /\ current_doc \in Documents
        /\ BeforeDocument(query, ranges, current_doc) /\ running /\ Left # {}
    BY DEF DaatInv, OfferInv, Continue
  <1>2. /\ current_doc' = N /\ query' = query /\ running' = running
        /\ ranges' = Swapped(AdvancedRanges, 1, NextList)
        /\ accumulate(current_doc, CurrentScore)
    BY DEF Continue
  <1>3. /\ N \in Documents /\ current_doc < N /\ NextList \in DOMAIN query
        /\ \A i \in Left : N <= front(AdvancedRanges[i]).document
    BY <1>1, NextIs
  <1>4. \A d \in Documents : d \in Int
    BY RetrievalAssumption DEF Documents
  <1>5. /\ BeforeDocument(query, AdvancedRanges, N)
        /\ \A e \in Documents : current_doc < e /\ e < N => Score(e) = 0
    <2>1. N \in Int
      BY <1>3, <1>4
    <2> HIDE DEF N
    <2> QED BY <1>1, <1>3, <2>1, Between
  <1>6. /\ OfferInv' /\ Worthy' = Worthy
        /\ \A i \in DOMAIN offered' : offered'[i] <= current_doc
        /\ \A d \in Worthy : d <= current_doc => d \in Range(offered')
    BY <1>1, <1>2, RoundOffers
  <1> HIDE DEF N
  <1>7. 1 \in DOMAIN query
    BY <1>1, QueryIs
  <1>8. /\ Permuted(query, ranges')
        /\ \A i \in DOMAIN query : \E j \in DOMAIN query : ranges'[i] = AdvancedRanges[j]
    <2>1. Permuted(query, AdvancedRanges)
      BY <1>1, AdvancedIs
    <2>2. /\ Permuted(query, Swapped(AdvancedRanges, 1, NextList))
          /\ \A i \in DOMAIN query : \E j \in DOMAIN query :
               Swapped(AdvancedRanges, 1, NextList)[i] = AdvancedRanges[j]
      BY <2>1, <1>3, <1>7, SwappedPermutes
    <2> QED BY <2>2, <1>2
  <1>9. BeforeDocument(query, ranges', N)
    <2> SUFFICES ASSUME NEW i \in DOMAIN query
                 PROVE  \A k \in DOMAIN query[ranges'[i].term] :
                          query[ranges'[i].term][k].document < N <=> k < ranges'[i].left
      BY DEF BeforeDocument
    <2>1. PICK j \in DOMAIN query : ranges'[i] = AdvancedRanges[j]
      BY <1>8
    <2> QED BY <2>1, <1>5 DEF BeforeDocument
  <1>10. \A i \in DOMAIN offered' : offered'[i] < N
    <2> SUFFICES ASSUME NEW i \in DOMAIN offered' PROVE offered'[i] < N
      OBVIOUS
    <2>1. offered'[i] \in Documents
      BY <1>6 DEF OfferInv
    <2> QED BY <2>1, <1>1, <1>3, <1>4, <1>6
  <1>11. \A d \in Worthy : d < N => d \in Range(offered')
    <2> SUFFICES ASSUME NEW d \in Worthy, d < N PROVE d \in Range(offered')
      OBVIOUS
    <2>1. d \in Documents /\ Score(d) # 0
      BY DEF Worthy
    <2>2. ~(current_doc < d)
      BY <2>1, <1>5
    <2>3. d <= current_doc
      BY <2>1, <2>2, <1>1, <1>4
    <2> QED BY <2>3, <1>6
  <1> QED BY <1>1, <1>2, <1>3, <1>6, <1>8, <1>9, <1>10, <1>11 DEF DaatInv, OfferedBefore

LEMMA FinishStep == ASSUME DaatInv, Finish PROVE DaatInv'
  <1>1. /\ query \in Queries /\ Permuted(query, ranges) /\ current_doc \in Documents
        /\ BeforeDocument(query, ranges, current_doc) /\ running /\ Left = {}
    BY DEF DaatInv, OfferInv, Finish
  <1>2. /\ current_doc' = current_doc /\ query' = query /\ ~running' /\ running' \in BOOLEAN
        /\ ranges' = AdvancedRanges
        /\ accumulate(current_doc, CurrentScore)
    BY DEF Finish
  <1>3. CollectionSize \in Int /\ current_doc < CollectionSize
    BY <1>1, RetrievalAssumption DEF Documents
  <1>4. \A e \in Documents : current_doc < e /\ e < CollectionSize => Score(e) = 0
    BY <1>1, <1>3, Between
  <1>5. /\ OfferInv' /\ Worthy' = Worthy
        /\ \A d \in Worthy : d <= current_doc => d \in Range(offered')
    BY <1>1, <1>2, RoundOffers
  <1>6. Permuted(query, ranges')
    BY <1>1, <1>2, AdvancedIs
  <1>7. \A d \in Worthy : d \in Range(offered')
    <2> SUFFICES ASSUME NEW d \in Worthy PROVE d \in Range(offered')
      OBVIOUS
    <2>1. d \in Documents /\ Score(d) # 0
      BY DEF Worthy
    <2>2. d \in Int /\ current_doc \in Int /\ d < CollectionSize
      BY <2>1, <1>1, RetrievalAssumption DEF Documents
    <2>3. d <= current_doc
      BY <2>1, <2>2, <1>4
    <2> QED BY <2>3, <1>5
  <1> QED BY <1>1, <1>2, <1>5, <1>6, <1>7 DEF DaatInv

-----------------------------------------------------------------------------
(* The first range of the traversal.                                       *)
LEMMA MinPositionsDef ==
  ASSUME query \in Queries
  PROVE  MinPositions =
           [i \in DOMAIN query |->
              IF i = 1 THEN 1
              ELSE IF order(Whole[i], Whole[MinPositions[i - 1]]) THEN i ELSE MinPositions[i - 1]]
  <1> DEFINE Body(g, i) ==
               IF i = 1 THEN 1
               ELSE IF order(Whole[i], Whole[g[i - 1]]) THEN i ELSE g[i - 1]
             Holds == { m \in Nat : \E g : g = [i \in 1..m |-> Body(g, i)] }
  <1>1. \A f, g, i : i = 1 \/ f[i - 1] = g[i - 1] => Body(f, i) = Body(g, i)
    OBVIOUS
  <1>2. MinPositions = CHOOSE g : g = [i \in DOMAIN query |-> Body(g, i)]
    BY DEF MinPositions
  <1> HIDE DEF Body
  <1>3. 0 \in Holds
    <2>1. [i \in 1..0 |-> 0] = [i \in 1..0 |-> Body([j \in 1..0 |-> 0], i)]
      OBVIOUS
    <2> QED BY <2>1
  <1>4. ASSUME NEW m \in Nat, m \in Holds PROVE m + 1 \in Holds
    <2>1. PICK g : g = [i \in 1..m |-> Body(g, i)]
      BY <1>4
    <2> DEFINE next == [i \in 1..m + 1 |-> IF i <= m THEN g[i] ELSE Body(g, i)]
    <2>2. ASSUME NEW i \in 1..m + 1 PROVE next[i] = Body(next, i)
      <3>1. next[i] = Body(g, i)
        BY <2>1
      <3>2. CASE i = 1
        BY <3>1, <3>2, <1>1
      <3>3. CASE i > 1
        <4>1. i - 1 \in 1..m
          BY <3>3
        <4>2. next[i - 1] = g[i - 1]
          BY <4>1
        <4> QED BY <4>2, <3>1, <1>1
      <3> QED BY <3>2, <3>3
    <2>3. next = [i \in 1..m + 1 |-> next[i]]
      OBVIOUS
    <2> HIDE DEF next
    <2>4. next = [i \in 1..m + 1 |-> Body(next, i)]
      BY <2>2, <2>3
    <2>5. \E f : f = [i \in 1..m + 1 |-> Body(f, i)]
      BY <2>4
    <2> QED BY <2>5
  <1>5. \A m \in Nat : m \in Holds
    <2> HIDE DEF Holds
    <2> QED BY <1>3, <1>4, InductionFrom0
  <1>6. DOMAIN query = 1..Len(query) /\ Len(query) \in Nat
    BY QueryIs
  <1>7. \E g : g = [i \in DOMAIN query |-> Body(g, i)]
    BY <1>5, <1>6
  <1>8. MinPositions = [i \in DOMAIN query |-> Body(MinPositions, i)]
    BY <1>2, <1>7
  <1> QED BY <1>8 DEF Body

(* Of the first m lists it is one that is before no other, if one of them  *)
(* has a posting at all.                                                   *)
FirstOf(m) ==
  /\ MinPositions[m] \in 1..m
  /\ \A i \in 1..m : query[i] # << >> =>
       /\ query[MinPositions[m]] # << >>
       /\ query[MinPositions[m]][1].document <= query[i][1].document

LEMMA MinPositionsAreFirst ==
  ASSUME query \in Queries
  PROVE  \A m \in DOMAIN query : FirstOf(m)
  <1> DEFINE n == Len(query)
             least(m) == MinPositions[m]
             doc(i) == query[i][1].document
             Holds == { m \in Nat : m \in 1..n => FirstOf(m) }
  <1>1. n \in Nat /\ DOMAIN query = 1..n
    BY QueryIs
  <1>2. \A i \in 1..n : /\ empty(Whole[i]) <=> query[i] = << >>
                        /\ front(Whole[i]) = query[i][1]
                        /\ query[i] # << >> => doc(i) \in Nat
    <2> SUFFICES ASSUME NEW i \in 1..n
                 PROVE  /\ empty(Whole[i]) <=> query[i] = << >>
                        /\ front(Whole[i]) = query[i][1]
                        /\ query[i] # << >> => doc(i) \in Nat
      OBVIOUS
    <2>1. /\ query[i] \in Lists /\ Len(query[i]) \in Nat /\ DOMAIN query[i] = 1..Len(query[i])
          /\ \A k \in DOMAIN query[i] : query[i][k].document \in Nat
      BY <1>1, QueryIs
    <2>2. query[i] = << >> <=> Len(query[i]) = 0
      BY <2>1, ListsAssumption
    <2>3. Whole[i] = [term |-> i, left |-> 1]
      BY <1>1 DEF Whole
    <2> QED BY <2>1, <2>2, <2>3 DEF empty, front
  <1>3. \A m \in 1..n : least(m) = IF m = 1 THEN 1
                                   ELSE IF order(Whole[m], Whole[least(m - 1)]) THEN m ELSE least(m - 1)
    <2>1. MinPositions =
           [i \in DOMAIN query |->
              IF i = 1 THEN 1
              ELSE IF order(Whole[i], Whole[MinPositions[i - 1]]) THEN i ELSE MinPositions[i - 1]]
      BY MinPositionsDef
    <2> QED BY <2>1, <1>1
  <1> HIDE DEF n, least, doc
  <1>4. 0 \in Holds
    BY <1>1
  <1>5. ASSUME NEW m \in Nat, m \in Holds, m + 1 \in 1..n PROVE FirstOf(m + 1)
    <2>1. CASE m = 0
      <3>1. least(1) = 1 /\ 1..1 = {1} /\ 1 \in 1..n
        BY <1>1, <1>3, <1>5, <2>1
      <3>2. query[1] # << >> => doc(1) \in Nat
        BY <3>1, <1>2
      <3> QED BY <2>1, <3>1, <3>2 DEF FirstOf, least, doc
    <2>2. CASE m # 0
      <3> DEFINE a == least(m)
      <3>1. m \in 1..n /\ FirstOf(m) /\ m + 1 # 1 /\ m + 1 - 1 = m
        BY <1>1, <1>5, <2>2
      <3>2. /\ a \in 1..m /\ a \in 1..n
            /\ \A i \in 1..m : query[i] # << >> => query[a] # << >> /\ doc(a) <= doc(i)
        BY <1>1, <3>1 DEF FirstOf, least, doc
      <3>3. least(m + 1) = IF order(Whole[m + 1], Whole[a]) THEN m + 1 ELSE a
        BY <1>3, <1>5, <3>1
      <3> HIDE DEF a
      <3>4. order(Whole[m + 1], Whole[a]) <=>
              \/ query[a] = << >>
              \/ query[m + 1] # << >> /\ doc(m + 1) < doc(a)
        BY <1>2, <1>5, <3>2 DEF order, doc
      <3>5. least(m + 1) \in 1..m + 1
        BY <3>2, <3>3
      <3>6. ASSUME NEW i \in 1..m + 1, query[i] # << >>
            PROVE  query[least(m + 1)] # << >> /\ doc(least(m + 1)) <= doc(i)
        <4>1. i \in 1..n /\ doc(i) \in Nat /\ (i = m + 1 \/ i \in 1..m)
          BY <1>1, <1>2, <1>5, <3>6
        <4>2. CASE query[a] = << >>
          <5>1. i = m + 1 /\ least(m + 1) = m + 1
            BY <3>2, <3>3, <3>4, <3>6, <4>1, <4>2
          <5> QED BY <5>1, <3>6, <4>1
        <4>3. CASE query[a] # << >> /\ i = m + 1
          <5>1. doc(a) \in Nat
            BY <1>2, <3>2, <4>3
          <5>2. CASE doc(m + 1) < doc(a)
            <6>1. least(m + 1) = m + 1
              BY <3>3, <3>4, <3>6, <4>3, <5>2
            <6> QED BY <6>1, <3>6, <4>1, <4>3
          <5>3. CASE ~(doc(m + 1) < doc(a))
            <6>1. least(m + 1) = a
              BY <3>3, <3>4, <4>3, <5>3
            <6> QED BY <6>1, <5>1, <5>3, <4>1, <4>3
          <5> QED BY <5>2, <5>3
        <4>4. CASE query[a] # << >> /\ i \in 1..m
          <5>1. doc(a) \in Nat /\ doc(a) <= doc(i)
            BY <1>2, <3>2, <3>6, <4>4
          <5>2. CASE order(Whole[m + 1], Whole[a])
            <6>1. least(m + 1) = m + 1 /\ query[m + 1] # << >> /\ doc(m + 1) < doc(a)
              BY <3>3, <3>4, <4>4, <5>2
            <6>2. doc(m + 1) \in Nat
              BY <1>2, <1>5, <6>1
            <6> QED BY <6>1, <6>2, <5>1, <4>1
          <5>3. CASE ~order(Whole[m + 1], Whole[a])
            BY <3>3, <4>4, <5>1, <5>3
          <5> QED BY <5>2, <5>3
        <4> QED BY <4>1, <4>2, <4>3, <4>4
      <3> QED BY <3>5, <3>6 DEF FirstOf, least, doc
    <2> QED BY <2>1, <2>2
  <1>6. \A m \in Nat : m \in Holds
    <2>1. \A m \in Nat : m \in Holds => m + 1 \in Holds
      BY <1>5
    <2> HIDE DEF Holds
    <2> QED BY <1>4, <2>1, InductionFrom0
  <1> QED BY <1>1, <1>6

LEMMA WholePermuted ==
  ASSUME query \in Queries
  PROVE  /\ Permuted(query, Whole)
         /\ \A i \in DOMAIN query : Whole[i].term = i /\ Whole[i].left = 1
  <1>1. DOMAIN Whole = DOMAIN query /\ \A i \in DOMAIN query : Whole[i] = [term |-> i, left |-> 1]
    BY DEF Whole
  <1> QED BY <1>1 DEF Permuted, RangeOf

(* The traversal starts at the least document of all the lists.            *)
LEMMA FirstDocument ==
  ASSUME query \in Queries, NEW document, document = front(Whole[MinPosition]).document
  PROVE  /\ MinPosition \in DOMAIN query /\ document \in Documents
         /\ \A t \in DOMAIN query : \A k \in DOMAIN query[t] : document <= query[t][k].document
  <1> DEFINE n == Len(query)
             m == MinPosition
  <1>1. n \in Nat \ {0} /\ DOMAIN query = 1..n
    BY QueryIs
  <1>2. FirstOf(n) /\ m = MinPositions[n]
    BY <1>1, MinPositionsAreFirst DEF MinPosition
  <1>3. m \in DOMAIN query
    BY <1>1, <1>2 DEF FirstOf
  <1>4. query[m] # << >>
    <2>1. PICK t \in DOMAIN query : query[t] # << >>
      BY QueryIs
    <2> QED BY <2>1, <1>1, <1>2 DEF FirstOf
  <1>5. \A t \in DOMAIN query : query[t] # << >> => 1 \in DOMAIN query[t]
    <2> SUFFICES ASSUME NEW t \in DOMAIN query, query[t] # << >> PROVE 1 \in DOMAIN query[t]
      OBVIOUS
    <2>1. query[t] \in Lists /\ Len(query[t]) \in Nat /\ DOMAIN query[t] = 1..Len(query[t])
      BY QueryIs
    <2>2. Len(query[t]) # 0
      BY <2>1, ListsAssumption
    <2> QED BY <2>1, <2>2
  <1>6. document = query[m][1].document
    BY <1>3, WholePermuted DEF front
  <1>7. document \in Documents /\ document \in Nat
    BY <1>3, <1>4, <1>5, <1>6, QueryIs
  <1>8. ASSUME NEW t \in DOMAIN query, NEW k \in DOMAIN query[t]
        PROVE  document <= query[t][k].document
    <2>1. /\ Len(query[t]) \in Nat /\ DOMAIN query[t] = 1..Len(query[t])
          /\ \A j \in DOMAIN query[t] : query[t][j].document \in Nat
          /\ \A i, j \in DOMAIN query[t] : i < j => query[t][i].document < query[t][j].document
      BY QueryIs
    <2>2. query[t] # << >> /\ 1 \in DOMAIN query[t]
      BY <1>5
    <2>3. document <= query[t][1].document
      BY <1>1, <1>2, <1>6, <2>2 DEF FirstOf
    <2>4. query[t][1].document <= query[t][k].document
      <3>1. k = 1 \/ 1 < k
        BY <2>1
      <3> QED BY <3>1, <2>1, <2>2
    <2>5. query[t][1].document \in Nat /\ query[t][k].document \in Nat
      BY <2>1, <2>2
    <2> QED BY <2>3, <2>4, <2>5, <1>7
  <1> QED BY <1>3, <1>7, <1>8

LEMMA DaatInitInv == DaatInit => DaatInv
  <1> SUFFICES ASSUME DaatInit PROVE DaatInv
    OBVIOUS
  <1> DEFINE m == MinPosition
  <1>1. /\ OfferInv /\ query \in Queries /\ offered = << >> /\ running = TRUE
        /\ ranges = Swapped(Whole, 1, m) /\ current_doc = front(Whole[m]).document
    BY OfferInit DEF DaatInit, RetrievalInit
  <1>2. /\ m \in DOMAIN query /\ current_doc \in Documents /\ 1 \in DOMAIN query
        /\ \A t \in DOMAIN query : \A k \in DOMAIN query[t] : current_doc <= query[t][k].document
    BY <1>1, FirstDocument, QueryIs
  <1> HIDE DEF m
  <1>3. /\ Permuted(query, ranges)
        /\ \A i \in DOMAIN query : \E j \in DOMAIN query : ranges[i] = Whole[j]
    <2>1. Permuted(query, Whole)
      BY <1>1, WholePermuted
    <2>2. /\ Permuted(query, Swapped(Whole, 1, m))
          /\ \A i \in DOMAIN query : \E j \in DOMAIN query : Swapped(Whole, 1, m)[i] = Whole[j]
      BY <2>1, <1>2, SwappedPermutes
    <2> QED BY <2>2, <1>1
  <1>4. current_doc \in Nat /\ \A d \in Documents : d \in Nat
    BY <1>2, RetrievalAssumption DEF Documents
  <1>5. BeforeDocument(query, ranges, current_doc)
    <2> SUFFICES ASSUME NEW i \in DOMAIN query, NEW k \in DOMAIN query[ranges[i].term]
                 PROVE  query[ranges[i].term][k].document < current_doc <=> k < ranges[i].left
      BY DEF BeforeDocument
    <2>1. PICK j \in DOMAIN query : ranges[i] = Whole[j]
      BY <1>3
    <2>2. ranges[i].term = j /\ ranges[i].left = 1 /\ k \in DOMAIN query[j]
      BY <1>1, <2>1, WholePermuted
    <2>3. k \in Nat /\ k >= 1 /\ query[j][k].document \in Nat
      BY <1>1, <2>2, QueryIs
    <2>4. current_doc <= query[j][k].document
      BY <1>2, <2>2
    <2> QED BY <2>2, <2>3, <2>4, <1>4
  <1>6. \A d \in Worthy : ~(d < current_doc)
    <2> SUFFICES ASSUME NEW d \in Documents, d < current_doc PROVE Score(d) = 0
      BY DEF Worthy
    <2>1. ASSUME NEW t \in DOMAIN query, NEW k \in Postings(query, t, d) PROVE FALSE
      <3>1. k \in DOMAIN query[t] /\ query[t][k].document = d
        BY DEF Postings
      <3> QED BY <3>1, <1>2, <1>4
    <2> QED BY <1>1, <2>1, NoPostings DEF Score
  <1> QED BY <1>1, <1>2, <1>3, <1>5, <1>6 DEF DaatInv, OfferedBefore

LEMMA DaatStep == ASSUME DaatInv, DaatNext PROVE DaatInv'
  BY ContinueStep, FinishStep DEF DaatNext

(* What this invariant says of the traversal.                              *)
LEMMA DaatInvImplies ==
  ASSUME DaatInv
  PROVE  /\ OffersAreScores /\ RangesAtCurrent
         /\ ~running => IsBestAnswer(AnswerOf(top_))
  <1>1. OffersAreScores
    BY DEF DaatInv, OfferInv
  <1>2. ~running => IsBestAnswer(AnswerOf(top_))
    BY BestAnswer DEF DaatInv
  <1>3. RangesAtCurrent
    <2> SUFFICES ASSUME running, NEW r \in Range(ranges), NEW k \in DOMAIN query[r.term]
                 PROVE  query[r.term][k].document < current_doc <=> k < r.left
      BY DEF RangesAtCurrent
    <2>1. PICK i \in DOMAIN query : r = ranges[i]
      BY DEF DaatInv, Permuted, Range
    <2> QED BY <2>1 DEF DaatInv, BeforeDocument
  <1> QED BY <1>1, <1>2, <1>3

-----------------------------------------------------------------------------
(* Term at a time.                                                         *)
PartialScore(q, m, d) == SumFunctionOnSet([t \in DOMAIN q |-> ScoreIn(q, t, d)], 1..m)

TaatInv ==
  /\ OfferInv
  /\ term \in 1..Len(query) + 1 /\ key \in 0..CollectionSize
  /\ key # 0 => term > Len(query)
  /\ accumulators \in [Documents -> Int] /\ max_values \in [Blocks -> Int]
  /\ \A d \in Documents : accumulators[d] = PartialScore(query, term - 1, d)
  /\ \A i \in DOMAIN offered : offered[i] < key
  /\ SkippedAreWorthless

LEMMA BlockIs ==
  ASSUME NEW b \in Nat \ {0}, NEW k \in Nat, k % b = 0, NEW d \in Nat, k <= d, d < k + b
  PROVE  d \div b = k \div b
  <1> DEFINE kq == k \div b
             dq == d \div b
             dr == d % b
  <1>1. k = b * kq + (k % b) /\ kq \in Int
    OBVIOUS
  <1>2. d = b * dq + dr /\ dq \in Int /\ dr \in Int /\ 0 <= dr /\ dr < b
    OBVIOUS
  <1> HIDE DEF kq, dq, dr
  <1>3. k = b * kq
    BY <1>1
  <1>4. dq = kq
    <2>1. CASE dq >= kq + 1
      <3>1. b * dq >= b * (kq + 1)
        BY <1>1, <1>2, <2>1
      <3>2. b * (kq + 1) = b * kq + b
        BY <1>1
      <3>3. b * kq \in Int /\ b * dq \in Int
        BY <1>1, <1>2
      <3> QED BY <1>2, <1>3, <3>1, <3>2, <3>3
    <2>2. CASE dq + 1 <= kq
      <3>1. b * (dq + 1) <= b * kq
        BY <1>1, <1>2, <2>2
      <3>2. b * (dq + 1) = b * dq + b
        BY <1>2
      <3>3. b * kq \in Int /\ b * dq \in Int
        BY <1>1, <1>2
      <3> QED BY <1>2, <1>3, <3>1, <3>2, <3>3
    <2> QED BY <1>1, <1>2, <2>1, <2>2
  <1> QED BY <1>4 DEF kq, dq

LEMMA MaxOfFinite ==
  ASSUME NEW S \in SUBSET Int, IsFiniteSet(S), S # {}
  PROVE  Max(S) \in S /\ \A m \in S : m <= Max(S)
  <1> DEFINE Holds == { T \in SUBSET S : T # {} => \E x \in T : \A y \in T : y <= x }
  <1>1. ASSUME NEW T \in SUBSET S, \A U \in SUBSET T : U # T => U \in Holds
        PROVE  T \in Holds
    <2> SUFFICES ASSUME T # {} PROVE \E x \in T : \A y \in T : y <= x
      OBVIOUS
    <2>1. PICK z \in T : TRUE
      OBVIOUS
    <2>2. CASE T \ {z} = {}
      BY <2>1, <2>2
    <2>3. CASE T \ {z} # {}
      <3>1. T \ {z} \in SUBSET T /\ T \ {z} # T
        BY <2>1
      <3>2. T \ {z} \in Holds
        BY <3>1, <1>1
      <3>3. PICK x \in T \ {z} : \A y \in T \ {z} : y <= x
        BY <3>2, <2>3
      <3>4. CASE z <= x
        BY <3>3, <3>4
      <3>5. CASE ~(z <= x)
        <4>1. \A y \in T : y <= z
          BY <2>1, <3>3, <3>5
        <4> QED BY <4>1, <2>1
      <3> QED BY <3>4, <3>5
    <2> QED BY <2>2, <2>3
  <1>2. \A T \in SUBSET S : T \in Holds
    <2> HIDE DEF Holds
    <2> QED BY <1>1, SubsetInduction
  <1>3. S \in Holds
    BY <1>2
  <1>4. \E x \in S : \A y \in S : x >= y
    <2>1. PICK x \in S : \A y \in S : y <= x
      BY <1>3
    <2>2. \A y \in S : x >= y
      BY <2>1
    <2> QED BY <2>2
  <1>5. Max(S) \in S /\ \A y \in S : Max(S) >= y
    BY <1>4 DEF Max
  <1> QED BY <1>5

(* The bound of a block is raised to every value that its accumulators     *)
(* take, and is not lowered.                                               *)
LEMMA RaisedMaxIs ==
  ASSUME query \in Queries, term \in DOMAIN query, max_values \in [Blocks -> Int],
         NEW sums \in [Documents -> Int]
  PROVE  /\ RaisedMax(sums) \in [Blocks -> Int]
         /\ \A b \in Blocks : max_values[b] <= RaisedMax(sums)[b]
         /\ \A i \in DOMAIN query[term] :
              sums[query[term][i].document] <= RaisedMax(sums)[Block(query[term][i].document)]
  <1> DEFINE list == query[term]
             At(b) == { j \in DOMAIN list : Block(list[j].document) = b }
             Values(b) == {max_values[b]} \cup { sums[list[i].document] : i \in At(b) }
  <1>1. /\ Len(list) \in Nat /\ DOMAIN list = 1..Len(list)
        /\ \A i \in DOMAIN list : list[i].document \in Documents
    BY QueryIs
  <1> HIDE DEF list
  <1>2. RaisedMax(sums) = [b \in Blocks |-> Max(Values(b))]
    BY DEF RaisedMax, list
  <1>3. ASSUME NEW b \in Blocks
        PROVE  Max(Values(b)) \in Int /\ \A v \in Values(b) : v <= Max(Values(b))
    <2>1. Values(b) \in SUBSET Int /\ Values(b) # {}
      BY <1>1
    <2>2. IsFiniteSet(Values(b))
      <3>1. IsFiniteSet(DOMAIN list)
        BY <1>1, FS_Interval
      <3>2. IsFiniteSet(At(b))
        BY <3>1, FS_Subset
      <3>3. IsFiniteSet({ sums[list[i].document] : i \in At(b) })
        <4> DEFINE T == { sums[list[i].document] : i \in At(b) }
                   f == [i \in At(b) |-> sums[list[i].document]]
        <4>1. f \in Surjection(At(b), T)
          BY DEF Surjection
        <4> HIDE DEF At, T, f
        <4> QED BY <3>2, <4>1, FS_Surjection DEF T
      <3>4. IsFiniteSet({max_values[b]})
        BY FS_Singleton
      <3> HIDE DEF At
      <3> QED BY <3>3, <3>4, FS_Union
    <2> HIDE DEF Values
    <2>3. Max(Values(b)) \in Values(b) /\ \A v \in Values(b) : v <= Max(Values(b))
      BY <2>1, <2>2, MaxOfFinite
    <2> QED BY <2>1, <2>3
  <1>4. \A i \in DOMAIN list : /\ Block(list[i].document) \in Blocks
                               /\ sums[list[i].document] \in Values(Block(list[i].document))
    BY <1>1 DEF Blocks
  <1>5. \A b \in Blocks : max_values[b] \in Values(b)
    OBVIOUS
  <1> HIDE DEF Values
  <1> QED BY <1>2, <1>3, <1>4, <1>5 DEF list

LEMMA PartialScoreIs ==
  ASSUME NEW q \in Queries, NEW d
  PROVE  /\ PartialScore(q, 0, d) = 0
         /\ \A m \in DOMAIN q : PartialScore(q, m, d) = PartialScore(q, m - 1, d) + ScoreIn(q, m, d)
         /\ PartialScore(q, Len(q), d) = ScoreOf(q, d)
         /\ \A m \in 0..Len(q) : PartialScore(q, m, d) \in Int
  <1> DEFINE f == [t \in DOMAIN q |-> ScoreIn(q, t, d)]
             n == Len(q)
  <1>1. /\ n \in Nat /\ DOMAIN q = 1..n
        /\ \A t \in 1..n : f[t] \in Int /\ f[t] = ScoreIn(q, t, d)
    BY QueryIs, ScoreIsSum
  <1>2. \A m : PartialScore(q, m, d) = SumFunctionOnSet(f, 1..m)
    BY DEF PartialScore
  <1>3. ScoreOf(q, d) = SumFunctionOnSet(f, 1..n)
    BY <1>1, ScoreIsSum
  <1> HIDE DEF f, n
  <1>4. ASSUME NEW m \in 0..n
        PROVE  /\ SumFunctionOnSet(f, 1..m) \in Int
               /\ m # 0 => SumFunctionOnSet(f, 1..m) = f[m] + SumFunctionOnSet(f, 1..m - 1)
    <2> DEFINE S == 1..m
    <2>1. IsFiniteSet(S)
      BY FS_Interval
    <2>2. \A x \in S : f[x] \in Int
      BY <1>1
    <2>3. m # 0 => m \in S /\ S \ {m} = 1..m - 1
      OBVIOUS
    <2> HIDE DEF S
    <2>4. /\ SumFunctionOnSet(f, S) \in Int
          /\ \A x \in S : SumFunctionOnSet(f, S) = f[x] + SumFunctionOnSet(f, S \ {x})
      BY <2>1, <2>2, SetSumRemove
    <2>5. m # 0 => SumFunctionOnSet(f, S) = f[m] + SumFunctionOnSet(f, 1..m - 1)
      BY <2>3, <2>4
    <2> QED BY <2>4, <2>5 DEF S
  <1>5. PartialScore(q, 0, d) = 0
    <2>1. 1..0 = {}
      OBVIOUS
    <2> QED BY <1>2, <2>1, SetSumEmpty
  <1>6. ASSUME NEW m \in 1..n
        PROVE  PartialScore(q, m, d) = PartialScore(q, m - 1, d) + ScoreIn(q, m, d)
    <2>1. m \in 0..n /\ m - 1 \in 0..n /\ m # 0
      BY <1>1
    <2>2. /\ SumFunctionOnSet(f, 1..m) = f[m] + SumFunctionOnSet(f, 1..m - 1)
          /\ SumFunctionOnSet(f, 1..m - 1) \in Int
      BY <2>1, <1>4
    <2>3. f[m] \in Int /\ f[m] = ScoreIn(q, m, d)
      BY <1>1
    <2> QED BY <2>2, <2>3, <1>2
  <1> QED BY <1>1, <1>2, <1>3, <1>4, <1>5, <1>6 DEF n

LEMMA TaatInitInv == TaatInit => TaatInv
  <1> SUFFICES ASSUME TaatInit PROVE TaatInv
    OBVIOUS
  <1>1. /\ OfferInv /\ query \in Queries /\ offered = << >>
        /\ accumulators = [d \in Documents |-> 0] /\ max_values = [b \in Blocks |-> 0]
        /\ term = 1 /\ key = 0
    BY OfferInit DEF TaatInit, RetrievalInit
  <1>2. term \in 1..Len(query) + 1 /\ key \in 0..CollectionSize
    BY <1>1, QueryIs, RetrievalAssumption
  <1>3. \A d \in Documents : accumulators[d] = PartialScore(query, term - 1, d)
    BY <1>1, PartialScoreIs
  <1>4. accumulators \in [Documents -> Int] /\ max_values \in [Blocks -> Int]
    BY <1>1
  <1>5. SkippedAreWorthless
    <2>1. BlockMaxIsBound
      BY <1>1 DEF BlockMaxIsBound, Blocks
    <2>2. \A d \in Worthy : ~(d < key)
      BY <1>1, RetrievalAssumption DEF Worthy, Documents
    <2> QED BY <2>1, <2>2 DEF SkippedAreWorthless
  <1> QED BY <1>1, <1>2, <1>3, <1>4, <1>5 DEF TaatInv

LEMMA AccumulateListStep ==
  ASSUME TaatInv, AccumulateList
  PROVE  TaatInv'
  <1> DEFINE sums == [d \in Documents |-> accumulators[d] + ScoreIn(query, term, d)]
             n == Len(query)
  <1>1. /\ OfferInv /\ query \in Queries /\ term \in 1..n + 1 /\ key \in 0..CollectionSize
        /\ accumulators \in [Documents -> Int] /\ max_values \in [Blocks -> Int]
        /\ \A d \in Documents : accumulators[d] = PartialScore(query, term - 1, d)
        /\ \A d \in Documents : accumulators[d] <= max_values[Block(d)]
    BY DEF TaatInv, OfferInv, SkippedAreWorthless, BlockMaxIsBound
  <1>2. /\ term <= n /\ accumulators' = sums /\ max_values' = RaisedMax(sums) /\ term' = term + 1
        /\ query' = query /\ key' = key /\ offered' = offered /\ seen' = seen
        /\ top_' = top_ /\ threshold_' = threshold_
    BY DEF AccumulateList, accumulator
  <1>3. n \in Nat /\ DOMAIN query = 1..n /\ term \in 1..n /\ key = 0
    <2>1. n \in Nat /\ DOMAIN query = 1..n
      BY <1>1, QueryIs
    <2>2. term \in 1..n
      BY <2>1, <1>1, <1>2
    <2>3. ~(term > n)
      BY <2>1, <2>2
    <2> QED BY <2>1, <2>2, <2>3 DEF TaatInv
  <1> HIDE DEF n
  <1>4. \A d \in Documents : /\ ScoreIn(query, term, d) \in Int
                             /\ sums[d] = accumulators[d] + ScoreIn(query, term, d)
    BY <1>1, <1>3, ScoreIsSum
  <1>5. sums \in [Documents -> Int]
    BY <1>1, <1>4
  <1> HIDE DEF sums
  <1>6. /\ max_values' \in [Blocks -> Int]
        /\ \A b \in Blocks : max_values[b] <= max_values'[b]
        /\ \A i \in DOMAIN query[term] :
             sums[query[term][i].document] <= max_values'[Block(query[term][i].document)]
    BY <1>1, <1>2, <1>3, <1>5, RaisedMaxIs
  <1>7. \A d \in Documents : accumulators'[d] = PartialScore(query, term' - 1, d)
    <2> SUFFICES ASSUME NEW d \in Documents PROVE sums[d] = PartialScore(query, term' - 1, d)
      BY <1>2
    <2>1. term' - 1 = term
      BY <1>2, <1>3
    <2>2. PartialScore(query, term, d) = PartialScore(query, term - 1, d) + ScoreIn(query, term, d)
      BY <1>1, <1>3, PartialScoreIs
    <2> QED BY <1>1, <1>4, <2>1, <2>2
  <1>8. ASSUME NEW d \in Documents PROVE sums[d] <= max_values'[Block(d)]
    <2>1. CASE Postings(query, term, d) = {}
      <3>1. ScoreIn(query, term, d) = 0
        BY <1>1, <1>3, <2>1, ScoreInIs
      <3>2. sums[d] = accumulators[d] /\ accumulators[d] \in Int
        BY <1>1, <1>4, <3>1
      <3>3. Block(d) \in Blocks
        BY DEF Blocks
      <3>4. /\ accumulators[d] <= max_values[Block(d)] /\ max_values[Block(d)] <= max_values'[Block(d)]
            /\ max_values[Block(d)] \in Int /\ max_values'[Block(d)] \in Int
        BY <1>1, <1>6, <3>3
      <3> QED BY <3>2, <3>4
    <2>2. CASE Postings(query, term, d) # {}
      <3>1. PICK i \in DOMAIN query[term] : query[term][i].document = d
        BY <2>2 DEF Postings
      <3> QED BY <3>1, <1>6
    <2> QED BY <2>1, <2>2
  <1>9. BlockMaxIsBound'
    <2>1. DOMAIN accumulators' = Documents
      BY <1>2, <1>5
    <2>2. \A d \in Documents : Block(d)' = Block(d)
      BY DEF Block
    <2> QED BY <2>1, <2>2, <1>2, <1>8 DEF BlockMaxIsBound, Block
  <1>10. SkippedAreWorthless'
    <2>1. \A d \in Worthy' : ~(d < key')
      BY <1>2, <1>3, RetrievalAssumption DEF Worthy, Documents
    <2> QED BY <2>1, <1>9 DEF SkippedAreWorthless
  <1>11. OfferInv'
    BY <1>1, <1>2, OfferStutter DEF accumulator
  <1>12. term' \in 1..Len(query') + 1 /\ key' # 0 => term' > Len(query')
    BY <1>2, <1>3 DEF n
  <1> QED BY <1>1, <1>2, <1>3, <1>5, <1>6, <1>7, <1>10, <1>11, <1>12 DEF TaatInv

(* When all lists are added the accumulators are the scores.               *)
LEMMA AccumulatorsAreScores ==
  ASSUME TaatInv, term > Len(query)
  PROVE  \A d \in Documents : accumulators[d] = Score(d)
  <1>1. query \in Queries /\ Len(query) \in Nat /\ term \in 1..Len(query) + 1
    BY QueryIs DEF TaatInv, OfferInv
  <1>2. term - 1 = Len(query)
    BY <1>1
  <1> QED BY <1>1, <1>2, PartialScoreIs DEF TaatInv, Score

LEMMA SkipBlockStep ==
  ASSUME TaatInv, SkipBlock
  PROVE  TaatInv'
  <1>1. /\ OfferInv /\ query \in Queries /\ key \in 0..CollectionSize
        /\ accumulators \in [Documents -> Int] /\ max_values \in [Blocks -> Int]
        /\ \A d \in Documents : accumulators[d] <= max_values[Block(d)]
        /\ \A i \in DOMAIN offered : offered[i] < key
        /\ \A d \in Worthy : (d < key /\ d \notin Range(offered)) => Score(d) <= threshold_
    BY DEF TaatInv, OfferInv, SkippedAreWorthless, BlockMaxIsBound
  <1>2. /\ term > Len(query) /\ key < CollectionSize
        /\ key % block_size = 0 /\ max_values[Block(key)] < threshold_
        /\ key' = Min({key + block_size, CollectionSize})
        /\ query' = query /\ accumulators' = accumulators /\ max_values' = max_values /\ term' = term
        /\ UNCHANGED accumulator
    BY DEF SkipBlock, Skippable
  <1>3. OfferInv' /\ Worthy' = Worthy /\ offered' = offered /\ threshold_' = threshold_
    BY <1>1, <1>2, OfferStutter DEF accumulator
  <1>4. /\ key \in Nat /\ CollectionSize \in Nat /\ block_size \in Nat \ {0}
        /\ \A d \in Documents : d \in Nat
    BY <1>1, RetrievalAssumption, BlockAssumption DEF Documents
  <1>5. /\ key' \in 0..CollectionSize /\ key < key' /\ key' <= key + block_size
    <2>1. CASE key + block_size <= CollectionSize
      <3>1. key' = key + block_size
        BY <1>2, <1>4, <2>1, MinOfTwo
      <3> QED BY <3>1, <2>1, <1>4
    <2>2. CASE CollectionSize <= key + block_size
      <3>1. key' = CollectionSize
        BY <1>2, <1>4, <2>2, MinOfTwo
      <3> QED BY <3>1, <2>2, <1>2, <1>4
    <2> QED BY <2>1, <2>2, <1>4
  <1>6. \A i \in DOMAIN offered' : offered'[i] < key'
    <2> SUFFICES ASSUME NEW i \in DOMAIN offered PROVE offered[i] < key'
      BY <1>3
    <2>1. offered[i] \in Documents /\ offered[i] < key
      BY <1>1 DEF OfferInv
    <2> QED BY <2>1, <1>4, <1>5
  <1>7. threshold_ \in Int
    BY RetrievalAssumption DEF TaatInv, OfferInv, Heaped!HeapInv, Scores
  <1>8. ASSUME NEW d \in Worthy, d < key', d \notin Range(offered)
        PROVE  Score(d) <= threshold_
    <2>1. d \in Documents /\ d \in Nat
      BY <1>4 DEF Worthy
    <2>2. CASE d < key
      BY <2>2, <1>1, <1>8
    <2>3. CASE ~(d < key)
      <3>1. key <= d /\ d < key + block_size
        BY <2>1, <2>3, <1>4, <1>5, <1>8
      <3>2. Block(d) = Block(key)
        BY <2>1, <3>1, <1>2, <1>4, BlockIs DEF Block
      <3>3. accumulators[d] = Score(d)
        BY <2>1, <1>2, AccumulatorsAreScores
      <3>4. /\ accumulators[d] \in Int /\ accumulators[d] <= max_values[Block(d)]
            /\ max_values[Block(d)] \in Int
        BY <2>1, <1>1 DEF Blocks
      <3> QED BY <3>2, <3>3, <3>4, <1>2, <1>7
    <2> QED BY <2>2, <2>3
  <1>9. SkippedAreWorthless'
    <2>1. BlockMaxIsBound'
      BY <1>1, <1>2 DEF BlockMaxIsBound, Block
    <2>2. \A d \in Documents : Score(d)' = Score(d)
      BY <1>2 DEF Score
    <2>3. \A d \in Worthy' : (d < key' /\ d \notin Range(offered')) => Score(d)' <= threshold_'
      BY <1>3, <1>8, <2>2 DEF Worthy
    <2> QED BY <2>1, <2>3 DEF SkippedAreWorthless
  <1>10. key' # 0 => term' > Len(query')
    BY <1>2
  <1> QED BY <1>1, <1>2, <1>3, <1>5, <1>6, <1>9, <1>10 DEF TaatInv

LEMMA OfferAccumulatorStep ==
  ASSUME TaatInv, OfferAccumulator
  PROVE  TaatInv'
  <1>1. /\ OfferInv /\ query \in Queries /\ key \in 0..CollectionSize
        /\ accumulators \in [Documents -> Int] /\ max_values \in [Blocks -> Int]
        /\ \A d \in Documents : accumulators[d] <= max_values[Block(d)]
        /\ \A i \in DOMAIN offered : offered[i] < key
        /\ \A d \in Worthy : (d < key /\ d \notin Range(offered)) => Score(d) <= threshold_
    BY DEF TaatInv, OfferInv, SkippedAreWorthless, BlockMaxIsBound
  <1>2. /\ term > Len(query) /\ key < CollectionSize
        /\ accumulate(key, accumulators[key])
        /\ key' = key + 1
        /\ query' = query /\ accumulators' = accumulators /\ max_values' = max_values /\ term' = term
    BY DEF OfferAccumulator
  <1>3. /\ key \in Nat /\ CollectionSize \in Nat /\ key \in Documents
        /\ \A d \in Documents : d \in Nat
    BY <1>1, <1>2, RetrievalAssumption DEF Documents
  <1>4. accumulate(key, Score(key))
    BY <1>2, <1>3, AccumulatorsAreScores
  <1>5. OfferInv' /\ offered' = Append(offered, key) /\ threshold_ <= threshold_'
    BY <1>1, <1>2, <1>3, <1>4, OfferStep
  <1> DEFINE n == Len(offered)
  <1>6. /\ n \in Nat /\ DOMAIN offered = 1..n /\ DOMAIN offered' = 1..n + 1
        /\ offered'[n + 1] = key
        /\ \A i \in 1..n : offered'[i] = offered[i] /\ offered[i] \in Documents
    <2>1. offered \in Seq(Documents)
      BY <1>1 DEF OfferInv
    <2> QED BY <2>1, <1>3, <1>5
  <1> HIDE DEF n
  <1>7. \A i \in DOMAIN offered' : offered'[i] < key'
    <2> SUFFICES ASSUME NEW i \in 1..n + 1 PROVE offered'[i] < key + 1
      BY <1>2, <1>6
    <2>1. i = n + 1 \/ i \in 1..n
      BY <1>6
    <2>2. CASE i = n + 1
      BY <2>2, <1>3, <1>6
    <2>3. CASE i \in 1..n
      <3>1. offered[i] < key /\ offered[i] \in Nat /\ offered'[i] = offered[i]
        BY <2>3, <1>1, <1>3, <1>6
      <3> QED BY <3>1, <1>3
    <2> QED BY <2>1, <2>2, <2>3
  <1>8. ASSUME NEW d \in Worthy, d < key', d \notin Range(offered')
        PROVE  Score(d) <= threshold_'
    <2>1. d \in Documents /\ d \in Nat
      BY <1>3 DEF Worthy
    <2>2. d # key
      <3>1. n + 1 \in DOMAIN offered'
        BY <1>6
      <3> QED BY <3>1, <1>6, <1>8 DEF Range
    <2>3. d < key
      BY <2>1, <2>2, <1>2, <1>3, <1>8
    <2>4. d \notin Range(offered)
      <3> SUFFICES ASSUME NEW i \in 1..n, offered[i] = d PROVE FALSE
        BY <1>6 DEF Range
      <3>1. i \in DOMAIN offered' /\ offered'[i] = d
        BY <1>6
      <3> QED BY <3>1, <1>8 DEF Range
    <2>5. Score(d) <= threshold_
      BY <2>3, <2>4, <1>1
    <2>6. Score(d) \in Int
      BY <1>1, ScoreIsSum DEF Score
    <2>7. threshold_ \in Int /\ threshold_' \in Int
      BY <1>1, <1>5, RetrievalAssumption DEF OfferInv, Heaped!HeapInv, Scores
    <2> QED BY <2>5, <2>6, <2>7, <1>5
  <1>9. SkippedAreWorthless'
    <2>1. BlockMaxIsBound'
      BY <1>1, <1>2 DEF BlockMaxIsBound, Block
    <2>2. Worthy' = Worthy /\ \A d \in Documents : Score(d)' = Score(d)
      BY <1>2 DEF Score, Worthy
    <2>3. \A d \in Worthy' : (d < key' /\ d \notin Range(offered')) => Score(d)' <= threshold_'
      BY <1>8, <2>2 DEF Worthy
    <2> QED BY <2>1, <2>3 DEF SkippedAreWorthless
  <1>10. key' # 0 => term' > Len(query')
    BY <1>2
  <1>11. key' \in 0..CollectionSize
    BY <1>2, <1>3
  <1>12. /\ term' \in 1..Len(query') + 1
         /\ \A d \in Documents : accumulators'[d] = PartialScore(query', term' - 1, d)
    BY <1>2 DEF TaatInv
  <1> QED BY <1>1, <1>2, <1>5, <1>7, <1>9, <1>10, <1>11, <1>12 DEF TaatInv

LEMMA TaatStep == ASSUME TaatInv, TaatNext PROVE TaatInv'
  BY AccumulateListStep, SkipBlockStep, OfferAccumulatorStep DEF TaatNext

LEMMA TaatInvImplies ==
  ASSUME TaatInv
  PROVE  /\ OffersAreScores /\ SkippedAreWorthless
         /\ key = CollectionSize => IsBestAnswer(AnswerOf(top_))
  <1>1. ASSUME key = CollectionSize PROVE IsBestAnswer(AnswerOf(top_))
    <2>1. \A d \in Worthy : d < key
      BY <1>1, RetrievalAssumption DEF Worthy, Documents
    <2>2. \A d \in Worthy : d \in Range(offered) \/ Score(d) <= threshold_
      BY <2>1 DEF TaatInv, SkippedAreWorthless
    <2> QED BY <2>2, BestAnswer DEF TaatInv
  <1> QED BY <1>1 DEF TaatInv, OfferInv

-----------------------------------------------------------------------------
(* The union of the lists.  One range may stay in front of another, and    *)
(* ranges that are kept so.                                                *)
InOrder(lhs, rhs) == empty(rhs) \/ (~empty(lhs) /\ ~order(rhs, lhs))

Ordered(rs) == \A i, j \in DOMAIN rs : i < j => InOrder(rs[i], rs[j])

LEMMA OrderIs ==
  ASSUME query \in Queries
  PROVE  /\ \A a \in RangeOf(query) : empty(a) \/ front(a).document \in Nat
         /\ \A a, b \in RangeOf(query) : order(a, b) => InOrder(a, b)
         /\ \A a, b \in RangeOf(query) : ~order(a, b) => InOrder(b, a)
         /\ \A a, b, c \in RangeOf(query) : InOrder(a, b) /\ InOrder(b, c) => InOrder(a, c)
  <1>1. ASSUME NEW a \in RangeOf(query) PROVE empty(a) \/ front(a).document \in Nat
    <2>1. a.term \in DOMAIN query /\ a.left \in Nat \ {0}
      BY DEF RangeOf
    <2>2. /\ Len(query[a.term]) \in Nat /\ DOMAIN query[a.term] = 1..Len(query[a.term])
          /\ \A k \in DOMAIN query[a.term] : query[a.term][k].document \in Nat
      BY <2>1, QueryIs
    <2> QED BY <2>1, <2>2 DEF empty, front
  <1>2. ASSUME NEW a \in RangeOf(query), NEW b \in RangeOf(query)
        PROVE  (order(a, b) => InOrder(a, b)) /\ (~order(a, b) => InOrder(b, a))
    BY <1>1 DEF order, InOrder
  <1>3. ASSUME NEW a \in RangeOf(query), NEW b \in RangeOf(query), NEW c \in RangeOf(query),
               InOrder(a, b), InOrder(b, c)
        PROVE  InOrder(a, c)
    BY <1>1, <1>3 DEF order, InOrder
  <1> QED BY <1>1, <1>2, <1>3

(* Where the front comes to when it moves back, and the ranges it passes.  *)
LEMMA BubbledIs ==
  ASSUME NEW S, NEW rs \in Seq(S), Len(rs) # 0
  PROVE  /\ Bubbled(rs) \in Seq(S) /\ Len(Bubbled(rs)) = Len(rs)
         /\ \E place \in 1..Len(rs) :
              /\ \A i \in 1..Len(rs) :
                   Bubbled(rs)[i] = rs[IF i < place THEN i + 1 ELSE IF i = place THEN 1 ELSE i]
              /\ \A i \in 2..place : ~order(rs[1], rs[i])
              /\ place # Len(rs) => order(rs[1], rs[place + 1])
  <1> DEFINE n == Len(rs)
             stop == { i \in 2..n : order(rs[1], rs[i]) }
             place == IF stop = {} THEN n ELSE Min(stop) - 1
             new == SubSeq(rs, 2, place) \o <<rs[1]>> \o SubSeq(rs, place + 1, n)
  <1>1. n \in Nat /\ n >= 1 /\ DOMAIN rs = 1..n /\ \A i \in 1..n : rs[i] \in S
    OBVIOUS
  <1>2. /\ place \in 1..n /\ \A i \in 2..place : i \notin stop
        /\ place # n => place + 1 \in stop
    <2>1. CASE stop = {}
      BY <2>1, <1>1
    <2>2. CASE stop # {}
      <3>1. stop \in SUBSET Nat
        BY <1>1
      <3> DEFINE s == Min(stop)
      <3>2. s \in stop /\ \A m \in stop : s <= m
        <4> HIDE DEF stop
        <4> QED BY <2>2, <3>1, MinOf
      <3>3. place = s - 1 /\ s \in 2..n
        BY <2>2, <3>2
      <3> HIDE DEF s, place
      <3>4. \A i \in 2..place : i \notin stop
        BY <3>1, <3>2, <3>3
      <3> HIDE DEF stop
      <3> QED BY <1>1, <3>2, <3>3, <3>4
    <2> QED BY <2>1, <2>2
  <1>3. Bubbled(rs) = new
    BY DEF Bubbled
  <1>4. \A i \in 2..place : ~order(rs[1], rs[i])
    BY <1>1, <1>2
  <1>5. place # n => order(rs[1], rs[place + 1])
    BY <1>2
  <1> HIDE DEF place, n
  <1>6. /\ new \in Seq(S) /\ Len(new) = n
        /\ \A i \in 1..n : new[i] = rs[IF i < place THEN i + 1 ELSE IF i = place THEN 1 ELSE i]
    <2> DEFINE a == SubSeq(rs, 2, place)
               b == SubSeq(rs, place + 1, n)
    <2>1. /\ a \in Seq(S) /\ Len(a) = place - 1
          /\ \A i \in 1..place - 1 : a[i] = rs[i + 1]
      BY <1>1, <1>2
    <2>2. /\ b \in Seq(S) /\ Len(b) = n - place
          /\ \A i \in 1..n - place : b[i] = rs[i + place]
      BY <1>1, <1>2
    <2>3. <<rs[1]>> \in Seq(S)
      BY <1>1
    <2> HIDE DEF a, b
    <2>4. new = a \o <<rs[1]>> \o b
      BY DEF a, b
    <2>5. /\ a \o <<rs[1]>> \in Seq(S) /\ Len(a \o <<rs[1]>>) = place
          /\ \A i \in 1..place : (a \o <<rs[1]>>)[i] = IF i < place THEN a[i] ELSE rs[1]
      BY <1>1, <1>2, <2>1, <2>3
    <2> DEFINE c == a \o <<rs[1]>>
    <2> HIDE DEF c
    <2>6. c \in Seq(S) /\ Len(c) = place /\ \A i \in 1..place : c[i] = IF i < place THEN a[i] ELSE rs[1]
      BY <2>5 DEF c
    <2>7. new = c \o b
      BY <2>4 DEF c
    <2> HIDE DEF new
    <2> HIDE DEF stop
    <2>8. new \in Seq(S) /\ Len(new) = n
      <3>1. c \in Seq(S) /\ b \in Seq(S)
        BY <2>2, <2>6
      <3>2. c \o b \in Seq(S) /\ Len(c \o b) = Len(c) + Len(b)
        BY <3>1
      <3>3. Len(c) + Len(b) = n
        BY <1>1, <1>2, <2>2, <2>6
      <3> QED BY <3>2, <3>3, <2>7
    <2>9. \A i \in 1..n : new[i] = IF i <= place THEN c[i] ELSE b[i - place]
      BY <1>1, <1>2, <2>2, <2>6, <2>7
    <2>10. ASSUME NEW i \in 1..n
           PROVE  new[i] = rs[IF i < place THEN i + 1 ELSE IF i = place THEN 1 ELSE i]
      <3>1. CASE i < place
        <4>1. i \in 1..place - 1 /\ i \in 1..place /\ i <= place
          BY <1>1, <1>2, <3>1
        <4> QED BY <4>1, <2>1, <2>6, <2>9, <3>1
      <3>2. CASE i = place
        BY <1>1, <1>2, <2>6, <2>9, <3>2
      <3>3. CASE i > place
        <4>1. i - place \in 1..n - place /\ i - place + place = i /\ ~(i <= place) /\ ~(i < place) /\ i # place
          BY <1>1, <1>2, <3>3
        <4> QED BY <4>1, <2>2, <2>9
      <3> QED BY <1>1, <1>2, <3>1, <3>2, <3>3
    <2> QED BY <2>8, <2>10
  <1> QED BY <1>2, <1>3, <1>4, <1>5, <1>6 DEF n

(* p takes the positions of the ranges to where they were.                 *)
Rearranging(q, p) ==
  /\ p \in [DOMAIN q -> DOMAIN q]
  /\ \A i, j \in DOMAIN q : p[i] = p[j] => i = j
  /\ \A j \in DOMAIN q : \E i \in DOMAIN q : p[i] = j

LEMMA RearrangedPermutes ==
  ASSUME NEW q, NEW rs, Permuted(q, rs), NEW p, Rearranging(q, p), NEW new, DOMAIN new = DOMAIN q,
         \A i \in DOMAIN q : new[i] = rs[p[i]]
  PROVE  Permuted(q, new)
  <1>1. ASSUME NEW i \in DOMAIN q PROVE new[i] \in RangeOf(q)
    BY DEF Permuted, Rearranging
  <1>2. ASSUME NEW i \in DOMAIN q, NEW j \in DOMAIN q, new[i].term = new[j].term PROVE i = j
    <2>1. p[i] \in DOMAIN q /\ p[j] \in DOMAIN q /\ rs[p[i]].term = rs[p[j]].term
      BY <1>2 DEF Rearranging
    <2>2. p[i] = p[j]
      BY <2>1 DEF Permuted
    <2> QED BY <2>2 DEF Rearranging
  <1>3. ASSUME NEW t \in DOMAIN q PROVE \E i \in DOMAIN q : new[i].term = t
    <2>1. PICK j \in DOMAIN q : rs[j].term = t
      BY DEF Permuted
    <2>2. PICK i \in DOMAIN q : p[i] = j
      BY DEF Rearranging
    <2> QED BY <2>1, <2>2
  <1> QED BY <1>1, <1>2, <1>3 DEF Permuted

Advanced(rs) == [rs EXCEPT ![1] = advance(@)]

LEMMA IncrementIs ==
  ASSUME query \in Queries, ranges \in Seq(RangeOf(query)), Permuted(query, ranges),
         Ordered(ranges), NEW new, new = Bubbled(Advanced(ranges))
  PROVE  /\ new \in Seq(RangeOf(query)) /\ Permuted(query, new) /\ Ordered(new)
         /\ \E p : Rearranging(query, p) /\ \A i \in DOMAIN query : new[i] = Advanced(ranges)[p[i]]
  <1> DEFINE n == Len(query)
             A == Advanced(ranges)
             S == RangeOf(query)
  <1>1. n \in Nat /\ n >= 1 /\ DOMAIN query = 1..n /\ DOMAIN ranges = 1..n /\ Len(ranges) = n
    <2>1. n \in Nat /\ n >= 1 /\ DOMAIN query = 1..n
      BY QueryIs
    <2>2. DOMAIN ranges = 1..n
      BY <2>1 DEF Permuted
    <2> QED BY <2>1, <2>2
  <1>2. \A i \in 1..n : ranges[i] \in S
    BY <1>1 DEF Permuted
  <1>3. /\ advance(ranges[1]) \in S /\ advance(ranges[1]).term = ranges[1].term
        /\ DOMAIN A = 1..n
        /\ \A i \in 1..n : A[i] = IF i = 1 THEN advance(ranges[1]) ELSE ranges[i]
    <2>1. ranges[1] \in S
      BY <1>1, <1>2
    <2> QED BY <1>1, <2>1, SMTT(30) DEF Advanced, advance, RangeOf
  <1>4. A \in Seq(S) /\ Len(A) = n
    <2>1. A \in [1..n -> S]
      BY <1>1, <1>2, <1>3 DEF Advanced
    <2> HIDE DEF A, S
    <2> QED BY <1>1, <2>1
  <1>5. Permuted(query, A)
    <2>1. \A i \in 1..n : A[i] \in S /\ A[i].term = ranges[i].term
      BY <1>1, <1>2, <1>3
    <2>2. DOMAIN A = DOMAIN query
      BY <1>1, <1>3
    <2> HIDE DEF A, n, S
    <2>3. \A i, j \in 1..n : A[i].term = A[j].term => i = j
      BY <1>1, <2>1 DEF Permuted
    <2>4. \A t \in DOMAIN query : \E i \in 1..n : A[i].term = t
      BY <1>1, <2>1 DEF Permuted
    <2> QED BY <1>1, <2>1, <2>2, <2>3, <2>4 DEF Permuted, S
  <1> HIDE DEF A, n, S
  <1>6. /\ new \in Seq(S) /\ Len(new) = n
        /\ \E place \in 1..n :
              /\ \A i \in 1..n :
                   new[i] = A[IF i < place THEN i + 1 ELSE IF i = place THEN 1 ELSE i]
              /\ \A i \in 2..place : ~order(A[1], A[i])
              /\ place # n => order(A[1], A[place + 1])
    <2>1. Len(A) # 0 /\ new = Bubbled(A)
      BY <1>1, <1>4 DEF A
    <2> QED BY <2>1, <1>4, BubbledIs, ZenonT(30)
  <1>7. PICK place \in 1..n :
              /\ \A i \in 1..n :
                   new[i] = A[IF i < place THEN i + 1 ELSE IF i = place THEN 1 ELSE i]
              /\ \A i \in 2..place : ~order(A[1], A[i])
              /\ place # n => order(A[1], A[place + 1])
    BY <1>6
  <1> DEFINE p == [i \in 1..n |-> IF i < place THEN i + 1 ELSE IF i = place THEN 1 ELSE i]
  <1>8. Rearranging(query, p)
    <2>1. p \in [1..n -> 1..n]
      BY <1>1
    <2>2. \A i, j \in 1..n : p[i] = p[j] => i = j
      BY <1>1
    <2>3. ASSUME NEW j \in 1..n PROVE \E i \in 1..n : p[i] = j
      <3> DEFINE i == IF j = 1 THEN place ELSE IF j <= place THEN j - 1 ELSE j
      <3>1. i \in 1..n /\ p[i] = j
        BY <1>1
      <3> QED BY <3>1
    <2> HIDE DEF p
    <2> QED BY <1>1, <2>1, <2>2, <2>3 DEF Rearranging
  <1>9. \A i \in 1..n : new[i] = A[p[i]]
    BY <1>7
  <1>10. Permuted(query, new)
    <2>1. DOMAIN new = DOMAIN query
      BY <1>1, <1>6
    <2> HIDE DEF p
    <2> QED BY <2>1, <1>1, <1>5, <1>8, <1>9, RearrangedPermutes
  <1>11. \A i \in 1..n : A[i] \in S
    BY <1>1, <1>4
  <1>12. ASSUME NEW i \in 2..n, NEW j \in 2..n, i < j PROVE InOrder(A[i], A[j])
    <2>1. i \in 1..n /\ j \in 1..n /\ i # 1 /\ j # 1
      BY <1>1
    <2>2. InOrder(ranges[i], ranges[j])
      BY <1>1, <2>1, <1>12 DEF Ordered
    <2> QED BY <1>3, <2>1, <2>2
  <1>13. /\ \A a, b \in S : order(a, b) => InOrder(a, b)
         /\ \A a, b \in S : ~order(a, b) => InOrder(b, a)
         /\ \A a, b, c \in S : InOrder(a, b) /\ InOrder(b, c) => InOrder(a, c)
    BY OrderIs DEF S
  <1>14. ASSUME NEW i \in 1..n, NEW j \in 1..n, i < j PROVE InOrder(new[i], new[j])
    <2>1. CASE j < place
      <3>1. new[i] = A[i + 1] /\ new[j] = A[j + 1] /\ i + 1 \in 2..n /\ j + 1 \in 2..n /\ i + 1 < j + 1
        BY <1>1, <1>7, <1>14, <2>1
      <3> QED BY <3>1, <1>12
    <2>2. CASE j = place
      <3>1. new[i] = A[i + 1] /\ new[j] = A[1] /\ i + 1 \in 2..place /\ i + 1 \in 1..n /\ 1 \in 1..n
        BY <1>1, <1>7, <1>14, <2>2
      <3>2. ~order(A[1], A[i + 1])
        BY <3>1, <1>7
      <3> QED BY <3>1, <3>2, <1>11, <1>13
    <2>3. CASE j > place /\ i < place
      <3>1. new[i] = A[i + 1] /\ new[j] = A[j] /\ i + 1 \in 2..n /\ j \in 2..n /\ i + 1 < j
        BY <1>1, <1>7, <1>14, <2>3
      <3> QED BY <3>1, <1>12
    <2>4. CASE j > place /\ i = place
      <3>1. new[i] = A[1] /\ new[j] = A[j] /\ place # n /\ place + 1 \in 2..n /\ j \in 2..n
            /\ place + 1 \in 1..n /\ 1 \in 1..n
        BY <1>1, <1>7, <1>14, <2>4
      <3>2. InOrder(A[1], A[place + 1])
        BY <3>1, <1>7, <1>11, <1>13
      <3>3. j = place + 1 \/ InOrder(A[place + 1], A[j])
        <4>1. j = place + 1 \/ place + 1 < j
          BY <1>1, <2>4
        <4> QED BY <3>1, <4>1, <1>12
      <3> QED BY <3>1, <3>2, <3>3, <1>11, <1>13
    <2>5. CASE i > place
      <3>1. new[i] = A[i] /\ new[j] = A[j] /\ i \in 2..n /\ j \in 2..n
        BY <1>1, <1>7, <1>14, <2>5
      <3> QED BY <3>1, <1>12, <1>14
    <2>6. j < place \/ j = place \/ (j > place /\ (i < place \/ i = place \/ i > place))
      BY <1>1
    <2> QED BY <2>1, <2>2, <2>3, <2>4, <2>5, <2>6
  <1>15. Ordered(new)
    BY <1>6, <1>14 DEF Ordered
  <1>16. \E r : Rearranging(query, r) /\ \A i \in DOMAIN query : new[i] = A[r[i]]
    <2> HIDE DEF p
    <2> QED BY <1>1, <1>8, <1>9
  <1> QED BY <1>6, <1>10, <1>15, <1>16 DEF A, S

(* The terms whose posting of a document has been passed.                  *)
Consumed(q, rs, document) ==
  { t \in DOMAIN q : \E i \in DOMAIN q : /\ rs[i].term = t
                                         /\ \E k \in Postings(q, t, document) : k < rs[i].left }

(* The score so far of a group is that of the postings that are passed.    *)
GroupInv(g) ==
  /\ OfferedBefore(g.document)
  /\ \A i \in DOMAIN query : \A k \in DOMAIN query[ranges[i].term] :
       /\ query[ranges[i].term][k].document < g.document => k < ranges[i].left
       /\ k < ranges[i].left => query[ranges[i].term][k].document <= g.document
  /\ g.score = SumFunctionOnSet([t \in DOMAIN query |-> ScoreIn(query, t, g.document)],
                                Consumed(query, ranges, g.document))

Groups == [document : Documents, score : Int]

Within(q, rs) == \A i \in DOMAIN q : rs[i].left <= Len(q[rs[i].term]) + 1

UnionInv ==
  /\ OfferInv
  /\ ranges \in Seq(RangeOf(query)) /\ Permuted(query, ranges) /\ Ordered(ranges)
  /\ Within(query, ranges)
  /\ pos_ = SumFunction([i \in DOMAIN ranges |-> ranges[i].left - 1])
  /\ \/ group = << >> /\ \E w \in Nat : OfferedBefore(w) /\ BeforeDocument(query, ranges, w)
     \/ \E g \in Groups : group = <<g>> /\ GroupInv(g)

(* A range of a query.                                                     *)
LEMMA RangeIs ==
  ASSUME query \in Queries, Permuted(query, ranges), NEW i \in DOMAIN query
  PROVE  LET list == query[ranges[i].term]
             l    == ranges[i].left
         IN  /\ ranges[i].term \in DOMAIN query /\ l \in Nat \ {0}
             /\ Len(list) \in Nat /\ DOMAIN list = 1..Len(list)
             /\ \A k \in DOMAIN list : list[k].document \in Documents /\ list[k].document \in Nat
             /\ \A j, k \in DOMAIN list : j < k => list[j].document < list[k].document
             /\ ~empty(ranges[i]) <=> l \in DOMAIN list
             /\ front(ranges[i]) = list[l]
  <1>1. ranges[i].term \in DOMAIN query /\ ranges[i].left \in Nat \ {0}
    BY DEF Permuted, RangeOf
  <1>2. /\ Len(query[ranges[i].term]) \in Nat
        /\ DOMAIN query[ranges[i].term] = 1..Len(query[ranges[i].term])
        /\ \A k \in DOMAIN query[ranges[i].term] :
             /\ query[ranges[i].term][k].document \in Documents
             /\ query[ranges[i].term][k].document \in Nat
        /\ \A j, k \in DOMAIN query[ranges[i].term] :
             j < k => query[ranges[i].term][j].document < query[ranges[i].term][k].document
    BY <1>1, QueryIs
  <1>3. ~empty(ranges[i]) <=> ranges[i].left \in DOMAIN query[ranges[i].term]
    BY <1>1, <1>2 DEF empty
  <1> QED BY <1>1, <1>2, <1>3 DEF front

(* The front range stands at the least document that is left.              *)
LEMMA FrontIsLeast ==
  ASSUME query \in Queries, Permuted(query, ranges), Ordered(ranges),
         NEW i \in DOMAIN query, NEW k \in DOMAIN query[ranges[i].term], ~(k < ranges[i].left)
  PROVE  /\ ~empty(ranges[1])
         /\ front(ranges[1]).document <= query[ranges[i].term][k].document
  <1> DEFINE list == query[ranges[i].term]
             l == ranges[i].left
  <1>1. /\ l \in Nat \ {0} /\ Len(list) \in Nat /\ DOMAIN list = 1..Len(list) /\ k \in DOMAIN list
        /\ \A m \in DOMAIN list : list[m].document \in Nat
        /\ \A j, m \in DOMAIN list : j < m => list[j].document < list[m].document
        /\ ~empty(ranges[i]) <=> l \in DOMAIN list
        /\ front(ranges[i]) = list[l]
    BY RangeIs
  <1>2. 1 \in DOMAIN query /\ i \in Nat /\ i >= 1
    BY QueryIs
  <1> HIDE DEF list, l
  <1>3. ~(k < l)
    BY DEF l
  <1>4. l \in DOMAIN list /\ (l = k \/ l < k)
    BY <1>1, <1>3
  <1>5. list[l].document <= list[k].document
    BY <1>1, <1>4
  <1>6. CASE i = 1
    BY <1>1, <1>4, <1>5, <1>6 DEF list
  <1>7. CASE i # 1
    <2>1. InOrder(ranges[1], ranges[i])
      BY <1>2, <1>7 DEF Ordered, Permuted
    <2>2. ~empty(ranges[1]) /\ ~(front(ranges[i]).document < front(ranges[1]).document)
      BY <2>1, <1>1, <1>4 DEF InOrder, order
    <2>3. front(ranges[1]).document \in Nat
      BY <2>2, <1>2, RangeIs
    <2>4. list[l].document \in Nat /\ list[k].document \in Nat /\ front(ranges[i]).document = list[l].document
      BY <1>1, <1>4
    <2>5. front(ranges[1]).document <= list[k].document
      BY <1>5, <2>2, <2>3, <2>4
    <2> QED BY <2>2, <2>5 DEF list
  <1> QED BY <1>6, <1>7

(* The end is reached when all ranges are empty.                           *)
LEMMA EndIs ==
  ASSUME query \in Queries, Permuted(query, ranges), Within(query, ranges),
         pos_ = SumFunction([i \in DOMAIN ranges |-> ranges[i].left - 1])
  PROVE  AtEnd <=> \A i \in DOMAIN query : empty(ranges[i])
  <1> DEFINE D == DOMAIN query
             f == [i \in D |-> ranges[i].left - 1]
             g == [i \in D |-> Len(query[ranges[i].term])]
             h == [t \in D |-> Len(query[t])]
             p == [i \in D |-> ranges[i].term]
  <1>1. DOMAIN ranges = D /\ IsFiniteSet(D)
    BY QueryIs DEF Permuted
  <1>2. pos_ = SumFunctionOnSet(f, D) /\ length_ = SumFunctionOnSet(h, D)
    BY <1>1 DEF SumFunction, length_
  <1>3. ASSUME NEW i \in D
        PROVE  /\ f[i] \in Int /\ g[i] \in Int /\ f[i] <= g[i]
               /\ p[i] \in D /\ h[p[i]] = g[i]
               /\ f[i] = g[i] <=> empty(ranges[i])
    <2>1. /\ ranges[i].term \in D /\ ranges[i].left \in Nat \ {0}
          /\ Len(query[ranges[i].term]) \in Nat
      BY RangeIs
    <2>2. ranges[i].left <= Len(query[ranges[i].term]) + 1
      BY DEF Within
    <2>3. f[i] = ranges[i].left - 1 /\ g[i] = Len(query[ranges[i].term]) /\ h[p[i]] = g[i] /\ p[i] \in D
      BY <2>1
    <2> HIDE DEF f, g, h, p
    <2> QED BY <2>1, <2>2, <2>3 DEF empty
  <1>4. \A i, j \in D : p[i] = p[j] => i = j
    BY DEF Permuted
  <1>9. \A t \in D : \E i \in D : p[i] = t
    BY DEF Permuted
  <1> HIDE DEF D, f, g, h, p
  <1>5. SumFunctionOnSet(g, D) = SumFunctionOnSet(h, D)
    <2>1. \A x \in D : g[x] \in Int /\ p[x] \in D /\ h[p[x]] = g[x]
      BY <1>3
    <2>2. IsFiniteSet(D)
      BY <1>1
    <2>3. \A x, y \in D : p[x] = p[y] => x = y
      BY <1>4
    <2>4. \A z \in D : \E x \in D : p[x] = z
      BY <1>9
    <2> QED BY <2>1, <2>2, <2>3, <2>4, SetSumMap
  <1>6. SumFunctionOnSet(f, D) = SumFunctionOnSet(g, D) => \A i \in D : f[i] = g[i]
    BY <1>1, <1>3, SetSumLess
  <1>7. (\A i \in D : f[i] = g[i]) => SumFunctionOnSet(f, D) = SumFunctionOnSet(g, D)
    BY <1>1, <1>3, SetSumSame
  <1>8. (\A i \in D : f[i] = g[i]) <=> \A i \in D : empty(ranges[i])
    BY <1>3
  <1> QED BY <1>2, <1>5, <1>6, <1>7, <1>8 DEF AtEnd, D

LEMMA NotAtEnd ==
  ASSUME UnionInv
  PROVE  /\ ~AtEnd => ~empty(ranges[1])
         /\ AtEnd => \A i \in DOMAIN query : \A k \in DOMAIN query[ranges[i].term] : k < ranges[i].left
  <1>1. query \in Queries /\ Permuted(query, ranges)
    BY DEF UnionInv, OfferInv
  <1>2. AtEnd <=> \A i \in DOMAIN query : empty(ranges[i])
    BY <1>1, EndIs DEF UnionInv
  <1>3. ASSUME ~AtEnd PROVE ~empty(ranges[1])
    <2>1. PICK i \in DOMAIN query : ~empty(ranges[i])
      BY <1>2, <1>3
    <2>2. ranges[i].left \in DOMAIN query[ranges[i].term] /\ ~(ranges[i].left < ranges[i].left)
      BY <1>1, <2>1, RangeIs
    <2> QED BY <2>2, <1>1, FrontIsLeast DEF UnionInv
  <1>4. ASSUME AtEnd, NEW i \in DOMAIN query, NEW k \in DOMAIN query[ranges[i].term],
               ~(k < ranges[i].left)
        PROVE  FALSE
    <2>1. /\ Len(query[ranges[i].term]) \in Nat /\ ranges[i].left \in Nat \ {0}
          /\ DOMAIN query[ranges[i].term] = 1..Len(query[ranges[i].term])
      BY <1>1, RangeIs
    <2>2. ranges[i].left > Len(query[ranges[i].term])
      BY <1>2, <1>4 DEF empty
    <2> QED BY <2>1, <2>2, <1>4
  <1> QED BY <1>3, <1>4

LEMMA OrderedStutter ==
  ASSUME UnionInv, query' = query, ranges' = ranges
  PROVE  /\ (ranges \in Seq(RangeOf(query)))' /\ Permuted(query, ranges)' /\ Ordered(ranges)'
         /\ Within(query, ranges)'
  <1>1. (ranges \in Seq(RangeOf(query)))' /\ Permuted(query, ranges)' /\ Within(query, ranges)'
    BY DEF UnionInv, Permuted, Within, RangeOf
  <1>2. \A i, j : InOrder(ranges[i], ranges[j])' <=> InOrder(ranges[i], ranges[j])
    BY DEF InOrder, order, empty, front
  <1>3. Ordered(ranges)'
    BY <1>2 DEF UnionInv, Ordered
  <1> QED BY <1>1, <1>3

LEMMA StartGroupStep == ASSUME UnionInv, StartGroup PROVE UnionInv'
  <1> DEFINE D == front(ranges[1]).document
             g == [document |-> D, score |-> 0]
  <1>1. /\ query \in Queries /\ Permuted(query, ranges) /\ Ordered(ranges) /\ 1 \in DOMAIN query
        /\ OfferInv
    BY QueryIs DEF UnionInv, OfferInv
  <1>2. /\ group = << >> /\ ~AtEnd /\ group' = <<g>>
        /\ query' = query /\ ranges' = ranges /\ pos_' = pos_ /\ UNCHANGED accumulator
    BY DEF StartGroup
  <1>3. PICK w \in Nat : OfferedBefore(w) /\ BeforeDocument(query, ranges, w)
    BY <1>2 DEF UnionInv
  <1>4. OfferInv' /\ Worthy' = Worthy /\ offered' = offered
    BY <1>1, <1>2, OfferStutter DEF accumulator
  <1>5. /\ ranges[1].left \in DOMAIN query[ranges[1].term]
        /\ D = query[ranges[1].term][ranges[1].left].document
        /\ D \in Documents /\ D \in Nat
    BY <1>1, <1>2, NotAtEnd, RangeIs
  <1>6. w <= D
    <2>1. ~(ranges[1].left < ranges[1].left)
      BY <1>1, RangeIs
    <2>2. ~(D < w)
      BY <1>1, <1>3, <1>5, <2>1 DEF BeforeDocument
    <2> QED BY <1>5, <2>2
  <1> HIDE DEF D
  <1>7. ASSUME NEW i \in DOMAIN query, NEW k \in DOMAIN query[ranges[i].term]
        PROVE  /\ query[ranges[i].term][k].document \in Nat
               /\ query[ranges[i].term][k].document < w <=> k < ranges[i].left
               /\ ~(k < ranges[i].left) => D <= query[ranges[i].term][k].document
    BY <1>1, <1>3, RangeIs, FrontIsLeast DEF BeforeDocument, D
  <1>8. \A d \in Documents : d \in Nat
    BY RetrievalAssumption DEF Documents
  <1>9. \A i \in DOMAIN offered : offered[i] < D
    <2> SUFFICES ASSUME NEW i \in DOMAIN offered PROVE offered[i] < D
      OBVIOUS
    <2>1. offered[i] \in Nat /\ offered[i] < w
      BY <1>1, <1>3, <1>8 DEF OfferInv, OfferedBefore
    <2> QED BY <2>1, <1>5, <1>6
  <1>10. \A d \in Worthy : d < D => d \in Range(offered)
    <2> SUFFICES ASSUME NEW d \in Worthy, d < D PROVE d \in Range(offered)
      OBVIOUS
    <2>1. d \in Nat /\ d \in Documents /\ Score(d) # 0
      BY <1>8 DEF Worthy
    <2>2. CASE d < w
      BY <2>2, <1>3 DEF OfferedBefore
    <2>3. CASE ~(d < w)
      <3>1. ASSUME NEW t \in DOMAIN query, NEW k \in Postings(query, t, d) PROVE FALSE
        <4>1. PICK i \in DOMAIN query : ranges[i].term = t
          BY <1>1 DEF Permuted
        <4>2. k \in DOMAIN query[ranges[i].term] /\ query[ranges[i].term][k].document = d
          BY <4>1 DEF Postings
        <4> QED BY <4>2, <1>5, <1>7, <2>1, <2>2, <2>3
      <3> QED BY <3>1, <2>1, <1>1, NoPostings DEF Score
    <2> QED BY <2>2, <2>3
  <1>11. Consumed(query, ranges, D) = {}
    <2> SUFFICES ASSUME NEW i \in DOMAIN query, NEW k \in Postings(query, ranges[i].term, D),
                        k < ranges[i].left
                 PROVE  FALSE
      BY DEF Consumed
    <2>1. k \in DOMAIN query[ranges[i].term] /\ query[ranges[i].term][k].document = D
      BY DEF Postings
    <2>2. /\ query[ranges[i].term][k].document \in Nat
          /\ query[ranges[i].term][k].document < w <=> k < ranges[i].left
      BY <2>1, <1>7
    <2> HIDE <1>7
    <2> QED BY <2>1, <2>2, <1>5, <1>6
  <1>12. GroupInv(g)
    <2>1. g.document = D /\ g.score = 0
      OBVIOUS
    <2>2. OfferedBefore(g.document)
      BY <1>9, <1>10, <2>1 DEF OfferedBefore
    <2>3. ASSUME NEW i \in DOMAIN query, NEW k \in DOMAIN query[ranges[i].term]
          PROVE  /\ query[ranges[i].term][k].document < D => k < ranges[i].left
                 /\ k < ranges[i].left => query[ranges[i].term][k].document <= D
      BY <1>5, <1>6, <1>7
    <2>4. g.score = SumFunctionOnSet([t \in DOMAIN query |-> ScoreIn(query, t, g.document)],
                                     Consumed(query, ranges, g.document))
      BY <1>11, <2>1, SetSumEmpty
    <2> HIDE DEF g
    <2> QED BY <2>1, <2>2, <2>3, <2>4 DEF GroupInv
  <1>13. g \in Groups
    BY <1>5 DEF Groups
  <1>14. PICK G : G = g
    OBVIOUS
  <1> HIDE DEF g
  <1>15. G \in Groups /\ GroupInv(G) /\ group' = <<G>>
    BY <1>2, <1>12, <1>13, <1>14 DEF g
  <1>16. GroupInv(G)'
    BY <1>2, <1>4, <1>15 DEF GroupInv, OfferedBefore, Consumed
  <1>17. (pos_ = SumFunction([i \in DOMAIN ranges |-> ranges[i].left - 1]))'
    BY <1>2 DEF UnionInv
  <1> QED BY <1>2, <1>4, <1>15, <1>16, <1>17, OrderedStutter DEF UnionInv, Groups

(* accumulate_while stops when no posting of the document is left.         *)
LEMMA GroupIsWhole ==
  ASSUME UnionInv, NEW g \in Groups, group = <<g>>, GroupInv(g), ~InGroup(g)
  PROVE  /\ g.score = Score(g.document)
         /\ \A i \in DOMAIN query : \A k \in DOMAIN query[ranges[i].term] :
              k < ranges[i].left <=> query[ranges[i].term][k].document <= g.document
  <1> DEFINE D == g.document
             S == DOMAIN query
             f == [t \in S |-> ScoreIn(query, t, D)]
             C == Consumed(query, ranges, D)
  <1>1. /\ query \in Queries /\ Permuted(query, ranges) /\ Ordered(ranges) /\ 1 \in DOMAIN query
        /\ D \in Documents /\ D \in Nat
    BY QueryIs, RetrievalAssumption DEF UnionInv, OfferInv, Groups, Documents
  <1>2. ASSUME NEW i \in DOMAIN query, NEW k \in DOMAIN query[ranges[i].term], ~(k < ranges[i].left)
        PROVE  D < query[ranges[i].term][k].document
    <2> DEFINE F == front(ranges[1]).document
    <2>1. ~AtEnd
      BY <1>2, NotAtEnd
    <2>2. F # D
      BY <2>1 DEF InGroup
    <2>3. /\ ~empty(ranges[1]) /\ F <= query[ranges[i].term][k].document
      BY <1>1, <1>2, FrontIsLeast
    <2>4. /\ ranges[1].left \in DOMAIN query[ranges[1].term]
          /\ F = query[ranges[1].term][ranges[1].left].document
          /\ ~(ranges[1].left < ranges[1].left)
          /\ F \in Nat
      BY <1>1, <2>3, RangeIs
    <2>5. ~(F < D)
      BY <1>1, <2>4 DEF GroupInv
    <2>6. query[ranges[i].term][k].document \in Nat
      BY <1>1, RangeIs
    <2> HIDE DEF F
    <2> QED BY <1>1, <2>2, <2>3, <2>4, <2>5, <2>6
  <1>3. ASSUME NEW i \in DOMAIN query, NEW k \in DOMAIN query[ranges[i].term]
        PROVE  k < ranges[i].left <=> query[ranges[i].term][k].document <= D
    <2>1. query[ranges[i].term][k].document \in Nat
      BY <1>1, RangeIs
    <2> QED BY <2>1, <1>1, <1>2 DEF GroupInv
  <1>4. ASSUME NEW t \in S \ C PROVE f[t] = 0
    <2>1. ASSUME NEW k \in Postings(query, t, D) PROVE FALSE
      <3>1. PICK i \in DOMAIN query : ranges[i].term = t
        BY <1>1 DEF Permuted
      <3>2. k \in DOMAIN query[ranges[i].term] /\ query[ranges[i].term][k].document = D
        BY <3>1 DEF Postings
      <3>3. k < ranges[i].left
        BY <3>2, <1>1, <1>3
      <3> QED BY <3>1, <3>3 DEF Consumed
    <2>2. ScoreIn(query, t, D) = 0
      BY <2>1, <1>1, ScoreInIs
    <2> QED BY <2>2
  <1>5. g.score = SumFunctionOnSet(f, C)
    BY DEF GroupInv
  <1>6. Score(D) = SumFunctionOnSet(f, S) /\ IsFiniteSet(S)
    BY <1>1, ScoreIsSum, QueryIs DEF Score
  <1>7. \A t \in S : f[t] \in Int
    BY <1>1, ScoreIsSum
  <1>8. C \in SUBSET S
    BY DEF Consumed
  <1> HIDE DEF S, C, f
  <1>9. SumFunctionOnSet(f, S) = SumFunctionOnSet(f, C)
    <2>1. IsFiniteSet(S)
      BY <1>6
    <2> QED BY <2>1, <1>4, <1>7, <1>8, SetSumZero
  <1> QED BY <1>3, <1>5, <1>6, <1>9

LEMMA OfferGroupStep == ASSUME UnionInv, OfferGroup PROVE UnionInv'
  <1>1. PICK g \in Range(group) :
           /\ ~InGroup(g) /\ accumulate(g.document, g.score) /\ group' = << >>
           /\ query' = query /\ ranges' = ranges /\ pos_' = pos_
    BY DEF OfferGroup
  <1>2. g \in Groups /\ group = <<g>> /\ GroupInv(g)
    <2>1. group # << >>
      BY <1>1 DEF Range
    <2>2. PICK h \in Groups : group = <<h>> /\ GroupInv(h)
      BY <2>1 DEF UnionInv
    <2>3. g = h
      BY <1>1, <2>2 DEF Range
    <2> QED BY <2>2, <2>3
  <1> DEFINE D == g.document
             w == D + 1
  <1>3. /\ query \in Queries /\ Permuted(query, ranges) /\ OfferInv
        /\ D \in Documents /\ D \in Nat /\ \A d \in Documents : d \in Nat
    BY <1>2, RetrievalAssumption DEF UnionInv, OfferInv, Groups, Documents
  <1>4. /\ accumulate(D, Score(D))
        /\ \A i \in DOMAIN query : \A k \in DOMAIN query[ranges[i].term] :
             k < ranges[i].left <=> query[ranges[i].term][k].document <= D
    BY <1>1, <1>2, GroupIsWhole
  <1>5. /\ OfferInv' /\ Worthy' = Worthy
        /\ \A i \in DOMAIN offered' : offered'[i] <= D
        /\ \A d \in Worthy : d <= D => d \in Range(offered')
    BY <1>1, <1>2, <1>3, <1>4, DocumentOffered DEF GroupInv
  <1> HIDE DEF D
  <1>6. BeforeDocument(query, ranges, w)
    <2> SUFFICES ASSUME NEW i \in DOMAIN query, NEW k \in DOMAIN query[ranges[i].term]
                 PROVE  query[ranges[i].term][k].document < w <=> k < ranges[i].left
      BY DEF BeforeDocument
    <2>1. query[ranges[i].term][k].document \in Nat
      BY <1>3, RangeIs
    <2> QED BY <2>1, <1>3, <1>4
  <1>7. \A i \in DOMAIN offered' : offered'[i] < w
    <2> SUFFICES ASSUME NEW i \in DOMAIN offered' PROVE offered'[i] < w
      OBVIOUS
    <2>1. offered' \in Seq(Documents)
      BY <1>5 DEF OfferInv, Documents
    <2>2. offered'[i] \in Documents
      BY <2>1
    <2>3. offered'[i] \in Nat /\ offered'[i] <= D
      BY <2>2, <1>3, <1>5
    <2> QED BY <2>3, <1>3
  <1>8. \A d \in Worthy : d < w => d \in Range(offered')
    <2> SUFFICES ASSUME NEW d \in Worthy, d < w PROVE d \in Range(offered')
      OBVIOUS
    <2>1. d \in Nat
      BY <1>3 DEF Worthy
    <2> QED BY <2>1, <1>3, <1>5
  <1>9. PICK W \in Nat : W = w
    BY <1>3
  <1> HIDE DEF w
  <1>10. OfferedBefore(W)'
    BY <1>5, <1>7, <1>8, <1>9 DEF OfferedBefore, Range
  <1>11. BeforeDocument(query, ranges, W)'
    BY <1>1, <1>6, <1>9 DEF BeforeDocument
  <1>12. (pos_ = SumFunction([i \in DOMAIN ranges |-> ranges[i].left - 1]))'
    BY <1>1 DEF UnionInv
  <1> QED BY <1>1, <1>5, <1>10, <1>11, <1>12, OrderedStutter DEF UnionInv

(* A posting is added: the front range moves on, and its term is consumed. *)
LEMMA AdvancedFront ==
  ASSUME query \in Queries, ranges \in Seq(RangeOf(query)), Permuted(query, ranges),
         ~empty(ranges[1]), Within(query, ranges),
         NEW new, Permuted(query, new),
         NEW p, Rearranging(query, p), \A i \in DOMAIN query : new[i] = Advanced(ranges)[p[i]]
  PROVE  /\ \A i \in DOMAIN query :
              /\ p[i] \in DOMAIN query /\ new[i].term = ranges[p[i]].term
              /\ new[i].left = IF p[i] = 1 THEN ranges[p[i]].left + 1 ELSE ranges[p[i]].left
         /\ Within(query, new)
         /\ SumFunctionOnSet([i \in DOMAIN query |-> new[i].left - 1], DOMAIN query) =
              SumFunctionOnSet([i \in DOMAIN query |-> ranges[i].left - 1], DOMAIN query) + 1
  <1> DEFINE S == DOMAIN query
             A == Advanced(ranges)
  <1>1. 1 \in S /\ DOMAIN ranges = S /\ IsFiniteSet(S)
    <2>1. 1 \in S /\ IsFiniteSet(S)
      BY QueryIs
    <2> QED BY <2>1 DEF Permuted
  <1>2. ASSUME NEW i \in S
        PROVE  /\ A[i].term = ranges[i].term
               /\ A[i].left = IF i = 1 THEN ranges[i].left + 1 ELSE ranges[i].left
    <2>1. ranges[i] \in RangeOf(query)
      BY DEF Permuted
    <2>2. A[i] = IF i = 1 THEN advance(ranges[1]) ELSE ranges[i]
      BY <1>1 DEF Advanced
    <2> HIDE DEF A
    <2> QED BY <2>1, <2>2 DEF advance, RangeOf
  <1> HIDE DEF A
  <1>3. ASSUME NEW i \in S
        PROVE  /\ p[i] \in S /\ new[i].term = ranges[p[i]].term
               /\ new[i].left = IF p[i] = 1 THEN ranges[p[i]].left + 1 ELSE ranges[p[i]].left
    <2>1. p[i] \in S /\ new[i] = A[p[i]]
      BY DEF Rearranging, A
    <2> QED BY <2>1, <1>2
  <1>4. \A i \in S : /\ ranges[i].left \in Nat \ {0} /\ Len(query[ranges[i].term]) \in Nat
                     /\ ranges[i].left <= Len(query[ranges[i].term]) + 1
    BY RangeIs DEF Within
  <1>5. ranges[1].left <= Len(query[ranges[1].term])
    BY <1>1, <1>4 DEF empty
  <1>6. Within(query, new)
    <2> SUFFICES ASSUME NEW i \in S PROVE new[i].left <= Len(query[new[i].term]) + 1
      BY DEF Within
    <2> DEFINE j == p[i]
    <2>3. /\ j \in S /\ new[i].term = ranges[j].term
          /\ new[i].left = IF j = 1 THEN ranges[j].left + 1 ELSE ranges[j].left
      BY <1>3
    <2> HIDE DEF j, S
    <2>1. CASE j = 1
      BY <2>1, <2>3, <1>1, <1>4, <1>5
    <2>2. CASE j # 1
      BY <2>2, <2>3, <1>4
    <2> QED BY <2>1, <2>2
  <1> DEFINE f == [i \in S |-> new[i].left - 1]
             g == [i \in S |-> A[i].left - 1]
             h == [i \in S |-> ranges[i].left - 1]
  <1>7. \A i \in S : g[i] \in Int /\ h[i] \in Int
    BY <1>2, <1>4
  <1>8. ASSUME NEW i \in S PROVE f[i] \in Int /\ p[i] \in S /\ g[p[i]] = f[i]
    <2> DEFINE j == p[i]
    <2>1. /\ j \in S /\ new[i].left = IF j = 1 THEN ranges[j].left + 1 ELSE ranges[j].left
      BY <1>3
    <2>2. g[j] = A[j].left - 1 /\ f[i] = new[i].left - 1
      BY <2>1
    <2> HIDE DEF j, f, g, S
    <2> QED BY <2>1, <2>2, <1>2, <1>4 DEF j
  <1>9. \A i \in S \ {1} : g[i] = h[i]
    BY <1>2
  <1>10. g[1] - h[1] = 1
    BY <1>1, <1>2, <1>4
  <1>11. \A i, j \in S : p[i] = p[j] => i = j
    BY DEF Rearranging
  <1>12. \A j \in S : \E i \in S : p[i] = j
    BY DEF Rearranging
  <1> HIDE DEF S, f, g, h
  <1>13. IsFiniteSet(S) /\ 1 \in S
    BY <1>1
  <1>14. SumFunctionOnSet(f, S) = SumFunctionOnSet(g, S)
    <2>1. IsFiniteSet(S)
      BY <1>13
    <2> QED BY <2>1, <1>8, <1>11, <1>12, SetSumMap
  <1>15. SumFunctionOnSet(g, S) = SumFunctionOnSet(h, S) + (g[1] - h[1])
    <2>1. IsFiniteSet(S)
      BY <1>13
    <2>2. \A y \in S : h[y] \in Int /\ g[y] \in Int
      BY <1>7
    <2>3. \A y \in S \ {1} : g[y] = h[y]
      BY <1>9
    <2>4. 1 \in S
      BY <1>13
    <2> QED BY <2>1, <2>2, <2>3, <2>4, SetSumChange
  <1>16. SumFunctionOnSet(f, S) = SumFunctionOnSet(h, S) + 1
    BY <1>10, <1>14, <1>15
  <1> QED BY <1>3, <1>6, <1>16 DEF S, f, h

LEMMA ConsumedIs ==
  ASSUME query \in Queries, Permuted(query, ranges), ~empty(ranges[1]),
         NEW d, d = front(ranges[1]).document,
         NEW new, NEW p, Rearranging(query, p),
         \A i \in DOMAIN query :
           /\ new[i].term = ranges[p[i]].term
           /\ new[i].left = IF p[i] = 1 THEN ranges[p[i]].left + 1 ELSE ranges[p[i]].left
  PROVE  LET t == ranges[1].term
         IN  /\ t \in DOMAIN query /\ t \notin Consumed(query, ranges, d)
             /\ Consumed(query, new, d) = Consumed(query, ranges, d) \cup {t}
             /\ ScoreIn(query, t, d) = score_fn(t, front(ranges[1]))
  <1> DEFINE t == ranges[1].term
             l == ranges[1].left
  <1>1. /\ 1 \in DOMAIN query /\ t \in DOMAIN query /\ l \in DOMAIN query[t] /\ l \in Nat
        /\ front(ranges[1]) = query[t][l]
        /\ \A j, k \in DOMAIN query[t] : j < k => query[t][j].document < query[t][k].document
        /\ \A k \in DOMAIN query[t] : query[t][k].document \in Nat
    <2>1. 1 \in DOMAIN query
      BY QueryIs
    <2> QED BY <2>1, RangeIs
  <1>2. l \in Postings(query, t, d)
    BY <1>1 DEF Postings
  <1>3. \A i \in DOMAIN query : ranges[i].term = t => i = 1
    BY <1>1 DEF Permuted
  <1>4. t \notin Consumed(query, ranges, d)
    <2> SUFFICES ASSUME NEW i \in DOMAIN query, ranges[i].term = t,
                        NEW k \in Postings(query, t, d), k < ranges[i].left
                 PROVE  FALSE
      BY DEF Consumed
    <2>1. i = 1
      BY <1>3
    <2>2. k \in DOMAIN query[t] /\ query[t][k].document = d /\ query[t][l].document = d /\ k < l
      BY <1>2, <2>1 DEF Postings
    <2> QED BY <2>2, <1>1
  <1>5. ASSUME NEW u \in Consumed(query, ranges, d) \cup {t} PROVE u \in Consumed(query, new, d)
    <2>1. CASE u = t
      <3>1. PICK i \in DOMAIN query : p[i] = 1
        BY <1>1 DEF Rearranging
      <3>2. new[i].term = t /\ new[i].left = l + 1
        BY <3>1
      <3>3. l < new[i].left
        BY <3>2, <1>1
      <3> QED BY <2>1, <3>2, <3>3, <1>1, <1>2 DEF Consumed
    <2>2. CASE u \in Consumed(query, ranges, d)
      <3>1. PICK j \in DOMAIN query, k \in Postings(query, u, d) :
               ranges[j].term = u /\ k < ranges[j].left
        BY <2>2 DEF Consumed
      <3>2. PICK i \in DOMAIN query : p[i] = j
        BY DEF Rearranging
      <3>3. /\ new[i].term = u
            /\ new[i].left = IF j = 1 THEN ranges[j].left + 1 ELSE ranges[j].left
        BY <3>1, <3>2
      <3>4. ranges[j].left \in Nat /\ k \in Nat
        <4>1. k \in DOMAIN query[ranges[j].term]
          BY <3>1 DEF Postings
        <4> QED BY <4>1, RangeIs
      <3>5. k < new[i].left
        BY <3>1, <3>3, <3>4
      <3>6. u \in DOMAIN query
        BY <2>2 DEF Consumed
      <3> QED BY <3>1, <3>3, <3>5, <3>6 DEF Consumed
    <2> QED BY <2>1, <2>2
  <1>6. ASSUME NEW u \in Consumed(query, new, d) PROVE u \in Consumed(query, ranges, d) \cup {t}
    <2>1. PICK i \in DOMAIN query, k \in Postings(query, u, d) : new[i].term = u /\ k < new[i].left
      BY DEF Consumed
    <2> DEFINE j == p[i]
    <2>2. /\ j \in DOMAIN query /\ ranges[j].term = u
          /\ new[i].left = IF j = 1 THEN ranges[j].left + 1 ELSE ranges[j].left
      BY <2>1 DEF Rearranging
    <2> HIDE DEF j
    <2>3. u \in DOMAIN query
      BY DEF Consumed
    <2>4. CASE j = 1
      BY <2>2, <2>4
    <2>5. CASE j # 1
      BY <2>1, <2>2, <2>3, <2>5 DEF Consumed
    <2> QED BY <2>4, <2>5
  <1>7. ScoreIn(query, t, d) = score_fn(t, front(ranges[1]))
    BY <1>1, <1>2, ScoreInIs
  <1>8. Consumed(query, new, d) = Consumed(query, ranges, d) \cup {t}
    BY <1>5, <1>6
  <1> QED BY <1>1, <1>4, <1>7, <1>8

LEMMA AddPostingStep == ASSUME UnionInv, AddPosting PROVE UnionInv'
  <1> DEFINE S == DOMAIN query
             t1 == ranges[1].term
             fr == front(ranges[1])
             new == ranges'
  <1>1. PICK g \in Range(group) :
           /\ InGroup(g)
           /\ group' = <<[g EXCEPT !.score = @ + score_fn(t1, fr)]>>
           /\ increment /\ query' = query /\ UNCHANGED accumulator
    BY DEF AddPosting
  <1>2. g \in Groups /\ group = <<g>> /\ GroupInv(g)
    <2>1. group # << >>
      BY <1>1 DEF Range
    <2>2. PICK h \in Groups : group = <<h>> /\ GroupInv(h)
      BY <2>1 DEF UnionInv
    <2>3. g = h
      BY <1>1, <2>2 DEF Range
    <2> QED BY <2>2, <2>3
  <1> DEFINE D == g.document
  <1>3. /\ query \in Queries /\ Permuted(query, ranges) /\ Ordered(ranges) /\ OfferInv
        /\ ranges \in Seq(RangeOf(query)) /\ Within(query, ranges)
        /\ ~empty(ranges[1]) /\ D = fr.document /\ 1 \in S
        /\ D \in Documents /\ g.score \in Int /\ D \in Nat
    <2>1. ~AtEnd /\ fr.document = D
      BY <1>1 DEF InGroup
    <2>2. query \in Queries /\ ~empty(ranges[1])
      BY <2>1, NotAtEnd DEF UnionInv, OfferInv
    <2> QED BY <1>2, <2>1, <2>2, QueryIs, RetrievalAssumption DEF UnionInv, Groups, Documents
  <1>4. /\ pos_' = pos_ + 1 /\ new = Bubbled(Advanced(ranges))
    BY <1>1 DEF increment, Advanced
  <1>5. /\ new \in Seq(RangeOf(query)) /\ Permuted(query, new) /\ Ordered(new)
        /\ \E p : Rearranging(query, p) /\ \A i \in DOMAIN query : new[i] = Advanced(ranges)[p[i]]
    BY <1>3, <1>4, IncrementIs
  <1>6. PICK p : Rearranging(query, p) /\ \A i \in DOMAIN query : new[i] = Advanced(ranges)[p[i]]
    BY <1>5
  <1>7. PICK N : N = new
    OBVIOUS
  <1>8. /\ N \in Seq(RangeOf(query)) /\ Permuted(query, N)
        /\ \A i \in DOMAIN query : N[i] = Advanced(ranges)[p[i]]
    BY <1>5, <1>6, <1>7
  <1>9. /\ \A i \in DOMAIN query :
              /\ p[i] \in DOMAIN query /\ N[i].term = ranges[p[i]].term
              /\ N[i].left = IF p[i] = 1 THEN ranges[p[i]].left + 1 ELSE ranges[p[i]].left
        /\ Within(query, N)
        /\ SumFunctionOnSet([i \in DOMAIN query |-> N[i].left - 1], DOMAIN query) =
             SumFunctionOnSet([i \in DOMAIN query |-> ranges[i].left - 1], DOMAIN query) + 1
    BY <1>3, <1>6, <1>8, AdvancedFront
  <1>10. pos_' = SumFunction([i \in DOMAIN N |-> N[i].left - 1])
    <2>1. DOMAIN N = DOMAIN query /\ DOMAIN ranges = DOMAIN query
      BY <1>3, <1>8 DEF Permuted
    <2>2. pos_ = SumFunctionOnSet([i \in DOMAIN query |-> ranges[i].left - 1], DOMAIN query)
      BY <2>1 DEF UnionInv, SumFunction
    <2> QED BY <2>1, <2>2, <1>4, <1>9 DEF SumFunction
  <1>11. /\ t1 \in DOMAIN query /\ t1 \notin Consumed(query, ranges, D)
         /\ Consumed(query, N, D) = Consumed(query, ranges, D) \cup {t1}
         /\ ScoreIn(query, t1, D) = score_fn(t1, fr)
    BY <1>3, <1>6, <1>9, ConsumedIs
  <1>12. PICK G : G = [document |-> D, score |-> g.score + score_fn(t1, fr)]
    OBVIOUS
  <1>13. G.document = D /\ G.score = g.score + ScoreIn(query, t1, D)
    BY <1>11, <1>12
  <1>14. G \in Groups /\ group' = <<G>>
    <2>1. ScoreIn(query, t1, D) \in Int
      BY <1>3, <1>11, ScoreInIs
    <2>2. G \in Groups
      BY <2>1, <1>3, <1>11, <1>12 DEF Groups
    <2>3. [g EXCEPT !.score = @ + score_fn(t1, fr)] = G
      BY <1>2, <1>12 DEF Groups
    <2> QED BY <2>2, <2>3, <1>1
  <1> HIDE DEF D, t1, fr
  <1>15. G.score = SumFunctionOnSet([t \in S |-> ScoreIn(query, t, D)], Consumed(query, N, D))
    <2> DEFINE f == [t \in S |-> ScoreIn(query, t, D)]
               C == Consumed(query, ranges, D)
               E == Consumed(query, N, D)
    <2>1. g.score = SumFunctionOnSet(f, C)
      BY <1>2 DEF GroupInv, D
    <2>2. f[t1] = ScoreIn(query, t1, D)
      BY <1>11
    <2>3. E \subseteq S /\ E \ {t1} = C /\ t1 \in E
      BY <1>11 DEF Consumed
    <2>4. IsFiniteSet(E)
      <3>1. IsFiniteSet(S)
        BY <1>3, QueryIs
      <3> QED BY <3>1, <2>3, FS_Subset
    <2>5. \A t \in E : f[t] \in Int
      BY <1>3, <2>3, ScoreIsSum
    <2> HIDE DEF f, C, E
    <2>6. SumFunctionOnSet(f, E) = f[t1] + SumFunctionOnSet(f, E \ {t1})
      BY <2>3, <2>4, <2>5, SetSumRemove
    <2>7. SumFunctionOnSet(f, C) \in Int /\ f[t1] \in Int
      <3>1. g.score \in Int
        BY <1>3
      <3> QED BY <3>1, <2>1, <2>3, <2>5
    <2>8. G.score = SumFunctionOnSet(f, E)
      <3>1. SumFunctionOnSet(f, E) = f[t1] + SumFunctionOnSet(f, C)
        BY <2>3, <2>6
      <3>2. G.score = SumFunctionOnSet(f, C) + f[t1]
        BY <2>1, <2>2, <1>13
      <3> QED BY <3>1, <3>2, <2>7
    <2> QED BY <2>8 DEF f, E
  <1>16. ASSUME NEW i \in DOMAIN query, NEW k \in DOMAIN query[N[i].term]
         PROVE  /\ query[N[i].term][k].document < D => k < N[i].left
                /\ k < N[i].left => query[N[i].term][k].document <= D
    <2> DEFINE j == p[i]
    <2>1. /\ j \in DOMAIN query /\ N[i].term = ranges[j].term
          /\ N[i].left = IF j = 1 THEN ranges[j].left + 1 ELSE ranges[j].left
      BY <1>9
    <2> HIDE DEF j
    <2>2. k \in DOMAIN query[ranges[j].term]
      BY <2>1
    <2>3. /\ query[ranges[j].term][k].document < D => k < ranges[j].left
          /\ k < ranges[j].left => query[ranges[j].term][k].document <= D
      BY <1>2, <2>1, <2>2 DEF GroupInv, D
    <2>4. k \in Nat /\ ranges[j].left \in Nat /\ query[ranges[j].term][k].document \in Nat
      BY <1>3, <2>1, <2>2, RangeIs
    <2>5. j = 1 /\ k = ranges[j].left => query[ranges[j].term][k].document = D
      BY <1>3, <2>1, RangeIs DEF fr
    <2> QED BY <1>3, <2>1, <2>3, <2>4, <2>5
  <1>17. OfferInv' /\ Worthy' = Worthy /\ offered' = offered
    BY <1>1, <1>3, OfferStutter DEF accumulator
  <1>18. GroupInv(G)'
    <2>1. OfferedBefore(G.document)'
      BY <1>2, <1>13, <1>17 DEF GroupInv, OfferedBefore, D
    <2>2. (\A i \in DOMAIN query : \A k \in DOMAIN query[ranges[i].term] :
             /\ query[ranges[i].term][k].document < G.document => k < ranges[i].left
             /\ k < ranges[i].left => query[ranges[i].term][k].document <= G.document)'
      BY <1>1, <1>7, <1>13, <1>16
    <2>3. (G.score = SumFunctionOnSet([t \in DOMAIN query |-> ScoreIn(query, t, G.document)],
                                      Consumed(query, ranges, G.document)))'
      BY <1>1, <1>7, <1>13, <1>15
    <2> QED BY <2>1, <2>2, <2>3 DEF GroupInv
  <1>19. /\ (ranges \in Seq(RangeOf(query)))' /\ Permuted(query, ranges)'
         /\ Within(query, ranges)'
    BY <1>1, <1>5, <1>7, <1>9 DEF RangeOf, Permuted, Within
  <1>20. Ordered(ranges)'
    <2>1. \A i, j : InOrder(ranges[i], ranges[j])' <=> InOrder(ranges'[i], ranges'[j])
      BY <1>1 DEF InOrder, order, empty, front
    <2> QED BY <2>1, <1>5 DEF Ordered
  <1>21. (pos_ = SumFunction([i \in DOMAIN ranges |-> ranges[i].left - 1]))'
    BY <1>7, <1>10
  <1> QED BY <1>14, <1>17, <1>18, <1>19, <1>20, <1>21 DEF UnionInv, Groups

LEMMA UnionInitInv == UnionInit => UnionInv
  <1> SUFFICES ASSUME UnionInit PROVE UnionInv
    OBVIOUS
  <1> DEFINE S == DOMAIN query
  <1>1. /\ OfferInv /\ query \in Queries /\ offered = << >> /\ group = << >> /\ pos_ = 0
        /\ ranges \in Sortings
    BY OfferInit DEF UnionInit, RetrievalInit
  <1>2. PICK p \in Bijection(S, S) : ranges = [i \in S |-> Whole[p[i]]]
    BY <1>1 DEF Sortings
  <1>3. IsFiniteSet(S) /\ S = 1..Len(query) /\ Len(query) \in Nat
    BY <1>1, QueryIs
  <1>4. Rearranging(query, p)
    <2>1. p \in [S -> S] /\ \A j \in S : \E i \in S : p[i] = j
      BY <1>2 DEF Bijection, Surjection
    <2>2. \A i, j \in S : p[i] = p[j] => i = j
      BY <1>2 DEF Bijection, Injection, IsInjective
    <2> QED BY <2>1, <2>2 DEF Rearranging
  <1>5. \A i \in S : /\ p[i] \in S /\ ranges[i] = Whole[p[i]]
                     /\ ranges[i].left = 1 /\ ranges[i].term = p[i]
    BY <1>1, <1>2, <1>4, WholePermuted DEF Rearranging
  <1>6. Permuted(query, ranges)
    <2>1. DOMAIN ranges = DOMAIN query /\ \A i \in DOMAIN query : ranges[i] = Whole[p[i]]
      BY <1>2
    <2>2. Permuted(query, Whole)
      BY <1>1, WholePermuted
    <2> QED BY <2>1, <2>2, <1>4, RearrangedPermutes
  <1>7. ranges \in Seq(RangeOf(query))
    <2> DEFINE R == RangeOf(query)
    <2>1. ranges \in [1..Len(query) -> R]
      BY <1>2, <1>3, <1>6 DEF Permuted
    <2> HIDE DEF R
    <2> QED BY <2>1, <1>3 DEF R
  <1>8. Ordered(ranges)
    BY <1>1 DEF Sortings, Ordered, InOrder
  <1>9. Within(query, ranges)
    <2> SUFFICES ASSUME NEW i \in S PROVE ranges[i].left <= Len(query[ranges[i].term]) + 1
      BY DEF Within
    <2>1. Len(query[ranges[i].term]) \in Nat
      BY <1>1, <1>6, RangeIs
    <2> QED BY <2>1, <1>5
  <1>10. pos_ = SumFunction([i \in DOMAIN ranges |-> ranges[i].left - 1])
    <2> DEFINE f == [i \in S |-> ranges[i].left - 1]
    <2>1. DOMAIN ranges = S
      BY <1>6 DEF Permuted
    <2>2. \A i \in S : f[i] = 0
      BY <1>5
    <2>3. SumFunction(f) = SumFunctionOnSet(f, S)
      BY DEF SumFunction
    <2>4. SumFunctionOnSet(f, S) = SumFunctionOnSet(f, {})
      <3> HIDE DEF f, S
      <3>1. IsFiniteSet(S)
        BY <1>3
      <3>2. {} \in SUBSET S
        OBVIOUS
      <3>3. \A i \in S : f[i] \in Int
        BY <2>2
      <3>4. \A i \in S \ {} : f[i] = 0
        BY <2>2
      <3> QED BY <3>1, <3>2, <3>3, <3>4, SetSumZero
    <2>5. SumFunctionOnSet(f, {}) = 0
      BY SetSumEmpty
    <2> QED BY <1>1, <2>1, <2>3, <2>4, <2>5
  <1>11. OfferedBefore(0)
    <2>1. \A d \in Worthy : ~(d < 0)
      BY RetrievalAssumption DEF Worthy, Documents
    <2> QED BY <1>1, <2>1 DEF OfferedBefore
  <1>12. BeforeDocument(query, ranges, 0)
    <2> SUFFICES ASSUME NEW i \in S, NEW k \in DOMAIN query[ranges[i].term]
                 PROVE  query[ranges[i].term][k].document < 0 <=> k < ranges[i].left
      BY DEF BeforeDocument
    <2>1. query[ranges[i].term][k].document \in Nat /\ k >= 1 /\ k \in Nat
      BY <1>1, <1>6, RangeIs
    <2> QED BY <2>1, <1>5
  <1> QED BY <1>1, <1>6, <1>7, <1>8, <1>9, <1>10, <1>11, <1>12 DEF UnionInv

LEMMA UnionStep == ASSUME UnionInv, UnionNext PROVE UnionInv'
  BY StartGroupStep, AddPostingStep, OfferGroupStep DEF UnionNext

LEMMA UnionInvImplies ==
  ASSUME UnionInv
  PROVE  /\ OffersAreScores /\ UnionIsOrdered
         /\ AtEnd /\ group = << >> => IsBestAnswer(AnswerOf(top_))
  <1>1. query \in Queries /\ Permuted(query, ranges) /\ OfferInv
    BY DEF UnionInv, OfferInv
  <1>2. UnionIsOrdered
    BY NotAtEnd DEF UnionInv, UnionIsOrdered, Ordered, InOrder
  <1>3. ASSUME AtEnd, group = << >> PROVE IsBestAnswer(AnswerOf(top_))
    <2>1. PICK w \in Nat : OfferedBefore(w) /\ BeforeDocument(query, ranges, w)
      BY <1>3 DEF UnionInv
    <2>2. ASSUME NEW d \in Worthy PROVE d \in Range(offered)
      <3>1. Score(d) # 0
        BY DEF Worthy
      <3>2. PICK t \in DOMAIN query : Postings(query, t, d) # {}
        BY <3>1, <1>1, NoPostings DEF Score
      <3>3. PICK k \in DOMAIN query[t] : query[t][k].document = d
        BY <3>2 DEF Postings
      <3>4. PICK i \in DOMAIN query : ranges[i].term = t
        BY <1>1 DEF Permuted
      <3>5. k < ranges[i].left
        BY <3>3, <3>4, <1>3, NotAtEnd
      <3>6. d < w
        BY <3>3, <3>4, <3>5, <2>1 DEF BeforeDocument
      <3> QED BY <3>6, <2>1 DEF OfferedBefore
    <2> QED BY <2>2, <1>1, BestAnswer
  <1> QED BY <1>1, <1>2, <1>3 DEF OfferInv

-----------------------------------------------------------------------------
(* Whichever traversal runs.                                               *)
IInv ==
  /\ traversal \in {"daat", "taat", "union"}
  /\ traversal = "daat"  => DaatInv  /\ TaatIdle /\ UnionIdle
  /\ traversal = "taat"  => TaatInv  /\ DaatIdle /\ UnionIdle
  /\ traversal = "union" => UnionInv /\ DaatIdle /\ TaatIdle

LEMMA InitIInv == Init => IInv
  BY DaatInitInv, TaatInitInv, UnionInitInv DEF Init, IInv

LEMMA DaatStutter ==
  ASSUME DaatInv, query' = query, ranges' = ranges, UNCHANGED accumulator, UNCHANGED daat_vars
  PROVE  DaatInv'
  <1>1. OfferInv' /\ Worthy' = Worthy
    BY OfferStutter DEF DaatInv
  <1> QED BY <1>1 DEF DaatInv, Permuted, RangeOf, BeforeDocument, OfferedBefore, accumulator, daat_vars

LEMMA TaatStutter ==
  ASSUME TaatInv, query' = query, UNCHANGED accumulator, UNCHANGED taat_vars
  PROVE  TaatInv'
  <1>1. OfferInv' /\ Worthy' = Worthy
    BY OfferStutter DEF TaatInv
  <1>2. SkippedAreWorthless'
    BY <1>1 DEF TaatInv, SkippedAreWorthless, BlockMaxIsBound, Score, accumulator, taat_vars
  <1> QED BY <1>1, <1>2 DEF TaatInv, accumulator, taat_vars

LEMMA UnionStutter ==
  ASSUME UnionInv, query' = query, ranges' = ranges, UNCHANGED accumulator, UNCHANGED union_vars
  PROVE  UnionInv'
  <1>1. OfferInv' /\ Worthy' = Worthy /\ offered' = offered
    BY OfferStutter DEF UnionInv, accumulator
  <1>2. (pos_ = SumFunction([i \in DOMAIN ranges |-> ranges[i].left - 1]))'
    BY DEF UnionInv, union_vars
  <1>3. CASE group = << >> /\ \E w \in Nat : OfferedBefore(w) /\ BeforeDocument(query, ranges, w)
    <2>1. PICK w \in Nat : OfferedBefore(w) /\ BeforeDocument(query, ranges, w)
      BY <1>3
    <2>2. OfferedBefore(w)' /\ BeforeDocument(query, ranges, w)'
      BY <1>1, <2>1 DEF OfferedBefore, BeforeDocument
    <2> QED BY <1>1, <1>2, <1>3, <2>2, OrderedStutter DEF UnionInv, union_vars
  <1>4. CASE \E g \in Groups : group = <<g>> /\ GroupInv(g)
    <2>1. PICK g \in Groups : group = <<g>> /\ GroupInv(g)
      BY <1>4
    <2>2. GroupInv(g)' /\ group' = <<g>>
      BY <1>1, <2>1 DEF GroupInv, OfferedBefore, Consumed, union_vars
    <2> QED BY <1>1, <1>2, <2>2, OrderedStutter DEF UnionInv, Groups
  <1> QED BY <1>3, <1>4 DEF UnionInv

LEMMA NextIInv == ASSUME IInv, [Next]_vars PROVE IInv'
  <1>1. CASE UNCHANGED vars
    <2>1. /\ query' = query /\ ranges' = ranges /\ UNCHANGED accumulator /\ traversal' = traversal
          /\ UNCHANGED daat_vars /\ UNCHANGED taat_vars /\ UNCHANGED union_vars
      BY <1>1 DEF vars
    <2>2. /\ traversal = "daat"  => DaatInv'
          /\ traversal = "taat"  => TaatInv'
          /\ traversal = "union" => UnionInv'
      BY <2>1, DaatStutter, TaatStutter, UnionStutter DEF IInv
    <2> QED BY <2>1, <2>2
            DEF IInv, DaatIdle, TaatIdle, UnionIdle, daat_vars, taat_vars, union_vars
  <1>2. CASE Next
    <2>1. traversal' = traversal
      BY <1>2 DEF Next
    <2>2. CASE traversal = "daat"
      <3>1. DaatNext /\ UNCHANGED <<taat_vars, union_vars>>
        BY <1>2, <2>2 DEF Next
      <3>2. DaatInv'
        BY <3>1, <2>2, DaatStep DEF IInv
      <3> QED BY <2>1, <2>2, <3>1, <3>2 DEF IInv, TaatIdle, UnionIdle, taat_vars, union_vars
    <2>3. CASE traversal = "taat"
      <3>1. TaatNext /\ UNCHANGED <<daat_vars, union_vars>>
        BY <1>2, <2>3 DEF Next
      <3>2. TaatInv'
        BY <3>1, <2>3, TaatStep DEF IInv
      <3> QED BY <2>1, <2>3, <3>1, <3>2 DEF IInv, DaatIdle, UnionIdle, daat_vars, union_vars
    <2>4. CASE traversal = "union"
      <3>1. UnionNext /\ UNCHANGED <<daat_vars, taat_vars>>
        BY <1>2, <2>4 DEF Next
      <3>2. UnionInv'
        BY <3>1, <2>4, UnionStep DEF IInv
      <3> QED BY <2>1, <2>4, <3>1, <3>2 DEF IInv, DaatIdle, TaatIdle, daat_vars, taat_vars
    <2> QED BY <2>2, <2>3, <2>4 DEF IInv
  <1> QED BY <1>1, <1>2

LEMMA Invariance == Spec => []IInv
  BY InitIInv, NextIInv, PTL DEF Spec

(* An idle Taat has skipped nothing, and no ranges are an idle Daat's.     *)
LEMMA IInvImplies ==
  ASSUME IInv
  PROVE  OffersAreScores /\ SkippedAreWorthless /\ RangesInOrder /\ AnswerIsBest
  <1>1. TaatIdle => SkippedAreWorthless
    <2> SUFFICES ASSUME TaatIdle PROVE SkippedAreWorthless
      OBVIOUS
    <2>1. BlockMaxIsBound
      BY DEF TaatIdle, BlockMaxIsBound
    <2>2. \A d \in Worthy : ~(d < key)
      BY RetrievalAssumption DEF TaatIdle, Worthy, Documents
    <2> QED BY <2>1, <2>2 DEF SkippedAreWorthless
  <1>2. DaatIdle => RangesAtCurrent
    BY DEF DaatIdle, RangesAtCurrent
  <1>3. CASE traversal = "daat"
    BY <1>1, <1>3, DaatInvImplies DEF IInv, RangesInOrder, AnswerIsBest, Done
  <1>4. CASE traversal = "taat"
    BY <1>2, <1>4, TaatInvImplies DEF IInv, RangesInOrder, AnswerIsBest, Done
  <1>5. CASE traversal = "union"
    BY <1>1, <1>2, <1>5, UnionInvImplies DEF IInv, RangesInOrder, AnswerIsBest, Done
  <1> QED BY <1>3, <1>4, <1>5 DEF IInv

(* Documents are offered once, in order, each with its whole score: no     *)
(* posting is scored twice, with another term's scorer, or not at all.     *)
THEOREM ScoresOffered == Spec => []OffersAreScores
  BY Invariance, IInvImplies, PTL

(* A block that taat skips holds no document that the answer lacks.        *)
THEOREM NothingLostInBlocks == Spec => []SkippedAreWorthless
  BY Invariance, IInvImplies, PTL

(* The ranges that daat swaps and the union moves back stay where the      *)
(* next step expects them.                                                 *)
THEOREM RangesKeptInOrder == Spec => []RangesInOrder
  BY Invariance, IInvImplies, PTL

(* Each of the three traversals ends with k documents of the highest       *)
(* scores, for every k, every query and every collection.                  *)
THEOREM BestAnswers == Spec => []AnswerIsBest
  BY Invariance, IInvImplies, PTL
=============================================================================
