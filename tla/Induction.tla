------------------------------ MODULE Induction ------------------------------
(***************************************************************************)
(* Facts that proofs by induction need, and what follows from them about   *)
(* sums over sequences and over finite sets, sums of sums, sequences that  *)
(* are put end to end, and sorting, of any size.                           *)
(*                                                                         *)
(* Induction is stated of sets instead of predicates: a proof names the    *)
(* set of numbers (or of subsets of a finite set) for which its claim      *)
(* holds.  It follows from the library's facts about well-founded          *)
(* relations.                                                              *)
(***************************************************************************)
EXTENDS Integers, Sequences, SequencesExt, WellFoundedInduction, FiniteSetTheorems, TLAPS

(* Every non-empty set of natural numbers has a least element.             *)
LEMMA LeastNumber ==
  ASSUME NEW S \in SUBSET Nat, S # {}
  PROVE  \E n \in S : \A m \in S : n <= m
  <1> DEFINE Below == OpToRel(<, Nat)
  <1>1. IsWellFoundedOn(Below, Nat)
    BY NatLessThanWellFounded
  <1>2. \A m, n \in Nat : m < n => <<m, n>> \in Below
    BY DEF OpToRel
  <1> HIDE DEF Below
  <1>3. PICK n \in S : \A m \in S : <<m, n>> \notin Below
    BY <1>1, WFMin
  <1>4. ASSUME NEW m \in S PROVE n <= m
    <2>1. m \in Nat /\ n \in Nat /\ ~(m < n)
      BY <1>2, <1>3
    <2> QED BY <2>1
  <1> QED BY <1>4

(* Every non-empty set of integers with an upper bound has a greatest one. *)
LEMMA GreatestNumber ==
  ASSUME NEW S \in SUBSET Int, S # {}, NEW bound \in Int, \A n \in S : n <= bound
  PROVE  \E n \in S : \A m \in S : m <= n
  <1> DEFINE Distances == { bound - n : n \in S }
  <1>1. Distances \in SUBSET Nat
    <2>1. ASSUME NEW n \in S PROVE bound - n \in Nat
      <3>1. n \in Int /\ n <= bound
        OBVIOUS
      <3> QED BY <3>1
    <2> QED BY <2>1
  <1>0. Distances # {}
    OBVIOUS
  <1> HIDE DEF Distances
  <1>2. PICK d \in Distances : \A e \in Distances : d <= e
    BY <1>1, <1>0, LeastNumber
  <1> USE DEF Distances
  <1>3. PICK n \in S : d = bound - n
    BY <1>2
  <1>4. ASSUME NEW m \in S PROVE m <= n
    <2>1. d <= bound - m
      BY <1>2
    <2> QED BY <2>1, <1>3
  <1> QED BY <1>4

LEMMA InductionFrom0 ==
  ASSUME NEW Holds, 0 \in Holds, \A n \in Nat : n \in Holds => n + 1 \in Holds
  PROVE  \A n \in Nat : n \in Holds
  <1> SUFFICES ASSUME NEW x \in Nat \ Holds PROVE FALSE
    OBVIOUS
  <1>1. PICK n \in Nat \ Holds : \A m \in Nat \ Holds : n <= m
    BY LeastNumber
  <1>2. n # 0 /\ n - 1 \in Nat /\ n - 1 + 1 = n
    BY <1>1
  <1>3. n - 1 \in Holds
    BY <1>1, <1>2
  <1> QED BY <1>1, <1>2, <1>3

(* With the claim for all smaller numbers at hand.                         *)
LEMMA CourseOfValues ==
  ASSUME NEW Holds, \A n \in Nat : (\A m \in 0..n - 1 : m \in Holds) => n \in Holds
  PROVE  \A n \in Nat : n \in Holds
  <1> SUFFICES ASSUME NEW x \in Nat \ Holds PROVE FALSE
    OBVIOUS
  <1>1. PICK n \in Nat \ Holds : \A m \in Nat \ Holds : n <= m
    BY LeastNumber
  <1>2. \A m \in 0..n - 1 : m \in Holds
    BY <1>1
  <1> QED BY <1>1, <1>2

(* From n down to 1.                                                       *)
LEMMA InductionDown ==
  ASSUME NEW n \in Nat, NEW Holds,
         \A m \in 1..n : (\A l \in m + 1..n : l \in Holds) => m \in Holds
  PROVE  \A m \in 1..n : m \in Holds
  <1> DEFINE Failing == { m \in 1..n : m \notin Holds }
  <1> SUFFICES ASSUME Failing # {} PROVE FALSE
    OBVIOUS
  <1>1. Failing \in SUBSET Int /\ Failing # {} /\ n \in Int /\ \A m \in Failing : m <= n
    OBVIOUS
  <1> HIDE DEF Failing
  <1>2. PICK m \in Failing : \A l \in Failing : l <= m
    BY <1>1, GreatestNumber
  <1> USE DEF Failing
  <1>3. \A l \in m + 1..n : l \in Holds
    BY <1>2
  <1> QED BY <1>2, <1>3

(* For subsets of a finite set: from all smaller ones.                     *)
LEMMA SubsetInduction ==
  ASSUME NEW S, IsFiniteSet(S), NEW Holds,
         \A T \in SUBSET S : (\A U \in SUBSET T : U # T => U \in Holds) => T \in Holds
  PROVE  \A T \in SUBSET S : T \in Holds
  <1> SUFFICES ASSUME NEW X \in SUBSET S, X \notin Holds PROVE FALSE
    OBVIOUS
  <1> DEFINE Failing == { T \in SUBSET S : T \notin Holds }
  <1>1. IsWellFoundedOn(StrictSubsetOrdering(S), FiniteSubsetsOf(S))
    BY FS_StrictSubsetOrderingWellFounded
  <1>2. FiniteSubsetsOf(S) = SUBSET S
    BY FS_FiniteSubsetsOfFinite
  <1>3. Failing \subseteq FiniteSubsetsOf(S) /\ Failing # {}
    BY <1>2
  <1> HIDE DEF Failing
  <1>4. PICK T \in Failing : \A U \in Failing : <<U, T>> \notin StrictSubsetOrdering(S)
    BY <1>1, <1>3, WFMin
  <1> USE DEF Failing
  <1>5. ASSUME NEW U \in SUBSET T, U # T PROVE U \in Holds
    <2>1. <<U, T>> \in StrictSubsetOrdering(S)
      BY <1>5 DEF StrictSubsetOrdering
    <2> QED BY <2>1, <1>4
  <1> QED BY <1>4, <1>5

-----------------------------------------------------------------------------
(* The sum of a sequence, as the modules of the project write it.          *)
SumOf(s) == FoldLeft(+, 0, s)

LEMMA MaxOf ==
  ASSUME NEW n \in Nat, NEW T \in SUBSET (1..n), T # {}
  PROVE  Max(T) \in T /\ \A m \in T : m <= Max(T)
  <1>1. T \in SUBSET Int /\ T # {} /\ n \in Int /\ \A m \in T : m <= n
    OBVIOUS
  <1>2. \E x \in T : \A m \in T : m <= x
    BY <1>1, GreatestNumber
  <1>3. \E x \in T : \A m \in T : x >= m
    BY <1>1, <1>2
  <1>4. Max(T) \in T /\ \A m \in T : Max(T) >= m
    BY <1>3 DEF Max
  <1> QED BY <1>1, <1>4

(* It is what its partial sums make it.                                    *)
IsPartialSums(F, s, n) ==
  /\ F[0] = 0
  /\ \A k \in 1..n : F[k] = F[k - 1] + s[k]
  /\ F[n] = SumOf(s)

LEMMA PartialSums ==
  ASSUME NEW n \in Nat, NEW s, DOMAIN s = 1..n
  PROVE  \E F : IsPartialSums(F, s, n)
  <1> DEFINE Body(g, T) == IF T = {} THEN 0 ELSE g[T \ {Max(T)}] + s[Max(T)]
             Holds == { m \in Nat : \E g : g = [T \in SUBSET (1..m) |-> Body(g, T)] }
  <1>1. SumOf(s) = (CHOOSE f : f = [T \in SUBSET (1..n) |-> Body(f, T)])[1..n]
    BY DEF SumOf, FoldLeft, MapThenFoldSet
  <1>2. \A f, g, T : T = {} \/ f[T \ {Max(T)}] = g[T \ {Max(T)}] => Body(f, T) = Body(g, T)
    OBVIOUS
  <1>3. \A g : Body(g, {}) = 0
    OBVIOUS
  <1>4. \A g, T : T # {} => Body(g, T) = g[T \ {Max(T)}] + s[Max(T)]
    OBVIOUS
  <1> HIDE DEF Body
  <1>5. 0 \in Holds
    <2> DEFINE g == [T \in SUBSET (1..0) |-> 0]
    <2>1. \A T \in SUBSET (1..0) : T = {}
      OBVIOUS
    <2>2. g = [T \in SUBSET (1..0) |-> Body(g, T)]
      BY <2>1, <1>3
    <2> QED BY <2>2
  <1>6. ASSUME NEW m \in Nat, m \in Holds PROVE m + 1 \in Holds
    <2>1. PICK g : g = [T \in SUBSET (1..m) |-> Body(g, T)]
      BY <1>6
    <2> DEFINE next == [T \in SUBSET (1..m + 1) |->
                          IF m + 1 \in T THEN g[T \ {m + 1}] + s[m + 1] ELSE g[T]]
    <2>2. ASSUME NEW T \in SUBSET (1..m) PROVE next[T] = g[T] /\ g[T] = Body(g, T)
      <3>1. T \in SUBSET (1..m + 1) /\ m + 1 \notin T
        OBVIOUS
      <3> QED BY <3>1, <2>1
    <2>3. ASSUME NEW T \in SUBSET (1..m + 1) PROVE next[T] = Body(next, T)
      <3>1. CASE T = {}
        <4>1. {} \in SUBSET (1..m)
          OBVIOUS
        <4> HIDE DEF next
        <4> QED BY <4>1, <3>1, <2>2, <1>3
      <3>2. CASE m + 1 \in T
        <4>0. m + 1 \in Nat /\ T # {} /\ T \in SUBSET (1..(m + 1))
          BY <3>2
        <4> HIDE DEF next
        <4>1. Max(T) \in T /\ \A l \in T : l <= Max(T)
          BY <4>0, MaxOf
        <4>2. Max(T) = m + 1
          <5>1. Max(T) \in 1..(m + 1) /\ m + 1 <= Max(T)
            BY <4>1, <3>2
          <5> QED BY <5>1
        <4> USE DEF next
        <4>3. next[T] = g[T \ {m + 1}] + s[m + 1]
          BY <3>2
        <4>4. T \ {m + 1} \in SUBSET (1..m)
          OBVIOUS
        <4>5. next[T \ {m + 1}] = g[T \ {m + 1}]
          BY <4>4, <2>2
        <4> HIDE DEF next
        <4> QED BY <4>2, <4>3, <4>5, <3>2, <1>4
      <3>3. CASE T # {} /\ m + 1 \notin T
        <4>1. T \in SUBSET (1..m)
          BY <3>3
        <4>2. T \ {Max(T)} \in SUBSET (1..m)
          BY <4>1
        <4>3. next[T] = Body(g, T) /\ next[T \ {Max(T)}] = g[T \ {Max(T)}]
          BY <4>1, <4>2, <2>2
        <4> HIDE DEF next
        <4> QED BY <4>3, <1>2
      <3> QED BY <3>1, <3>2, <3>3
    <2>4. next = [T \in SUBSET (1..m + 1) |-> next[T]]
      OBVIOUS
    <2> HIDE DEF next
    <2>5. next = [T \in SUBSET (1..m + 1) |-> Body(next, T)]
      BY <2>3, <2>4
    <2> QED BY <2>5
  <1>7. n \in Holds
    <2> HIDE DEF Holds
    <2> QED BY <1>5, <1>6, InductionFrom0
  <1> DEFINE f == CHOOSE f : f = [T \in SUBSET (1..n) |-> Body(f, T)]
             F == [k \in 0..n |-> f[1..k]]
  <1>8. f = [T \in SUBSET (1..n) |-> Body(f, T)]
    BY <1>7
  <1> HIDE DEF f
  <1>9. F[0] = 0
    <2>1. 1..0 = {} /\ {} \in SUBSET (1..n)
      OBVIOUS
    <2> QED BY <2>1, <1>3, <1>8
  <1>10. ASSUME NEW k \in 1..n PROVE F[k] = F[k - 1] + s[k]
    <2>0. k \in Nat /\ k >= 1 /\ k <= n
      OBVIOUS
    <2>1. k \in 1..k /\ 1..k # {} /\ k \in 0..n /\ k - 1 \in 0..n /\ 1..k \in SUBSET (1..n)
      BY <2>0
    <2>2. Max(1..k) = k
      <3>1. Max(1..k) \in 1..k /\ \A l \in 1..k : l <= Max(1..k)
        BY <2>0, <2>1, MaxOf
      <3> QED BY <3>1, <2>1
    <2>3. (1..k) \ {k} = 1..k - 1
      OBVIOUS
    <2>4. f[1..k] = f[1..k - 1] + s[k]
      BY <2>1, <2>2, <2>3, <1>4, <1>8
    <2> QED BY <2>1, <2>4
  <1>11. F[n] = SumOf(s)
    BY <1>1 DEF f
  <1> HIDE DEF F
  <1>12. IsPartialSums(F, s, n)
    BY <1>9, <1>10, <1>11 DEF IsPartialSums
  <1> QED BY <1>12

LEMMA SumEmpty == SumOf(<< >>) = 0
  <1>1. DOMAIN << >> = 1..0 /\ 0 \in Nat
    OBVIOUS
  <1>2. PICK F : IsPartialSums(F, << >>, 0)
    BY <1>1, PartialSums
  <1> QED BY <1>2 DEF IsPartialSums

(* Of a sequence and what comes before its last element.                   *)
LEMMA SumStep ==
  ASSUME NEW n \in Nat, NEW s, DOMAIN s = 1..n + 1, NEW t, DOMAIN t = 1..n,
         \A k \in 1..n : t[k] = s[k]
  PROVE  SumOf(s) = SumOf(t) + s[n + 1]
  <1>1. PICK F : IsPartialSums(F, s, n + 1)
    BY PartialSums
  <1>2. PICK G : IsPartialSums(G, t, n)
    BY PartialSums
  <1> DEFINE Holds == { k \in Nat : k <= n => F[k] = G[k] }
  <1>3. 0 \in Holds
    BY <1>1, <1>2 DEF IsPartialSums
  <1>4. ASSUME NEW k \in Nat, k \in Holds PROVE k + 1 \in Holds
    <2>1. CASE k + 1 <= n
      <3>1. k + 1 \in 1..n /\ k + 1 \in 1..n + 1 /\ (k + 1) - 1 = k
        BY <2>1
      <3>2. F[k + 1] = F[k] + s[k + 1] /\ G[k + 1] = G[k] + t[k + 1]
        BY <3>1, <1>1, <1>2 DEF IsPartialSums
      <3>3. F[k] = G[k] /\ s[k + 1] = t[k + 1]
        BY <3>1, <1>4, <2>1
      <3> QED BY <3>2, <3>3
    <2>2. CASE ~(k + 1 <= n)
      BY <2>2
    <2> QED BY <2>1, <2>2
  <1> HIDE DEF Holds
  <1>5. n \in Holds
    BY <1>3, <1>4, InductionFrom0
  <1>6. F[n] = G[n]
    BY <1>5 DEF Holds
  <1>7. n + 1 \in 1..n + 1 /\ (n + 1) - 1 = n
    OBVIOUS
  <1>8. SumOf(s) = F[n] + s[n + 1] /\ SumOf(t) = G[n]
    BY <1>1, <1>2, <1>7 DEF IsPartialSums
  <1> QED BY <1>6, <1>8

LEMMA SumAppend ==
  ASSUME NEW S, NEW s \in Seq(S), NEW x \in S
  PROVE  SumOf(Append(s, x)) = SumOf(s) + x
  <1> DEFINE a == Append(s, x)
             n == Len(s)
  <1>1. /\ n \in Nat /\ DOMAIN a = 1..n + 1 /\ DOMAIN s = 1..n
        /\ \A k \in 1..n : s[k] = a[k]
        /\ a[n + 1] = x
    OBVIOUS
  <1> HIDE DEF a, n
  <1>2. SumOf(a) = SumOf(s) + a[n + 1]
    BY <1>1, SumStep
  <1> QED BY <1>1, <1>2 DEF a

LEMMA SumType ==
  /\ \A s \in Seq(Int) : SumOf(s) \in Int
  /\ \A s \in Seq(Nat) : SumOf(s) \in Nat
  <1>1. ASSUME NEW T, T = Int \/ T = Nat, NEW s \in Seq(T) PROVE SumOf(s) \in T
    <2> DEFINE n == Len(s)
    <2>1. n \in Nat /\ DOMAIN s = 1..n /\ \A k \in 1..n : s[k] \in T
      OBVIOUS
    <2> HIDE DEF n
    <2>2. PICK F : IsPartialSums(F, s, n)
      BY <2>1, PartialSums
    <2> DEFINE Holds == { k \in Nat : k <= n => F[k] \in T }
    <2>3. 0 \in Holds
      BY <1>1, <2>2 DEF IsPartialSums
    <2>4. ASSUME NEW k \in Nat, k \in Holds PROVE k + 1 \in Holds
      <3>1. CASE k + 1 <= n
        <4>1. k + 1 \in 1..n /\ (k + 1) - 1 = k /\ F[k] \in T
          BY <3>1, <2>1, <2>4
        <4>2. F[k + 1] = F[k] + s[k + 1]
          BY <4>1, <2>2 DEF IsPartialSums
        <4> QED BY <4>1, <4>2, <2>1, <1>1
      <3>2. CASE ~(k + 1 <= n)
        BY <3>2
      <3> QED BY <3>1, <3>2
    <2> HIDE DEF Holds
    <2>5. n \in Holds
      BY <2>1, <2>3, <2>4, InductionFrom0
    <2> QED BY <2>2, <2>5 DEF Holds, IsPartialSums
  <1> QED BY <1>1

(* Sums of elementwise equal sequences are equal.                          *)
LEMMA SumSame ==
  ASSUME NEW n \in Nat, NEW s, DOMAIN s = 1..n, NEW t, DOMAIN t = 1..n,
         \A k \in 1..n : s[k] = t[k]
  PROVE  SumOf(s) = SumOf(t)
  <1>1. PICK F : IsPartialSums(F, s, n)
    BY PartialSums
  <1>2. PICK G : IsPartialSums(G, t, n)
    BY PartialSums
  <1> DEFINE Holds == { k \in Nat : k <= n => F[k] = G[k] }
  <1>3. 0 \in Holds
    BY <1>1, <1>2 DEF IsPartialSums
  <1>4. ASSUME NEW k \in Nat, k \in Holds PROVE k + 1 \in Holds
    <2>1. CASE k + 1 <= n
      <3>1. k + 1 \in 1..n /\ (k + 1) - 1 = k /\ F[k] = G[k]
        BY <2>1, <1>4
      <3>2. F[k + 1] = F[k] + s[k + 1] /\ G[k + 1] = G[k] + t[k + 1]
        BY <3>1, <1>1, <1>2 DEF IsPartialSums
      <3> QED BY <3>1, <3>2
    <2>2. CASE ~(k + 1 <= n)
      BY <2>2
    <2> QED BY <2>1, <2>2
  <1> HIDE DEF Holds
  <1>5. n \in Holds
    BY <1>3, <1>4, InductionFrom0
  <1> QED BY <1>1, <1>2, <1>5 DEF Holds, IsPartialSums

LEMMA SumConcat ==
  ASSUME NEW s \in Seq(Int), NEW t \in Seq(Int)
  PROVE  SumOf(s \o t) = SumOf(s) + SumOf(t)
  <1> DEFINE u == s \o t
             m == Len(s)
             n == Len(t)
  <1>1. /\ m \in Nat /\ n \in Nat /\ DOMAIN s = 1..m /\ DOMAIN t = 1..n
        /\ DOMAIN u = 1..m + n
        /\ \A k \in 1..m : u[k] = s[k] /\ s[k] \in Int
        /\ \A k \in 1..n : u[m + k] = t[k] /\ t[k] \in Int
    OBVIOUS
  <1>2. SumOf(s) \in Int
    BY SumType
  <1> HIDE DEF u, m, n
  <1>3. PICK F : IsPartialSums(F, s, m)
    BY <1>1, PartialSums
  <1>4. PICK G : IsPartialSums(G, t, n)
    BY <1>1, PartialSums
  <1>5. m + n \in Nat
    BY <1>1
  <1>6. PICK H : IsPartialSums(H, u, m + n)
    BY <1>1, <1>5, PartialSums
  <1> DEFINE First == { k \in Nat : k <= m => H[k] = F[k] }
             Second == { k \in Nat : k <= n => G[k] \in Int /\ H[m + k] = SumOf(s) + G[k] }
  <1>7. 0 \in First
    BY <1>3, <1>6 DEF IsPartialSums
  <1>8. ASSUME NEW k \in Nat, k \in First PROVE k + 1 \in First
    <2>1. CASE k + 1 <= m
      <3>1. k + 1 \in 1..m /\ k + 1 \in 1..m + n /\ (k + 1) - 1 = k /\ F[k] = H[k]
        BY <2>1, <1>1, <1>8
      <3>2. F[k + 1] = F[k] + s[k + 1] /\ H[k + 1] = H[k] + u[k + 1]
        BY <3>1, <1>3, <1>6 DEF IsPartialSums
      <3> QED BY <3>1, <3>2, <1>1
    <2>2. CASE ~(k + 1 <= m)
      BY <2>2
    <2> QED BY <2>1, <2>2
  <1>9. m \in First
    <2> HIDE DEF First
    <2> QED BY <1>1, <1>7, <1>8, InductionFrom0
  <1>10. H[m] = SumOf(s)
    BY <1>3, <1>9 DEF IsPartialSums
  <1>11. 0 \in Second
    BY <1>1, <1>2, <1>4, <1>10 DEF IsPartialSums
  <1>12. ASSUME NEW k \in Nat, k \in Second PROVE k + 1 \in Second
    <2>1. CASE k + 1 <= n
      <3>1. /\ k + 1 \in 1..n /\ m + (k + 1) \in 1..m + n
            /\ (k + 1) - 1 = k /\ (m + (k + 1)) - 1 = m + k
            /\ G[k] \in Int /\ H[m + k] = SumOf(s) + G[k]
        BY <2>1, <1>1, <1>12
      <3>2. G[k + 1] = G[k] + t[k + 1] /\ H[m + (k + 1)] = H[m + k] + u[m + (k + 1)]
        BY <3>1, <1>4, <1>6 DEF IsPartialSums
      <3>3. u[m + (k + 1)] = t[k + 1] /\ t[k + 1] \in Int
        BY <3>1, <1>1
      <3> QED BY <3>1, <3>2, <3>3, <1>2
    <2>2. CASE ~(k + 1 <= n)
      BY <2>2
    <2> QED BY <2>1, <2>2
  <1>13. n \in Second
    <2> HIDE DEF Second
    <2> QED BY <1>1, <1>11, <1>12, InductionFrom0
  <1>14. SumOf(u) = SumOf(s) + SumOf(t)
    BY <1>4, <1>6, <1>13 DEF IsPartialSums
  <1> QED BY <1>14 DEF u

-----------------------------------------------------------------------------
(* A permutation of the places 1..n.                                       *)
Places(n) ==
  { p \in [1..n -> 1..n] : /\ \A i, j \in 1..n : p[i] = p[j] => i = j
                           /\ \A j \in 1..n : \E i \in 1..n : p[i] = j }

(* Numbers can be sorted.                                                  *)
Sorts(p, n, f) == p \in Places(n) /\ \A i, j \in 1..n : i < j => f[p[i]] <= f[p[j]]

LEMMA Sorting ==
  ASSUME NEW n \in Nat, NEW f \in [1..n -> Int]
  PROVE  \E p : Sorts(p, n, f)
  <1> DEFINE Holds == { m \in Nat : m <= n => \E p : Sorts(p, m, f) }
  <1>1. 0 \in Holds
    <2>1. Sorts([i \in 1..0 |-> i], 0, f)
      BY DEF Sorts, Places
    <2> QED BY <2>1
  <1>2. ASSUME NEW m \in Nat, m \in Holds PROVE m + 1 \in Holds
    <2>1. CASE ~(m + 1 <= n)
      BY <2>1
    <2>2. CASE m + 1 <= n
      <3>1. PICK p : Sorts(p, m, f)
        BY <2>2, <1>2
      <3>2. /\ p \in [1..m -> 1..m]
            /\ \A i, j \in 1..m : p[i] = p[j] => i = j
            /\ \A j \in 1..m : \E i \in 1..m : p[i] = j
            /\ \A i, j \in 1..m : i < j => f[p[i]] <= f[p[j]]
        BY <3>1 DEF Sorts, Places
      <3>0. m + 1 \in 1..m + 1 /\ \A i \in 1..m : i \in 1..m + 1 /\ p[i] \in 1..m + 1
        <4>1. \A i \in 1..m : p[i] \in 1..m
          BY <3>2
        <4> QED BY <4>1
      <3>3. \A i \in 1..m + 1 : f[i] \in Int
        BY <2>2
      <3> DEFINE x == f[m + 1]
                 Above == { j \in 1..m + 1 : j = m + 1 \/ f[p[j]] > x }
      <3>4. Above \in SUBSET Nat /\ Above # {}
        <4>1. m + 1 \in Above
          BY <3>0
        <4> QED BY <4>1, SMTT(30)
      <3> HIDE DEF Above
      <3>5. PICK c \in Above : \A j \in Above : c <= j
        BY <3>4, LeastNumber
      <3> USE DEF Above
      <3>6. c \in 1..m + 1 /\ (c = m + 1 \/ f[p[c]] > x)
        BY <3>5
      <3>7. ASSUME NEW j \in 1..m, j < c PROVE f[p[j]] <= x
        <4>1. j \notin Above /\ j \in 1..m + 1 /\ j # m + 1
          BY <3>5, <3>6, <3>7
        <4>2. p[j] \in 1..m + 1
          BY <3>2
        <4> QED BY <4>1, <4>2, <3>3
      <3>8. ASSUME NEW j \in 1..m, j >= c PROVE x <= f[p[j]]
        <4>1. c \in 1..m /\ f[p[c]] > x
          BY <3>6, <3>8
        <4>2. p[c] \in 1..m + 1 /\ p[j] \in 1..m + 1 /\ m + 1 \in 1..m + 1
          BY <4>1, <3>0
        <4>3. f[p[c]] <= f[p[j]]
          <5>1. CASE j = c
            BY <5>1, <4>2, <3>3
          <5>2. CASE j > c
            BY <5>2, <4>1, <3>2
          <5> QED BY <5>1, <5>2, <3>6, <3>8
        <4> QED BY <4>1, <4>2, <4>3, <3>3
      <3> HIDE DEF Above, x
      <3> DEFINE q == [i \in 1..m + 1 |-> IF i < c THEN p[i] ELSE IF i = c THEN m + 1 ELSE p[i - 1]]
      <3>9. ASSUME NEW i \in 1..m + 1
            PROVE  \/ i < c /\ i \in 1..m /\ q[i] = p[i] /\ q[i] \in 1..m
                   \/ i = c /\ q[i] = m + 1
                   \/ i > c /\ i - 1 \in 1..m /\ q[i] = p[i - 1] /\ q[i] \in 1..m
        <4>1. CASE i < c
          <5>1. i \in 1..m
            BY <4>1, <3>6
          <5> QED BY <5>1, <4>1, <3>2
        <4>2. CASE i = c
          BY <4>2
        <4>3. CASE i > c
          <5>1. i - 1 \in 1..m
            BY <4>3, <3>6
          <5>2. q[i] = p[i - 1]
            BY <4>3, <3>6
          <5> QED BY <5>1, <5>2, <4>3, <3>2
        <4> QED BY <4>1, <4>2, <4>3, <3>6
      <3>10. q \in [1..m + 1 -> 1..m + 1]
        <4>1. ASSUME NEW i \in 1..m + 1 PROVE q[i] \in 1..m + 1
          <5> HIDE DEF q
          <5> QED BY <3>9
        <4> QED BY <4>1
      <3> HIDE DEF q
      <3>11. ASSUME NEW i \in 1..m + 1, NEW j \in 1..m + 1, q[i] = q[j] PROVE i = j
        <4>1. i \in Int /\ j \in Int /\ c \in Int
          BY <3>6
        <4>2. CASE i = c \/ j = c
          BY <4>1, <4>2, <3>9, <3>11
        <4>3. CASE i < c /\ j < c
          BY <4>1, <4>3, <3>9, <3>11, <3>2
        <4>4. CASE i > c /\ j > c
          <5>1. i - 1 \in 1..m /\ j - 1 \in 1..m /\ p[i - 1] = p[j - 1]
            BY <4>1, <4>4, <3>9, <3>11
          <5>2. i - 1 = j - 1
            BY <5>1, <3>2
          <5> QED BY <5>2, <4>1
        <4>5. CASE i < c /\ j > c
          <5>1. i \in 1..m /\ j - 1 \in 1..m /\ p[i] = p[j - 1]
            BY <4>1, <4>5, <3>9, <3>11
          <5>2. i = j - 1
            BY <5>1, <3>2
          <5> QED BY <5>2, <4>1, <4>5
        <4>6. CASE i > c /\ j < c
          <5>1. i - 1 \in 1..m /\ j \in 1..m /\ p[i - 1] = p[j]
            BY <4>1, <4>6, <3>9, <3>11
          <5>2. i - 1 = j
            BY <5>1, <3>2
          <5> QED BY <5>2, <4>1, <4>6
        <4> QED BY <4>1, <4>2, <4>3, <4>4, <4>5, <4>6
      <3>12. ASSUME NEW j \in 1..m + 1 PROVE \E i \in 1..m + 1 : q[i] = j
        <4>1. CASE j = m + 1
          BY <4>1, <3>6, <3>9
        <4>2. CASE j # m + 1
          <5>1. j \in 1..m
            BY <4>2
          <5>2. PICK i \in 1..m : p[i] = j
            BY <5>1, <3>2
          <5>3. CASE i < c
            <6>1. i \in 1..m + 1 /\ ~(i = c) /\ ~(i > c)
              BY <5>3, <3>0, <3>6
            <6>2. q[i] = p[i]
              BY <6>1, <3>9
            <6> QED BY <6>1, <6>2, <5>2
          <5>4. CASE i >= c
            <6>1. i + 1 \in 1..m + 1 /\ i + 1 > c /\ (i + 1) - 1 = i
              BY <5>4, <3>6
            <6>2. q[i + 1] = p[i]
              BY <6>1, <3>9, <3>6
            <6> QED BY <6>1, <6>2, <5>2
          <5> QED BY <5>3, <5>4, <3>6
        <4> QED BY <4>1, <4>2
      <3>13. ASSUME NEW i \in 1..m + 1, NEW j \in 1..m + 1, i < j PROVE f[q[i]] <= f[q[j]]
        <4>1. i \in Int /\ j \in Int /\ c \in Int
          BY <3>6
        <4>2. CASE i = c
          <5>1. j > c /\ j - 1 \in 1..m /\ q[j] = p[j - 1] /\ j - 1 >= c
            BY <4>1, <4>2, <3>9, <3>13
          <5>2. f[q[i]] = x
            BY <4>2, <3>9, <4>1 DEF x
          <5> QED BY <5>1, <5>2, <3>8
        <4>3. CASE j = c
          <5>1. i < c /\ i \in 1..m /\ q[i] = p[i]
            BY <4>1, <4>3, <3>9, <3>13
          <5>2. f[q[j]] = x
            BY <4>3, <3>9, <4>1 DEF x
          <5> QED BY <5>1, <5>2, <3>7
        <4>4. CASE j < c
          <5>1. i \in 1..m /\ j \in 1..m /\ q[i] = p[i] /\ q[j] = p[j]
            BY <4>1, <4>4, <3>9, <3>13
          <5> QED BY <5>1, <3>2, <3>13
        <4>5. CASE i > c
          <5>1. i - 1 \in 1..m /\ j - 1 \in 1..m /\ q[i] = p[i - 1] /\ q[j] = p[j - 1]
            BY <4>1, <4>5, <3>9, <3>13
          <5>2. i - 1 < j - 1
            BY <4>1, <3>13
          <5> QED BY <5>1, <5>2, <3>2
        <4>6. CASE i < c /\ j > c
          <5>1. i \in 1..m /\ q[i] = p[i]
            BY <4>1, <4>6, <3>9
          <5>2. j - 1 \in 1..m /\ q[j] = p[j - 1] /\ j - 1 >= c
            BY <4>1, <4>6, <3>9
          <5>3. f[p[i]] <= x /\ x <= f[p[j - 1]]
            BY <5>1, <5>2, <4>6, <3>7, <3>8
          <5>4. f[p[i]] \in Int /\ f[p[j - 1]] \in Int /\ x \in Int
            <6>1. p[i] \in 1..m + 1 /\ p[j - 1] \in 1..m + 1
              BY <5>1, <5>2, <3>0
            <6> QED BY <6>1, <3>0, <3>3 DEF x
          <5> QED BY <5>1, <5>2, <5>3, <5>4
        <4> QED BY <4>1, <4>2, <4>3, <4>4, <4>5, <4>6
      <3>14. Sorts(q, m + 1, f)
        BY <3>10, <3>11, <3>12, <3>13 DEF Sorts, Places
      <3> QED BY <3>14
    <2> QED BY <2>1, <2>2
  <1> HIDE DEF Holds
  <1>3. n \in Holds
    BY <1>1, <1>2, InductionFrom0
  <1> QED BY <1>3 DEF Holds

-----------------------------------------------------------------------------
(* Sums over finite sets: SumFunctionOnSet(f, S) of the community modules. *)
(* It adds the elements in some order; what follows does not depend on it. *)
Some(T) == CHOOSE x \in T : TRUE

IsRecursiveSum(g, f, S) ==
  g = [T \in SUBSET S |-> IF T = {} THEN 0 ELSE f[Some(T)] + g[T \ {Some(T)}]]

LEMMA RecursiveSumIs ==
  ASSUME NEW f, NEW S, NEW g, IsRecursiveSum(g, f, S), NEW T \in SUBSET S
  PROVE  /\ T = {} => g[T] = 0
         /\ T # {} => /\ g[T] = f[Some(T)] + g[T \ {Some(T)}]
                      /\ Some(T) \in T /\ T \ {Some(T)} \in SUBSET S
  <1> DEFINE Body(U) == IF U = {} THEN 0 ELSE f[Some(U)] + g[U \ {Some(U)}]
  <1>1. g = [U \in SUBSET S |-> Body(U)]
    BY DEF IsRecursiveSum
  <1>2. g[T] = Body(T)
    <2> HIDE DEF Body
    <2> QED BY <1>1
  <1>3. T # {} => Some(T) \in T
    BY DEF Some
  <1> QED BY <1>2, <1>3

LEMMA RecursiveSumEmpty ==
  ASSUME NEW f, NEW S, NEW g, IsRecursiveSum(g, f, S)
  PROVE  g[{}] = 0
  <1>1. {} \in SUBSET S
    OBVIOUS
  <1> QED BY <1>1, RecursiveSumIs

LEMMA RecursiveSumsAgree ==
  ASSUME NEW f, NEW S, IsFiniteSet(S), NEW U, NEW g, IsRecursiveSum(g, f, S),
         NEW h, IsRecursiveSum(h, f, U)
  PROVE  \A T \in SUBSET S : T \in SUBSET U => g[T] = h[T]
  <1> DEFINE Holds == { T \in SUBSET S : T \in SUBSET U => g[T] = h[T] }
  <1>1. ASSUME NEW T \in SUBSET S, \A V \in SUBSET T : V # T => V \in Holds, T \in SUBSET U
        PROVE  g[T] = h[T]
    <2>1. CASE T = {}
      <3>1. g[{}] = 0 /\ h[{}] = 0
        BY RecursiveSumEmpty
      <3> QED BY <2>1, <3>1
    <2>2. CASE T # {}
      <3>1. /\ g[T] = f[Some(T)] + g[T \ {Some(T)}] /\ Some(T) \in T
            /\ h[T] = f[Some(T)] + h[T \ {Some(T)}]
        BY <2>2, <1>1, RecursiveSumIs
      <3>2. T \ {Some(T)} \in Holds
        BY <3>1, <1>1
      <3>3. g[T \ {Some(T)}] = h[T \ {Some(T)}]
        BY <3>2, <1>1
      <3> QED BY <3>1, <3>3
    <2> QED BY <2>1, <2>2
  <1>2. \A T \in SUBSET S : (\A V \in SUBSET T : V # T => V \in Holds) => T \in Holds
    BY <1>1
  <1>3. \A T \in SUBSET S : T \in Holds
    <2> HIDE DEF Holds
    <2> QED BY <1>2, SubsetInduction
  <1> QED BY <1>3

LEMMA RecursiveSumExists ==
  ASSUME NEW f, NEW S, IsFiniteSet(S)
  PROVE  \E g : IsRecursiveSum(g, f, S)
  <1> DEFINE Sum(T) == CHOOSE g : IsRecursiveSum(g, f, T)
             Holds == { T \in SUBSET S : \E g : IsRecursiveSum(g, f, T) }
  <1>1. ASSUME NEW T \in SUBSET S, \A U \in SUBSET T : U # T => U \in Holds
        PROVE  T \in Holds
    <2>1. ASSUME NEW U \in SUBSET T, U # T PROVE IsRecursiveSum(Sum(U), f, U) /\ IsFiniteSet(U)
      <3>1. U \in Holds
        BY <1>1, <2>1
      <3>2. IsFiniteSet(U)
        BY FS_Subset
      <3> QED BY <3>1, <3>2
    <2> HIDE DEF Sum
    <2>2. ASSUME NEW U \in SUBSET T, U # T, NEW V \in SUBSET U PROVE Sum(U)[V] = Sum(V)[V]
      <3>1. V \in SUBSET T /\ V # T /\ V \in SUBSET V
        BY <2>2
      <3>2. /\ IsRecursiveSum(Sum(U), f, U) /\ IsFiniteSet(U)
            /\ IsRecursiveSum(Sum(V), f, V)
        BY <2>1, <2>2, <3>1
      <3> QED BY <3>1, <3>2, RecursiveSumsAgree
    <2> DEFINE Body(g, U) == IF U = {} THEN 0 ELSE f[Some(U)] + g[U \ {Some(U)}]
               low  == [U \in SUBSET T |-> Sum(U)[U]]
               next == [U \in SUBSET T |-> IF U = T THEN Body(low, T) ELSE Sum(U)[U]]
    <2>3. ASSUME NEW U \in SUBSET T, U # T PROVE next[U] = Sum(U)[U]
      BY <2>3
    <2>4. \A U \in SUBSET T : U # T => next[U] = low[U]
      OBVIOUS
    <2>5. next[T] = Body(low, T)
      OBVIOUS
    <2>6. \A U : U # {} => Some(U) \in U
      BY DEF Some
    <2>7. next = [U \in SUBSET T |-> next[U]]
      OBVIOUS
    <2> HIDE DEF next, low
    <2>8. ASSUME NEW U \in SUBSET T PROVE next[U] = Body(next, U)
      <3>1. CASE U = T
        <4>1. U # {} => next[U \ {Some(U)}] = low[U \ {Some(U)}]
          BY <3>1, <2>4, <2>6
        <4> QED BY <4>1, <3>1, <2>5
      <3>2. CASE U # T
        <4> DEFINE V == U \ {Some(U)}
        <4>1. next[U] = Sum(U)[U]
          BY <3>2, <2>3
        <4>2. CASE U = {}
          <5>1. IsRecursiveSum(Sum(U), f, U)
            BY <3>2, <2>1
          <5>2. Sum(U)[{}] = 0
            BY <5>1, RecursiveSumEmpty
          <5> QED BY <4>1, <4>2, <5>2
        <4>3. CASE U # {}
          <5>1. V \in SUBSET U /\ V \in SUBSET T /\ V # T
            BY <4>3, <3>2, <2>6
          <5>2. Sum(U)[U] = f[Some(U)] + Sum(U)[V]
            BY <3>2, <4>3, <2>1, RecursiveSumIs
          <5>3. Sum(U)[V] = Sum(V)[V] /\ next[V] = Sum(V)[V]
            BY <5>1, <3>2, <2>2, <2>3
          <5> QED BY <4>1, <4>3, <5>2, <5>3
        <4> QED BY <4>2, <4>3
      <3> QED BY <3>1, <3>2
    <2> HIDE DEF Body
    <2>9. next = [U \in SUBSET T |-> Body(next, U)]
      BY <2>7, <2>8
    <2> QED BY <2>9 DEF IsRecursiveSum, Body
  <1>2. S \in Holds
    <2> HIDE DEF Holds
    <2> QED BY <1>1, SubsetInduction
  <1> QED BY <1>2

LEMMA SetSumStep ==
  ASSUME NEW f, NEW S, IsFiniteSet(S)
  PROVE  /\ S = {} => SumFunctionOnSet(f, S) = 0
         /\ S # {} => /\ Some(S) \in S
                      /\ SumFunctionOnSet(f, S) =
                           f[Some(S)] + SumFunctionOnSet(f, S \ {Some(S)})
  <1> DEFINE Sum(T) == CHOOSE g : IsRecursiveSum(g, f, T)
  <1>1. \A T : SumFunctionOnSet(f, T) = Sum(T)[T]
    BY DEF SumFunctionOnSet, FoldFunctionOnSet, MapThenFoldSet, IsRecursiveSum, Some
  <1>2. ASSUME NEW T \in SUBSET S PROVE IsRecursiveSum(Sum(T), f, T) /\ IsFiniteSet(T)
    <2>1. IsFiniteSet(T)
      BY FS_Subset
    <2> QED BY <2>1, RecursiveSumExists
  <1> HIDE DEF Sum
  <1>3. CASE S = {}
    <2>1. IsRecursiveSum(Sum(S), f, S)
      BY <1>2
    <2>2. Sum(S)[{}] = 0
      BY <2>1, RecursiveSumEmpty
    <2> QED BY <1>1, <1>3, <2>2
  <1>4. CASE S # {}
    <2> DEFINE T == S \ {Some(S)}
    <2>1. Sum(S)[S] = f[Some(S)] + Sum(S)[T] /\ Some(S) \in S
      BY <1>2, <1>4, RecursiveSumIs
    <2>2. Sum(S)[T] = Sum(T)[T]
      <3>1. IsRecursiveSum(Sum(S), f, S) /\ IsRecursiveSum(Sum(T), f, T)
        BY <1>2
      <3> QED BY <3>1, RecursiveSumsAgree
    <2> QED BY <2>1, <2>2, <1>1, <1>4
  <1> QED BY <1>3, <1>4

(* Any element may come first.                                             *)
LEMMA SetSumRemove ==
  ASSUME NEW f, NEW S, IsFiniteSet(S), \A x \in S : f[x] \in Int
  PROVE  /\ SumFunctionOnSet(f, S) \in Int
         /\ \A x \in S : SumFunctionOnSet(f, S) = f[x] + SumFunctionOnSet(f, S \ {x})
  <1> DEFINE Sum(T) == SumFunctionOnSet(f, T)
             Holds == { T \in SUBSET S :
                          Sum(T) \in Int /\ \A x \in T : Sum(T) = f[x] + Sum(T \ {x}) }
  <1>1. ASSUME NEW T \in SUBSET S
        PROVE  /\ T = {} => Sum(T) = 0
               /\ T # {} => Some(T) \in T /\ Sum(T) = f[Some(T)] + Sum(T \ {Some(T)})
    <2>1. IsFiniteSet(T)
      BY FS_Subset
    <2> QED BY <2>1, SetSumStep
  <1> HIDE DEF Sum
  <1>2. ASSUME NEW T \in SUBSET S, \A U \in SUBSET T : U # T => U \in Holds
        PROVE  T \in Holds
    <2>1. CASE T = {}
      <3>1. Sum(T) = 0
        BY <2>1, <1>1
      <3>2. Sum(T) \in Int /\ \A x \in T : FALSE
        BY <2>1, <3>1
      <3> QED BY <3>2
    <2>2. CASE T # {}
      <3> DEFINE c == Some(T)
      <3>1. c \in T /\ Sum(T) = f[c] + Sum(T \ {c}) /\ f[c] \in Int
        BY <2>2, <1>1
      <3> HIDE DEF c
      <3>2. T \ {c} \in Holds
        BY <3>1, <1>2
      <3>3. Sum(T \ {c}) \in Int
        BY <3>2
      <3>4. ASSUME NEW x \in T PROVE Sum(T) = f[x] + Sum(T \ {x})
        <4>1. CASE x = c
          BY <3>1, <4>1
        <4>2. CASE x # c
          <5>1. T \ {x} \in Holds
            BY <1>2
          <5>2. x \in T \ {c} /\ c \in T \ {x} /\ (T \ {c}) \ {x} = (T \ {x}) \ {c}
            BY <3>1, <4>2
          <5> DEFINE rest == Sum((T \ {x}) \ {c})
          <5>3. Sum(T \ {c}) = f[x] + rest
            BY <3>2, <5>2
          <5>4. Sum(T \ {x}) = f[c] + rest
            BY <5>1, <5>2
          <5>5. (T \ {x}) \ {c} \in Holds
            <6>1. (T \ {x}) \ {c} \in SUBSET T /\ (T \ {x}) \ {c} # T
              OBVIOUS
            <6> QED BY <6>1, <1>2
          <5>6. rest \in Int /\ f[x] \in Int
            BY <5>5
          <5> HIDE DEF rest
          <5> QED BY <5>3, <5>4, <5>6, <3>1
        <4> QED BY <4>1, <4>2
      <3> QED BY <3>1, <3>3, <3>4
    <2> QED BY <2>1, <2>2
  <1>3. S \in Holds
    <2> HIDE DEF Holds
    <2> QED BY <1>2, SubsetInduction
  <1> QED BY <1>3 DEF Sum

LEMMA SetSumEmpty == ASSUME NEW f PROVE SumFunctionOnSet(f, {}) = 0
  BY FS_EmptySet, SetSumStep

(* It depends on the values at the elements only, wherever they are.       *)
LEMMA SetSumMap ==
  ASSUME NEW S, IsFiniteSet(S), NEW T, NEW f, NEW g, NEW p,
         \A x \in S : f[x] \in Int /\ p[x] \in T /\ g[p[x]] = f[x],
         \A x, y \in S : p[x] = p[y] => x = y,
         \A z \in T : \E x \in S : p[x] = z
  PROVE  SumFunctionOnSet(f, S) = SumFunctionOnSet(g, T)
  <1> DEFINE Image(U) == { p[x] : x \in U }
             Holds == { U \in SUBSET S : SumFunctionOnSet(f, U) = SumFunctionOnSet(g, Image(U)) }
  <1>1. ASSUME NEW U \in SUBSET S, \A V \in SUBSET U : V # U => V \in Holds
        PROVE  U \in Holds
    <2>0. IsFiniteSet(U)
      BY FS_Subset
    <2>1. CASE U = {}
      <3>1. Image(U) = {}
        BY <2>1
      <3> HIDE DEF Image
      <3> QED BY <2>1, <3>1, SetSumEmpty
    <2>2. CASE U # {}
      <3>1. PICK x \in U : TRUE
        BY <2>2
      <3> DEFINE V == U \ {x}
      <3>2. V \in Holds
        BY <1>1
      <3>3. SumFunctionOnSet(f, U) = f[x] + SumFunctionOnSet(f, V)
        BY <2>0, SetSumRemove
      <3>4. IsFiniteSet(Image(U))
        <4>1. [y \in U |-> p[y]] \in Surjection(U, Image(U))
          BY DEF Surjection
        <4> HIDE DEF Image
        <4> QED BY <4>1, <2>0, FS_Surjection
      <3>5. \A z \in Image(U) : g[z] \in Int
        OBVIOUS
      <3>6. p[x] \in Image(U)
        OBVIOUS
      <3>10. Image(U) \ {p[x]} = Image(V)
        OBVIOUS
      <3>7. g[p[x]] = f[x]
        OBVIOUS
      <3>8. SumFunctionOnSet(f, V) = SumFunctionOnSet(g, Image(V))
        BY <3>2
      <3> HIDE DEF Image
      <3>9. SumFunctionOnSet(g, Image(U)) = g[p[x]] + SumFunctionOnSet(g, Image(V))
        <4>1. SumFunctionOnSet(g, Image(U)) = g[p[x]] + SumFunctionOnSet(g, Image(U) \ {p[x]})
          BY <3>4, <3>5, <3>6, SetSumRemove
        <4> QED BY <4>1, <3>10
      <3> QED BY <3>3, <3>7, <3>8, <3>9
    <2> QED BY <2>1, <2>2
  <1>2. S \in Holds
    <2> HIDE DEF Holds
    <2> QED BY <1>1, SubsetInduction
  <1>3. Image(S) = T
    OBVIOUS
  <1> HIDE DEF Image
  <1> QED BY <1>2, <1>3

LEMMA SetSumSame ==
  ASSUME NEW S, IsFiniteSet(S), NEW f, NEW g, \A x \in S : f[x] \in Int /\ g[x] = f[x]
  PROVE  SumFunctionOnSet(f, S) = SumFunctionOnSet(g, S)
  <1> DEFINE p == [x \in S |-> x]
  <1>1. \A x \in S : p[x] = x
    OBVIOUS
  <1> HIDE DEF p
  <1> QED BY <1>1, SetSumMap

(* What is zero does not count.                                            *)
LEMMA SetSumZero ==
  ASSUME NEW S, IsFiniteSet(S), NEW T \in SUBSET S, NEW f,
         \A x \in S : f[x] \in Int, \A x \in S \ T : f[x] = 0
  PROVE  SumFunctionOnSet(f, S) = SumFunctionOnSet(f, T)
  <1> DEFINE Sum(U) == SumFunctionOnSet(f, U)
             Holds == { U \in SUBSET S : Sum(U) = Sum(U \cap T) }
  <1>0. ASSUME NEW U \in SUBSET S
        PROVE  Sum(U) \in Int /\ \A x \in U : Sum(U) = f[x] + Sum(U \ {x})
    <2>1. IsFiniteSet(U) /\ \A x \in U : f[x] \in Int
      BY FS_Subset
    <2> QED BY <2>1, SetSumRemove
  <1> HIDE DEF Sum
  <1>1. ASSUME NEW U \in SUBSET S, \A V \in SUBSET U : V # U => V \in Holds
        PROVE  U \in Holds
    <2>1. CASE U \subseteq T
      <3>1. U \cap T = U
        BY <2>1
      <3> QED BY <3>1
    <2>2. CASE ~(U \subseteq T)
      <3>1. PICK x \in U : x \notin T
        BY <2>2
      <3>2. U \ {x} \in Holds
        BY <1>1
      <3>3. (U \ {x}) \cap T = U \cap T
        BY <3>1
      <3>4. Sum(U) = f[x] + Sum(U \ {x}) /\ f[x] = 0 /\ Sum(U \ {x}) \in Int
        BY <1>0, <3>1
      <3>5. Sum(U \ {x}) = Sum(U \cap T)
        BY <3>2, <3>3
      <3> QED BY <3>4, <3>5
    <2> QED BY <2>1, <2>2
  <1>2. S \in Holds
    <2> HIDE DEF Holds
    <2> QED BY <1>1, SubsetInduction
  <1>3. S \cap T = T
    OBVIOUS
  <1> QED BY <1>2, <1>3 DEF Sum

(* One value changes.                                                      *)
LEMMA SetSumChange ==
  ASSUME NEW S, IsFiniteSet(S), NEW x \in S, NEW f, NEW g,
         \A y \in S : f[y] \in Int /\ g[y] \in Int, \A y \in S \ {x} : g[y] = f[y]
  PROVE  SumFunctionOnSet(g, S) = SumFunctionOnSet(f, S) + (g[x] - f[x])
  <1> DEFINE rest == SumFunctionOnSet(f, S \ {x})
  <1>1. IsFiniteSet(S \ {x})
    BY FS_Subset
  <1>2. SumFunctionOnSet(g, S \ {x}) = rest
    BY <1>1, SetSumSame
  <1>3. SumFunctionOnSet(f, S) = f[x] + rest
    BY SetSumRemove
  <1>4. SumFunctionOnSet(g, S) = g[x] + SumFunctionOnSet(g, S \ {x})
    BY SetSumRemove
  <1>5. rest \in Int
    BY <1>1, SetSumRemove
  <1> HIDE DEF rest
  <1> QED BY <1>2, <1>3, <1>4, <1>5

(* A sum of lower values is lower, unless they are all the same.           *)
LEMMA SetSumLess ==
  ASSUME NEW S, IsFiniteSet(S), NEW f, NEW g,
         \A x \in S : f[x] \in Int /\ g[x] \in Int /\ f[x] <= g[x]
  PROVE  /\ SumFunctionOnSet(f, S) <= SumFunctionOnSet(g, S)
         /\ SumFunctionOnSet(f, S) = SumFunctionOnSet(g, S) => \A x \in S : f[x] = g[x]
  <1> DEFINE F(T) == SumFunctionOnSet(f, T)
             G(T) == SumFunctionOnSet(g, T)
             Holds == { T \in SUBSET S : F(T) <= G(T) }
  <1>1. ASSUME NEW T \in SUBSET S
        PROVE  /\ T = {} => F(T) = 0 /\ G(T) = 0
               /\ F(T) \in Int /\ \A x \in T : F(T) = f[x] + F(T \ {x})
               /\ G(T) \in Int /\ \A x \in T : G(T) = g[x] + G(T \ {x})
    <2>1. IsFiniteSet(T) /\ \A x \in T : f[x] \in Int /\ g[x] \in Int
      BY FS_Subset
    <2>2. F(T) \in Int /\ \A x \in T : F(T) = f[x] + F(T \ {x})
      BY <2>1, SetSumRemove
    <2>3. G(T) \in Int /\ \A x \in T : G(T) = g[x] + G(T \ {x})
      BY <2>1, SetSumRemove
    <2> QED BY <2>2, <2>3, SetSumEmpty
  <1> HIDE DEF F, G
  <1>2. ASSUME NEW T \in SUBSET S, \A U \in SUBSET T : U # T => U \in Holds
        PROVE  T \in Holds
    <2>1. CASE T = {}
      BY <1>1, <2>1
    <2>2. CASE T # {}
      <3>1. PICK x \in T : TRUE
        BY <2>2
      <3>2. T \ {x} \in SUBSET T /\ T \ {x} # T /\ T \ {x} \in SUBSET S
        BY <3>1
      <3>3. F(T \ {x}) <= G(T \ {x})
        BY <3>2, <1>2
      <3>4. /\ F(T) = f[x] + F(T \ {x}) /\ F(T \ {x}) \in Int
            /\ G(T) = g[x] + G(T \ {x}) /\ G(T \ {x}) \in Int
        BY <3>1, <3>2, <1>1
      <3>5. f[x] \in Int /\ g[x] \in Int /\ f[x] <= g[x]
        BY <3>1
      <3> QED BY <3>3, <3>4, <3>5
    <2> QED BY <2>1, <2>2
  <1>3. \A T \in SUBSET S : T \in Holds
    <2> HIDE DEF Holds
    <2> QED BY <1>2, SubsetInduction
  <1>4. ASSUME F(S) = G(S), NEW x \in S PROVE f[x] = g[x]
    <2>1. S \ {x} \in SUBSET S /\ S \in SUBSET S
      OBVIOUS
    <2>2. F(S \ {x}) <= G(S \ {x})
      BY <2>1, <1>3
    <2>3. /\ F(S) = f[x] + F(S \ {x}) /\ F(S \ {x}) \in Int
          /\ G(S) = g[x] + G(S \ {x}) /\ G(S \ {x}) \in Int
      BY <2>1, <1>1
    <2>4. f[x] \in Int /\ g[x] \in Int /\ f[x] <= g[x]
      OBVIOUS
    <2> QED BY <2>2, <2>3, <2>4, <1>4
  <1>5. F(S) <= G(S)
    BY <1>3
  <1> QED BY <1>4, <1>5 DEF F, G

-----------------------------------------------------------------------------
Then(s, t) == s \o t

(* A sequence of sequences in one, which is built up part by part.         *)
IsFlattening(F, s) ==
  /\ F[0] = << >>
  /\ \A k \in 1..Len(s) : F[k] = Then(F[k - 1], s[k])
  /\ FlattenSeq(s) = F[Len(s)]

(* Every sequence of sequences has such a build-up.                        *)
LEMMA Flattening ==
  ASSUME NEW S, NEW s \in Seq(Seq(S))
  PROVE  \E F : IsFlattening(F, s)
  <1> DEFINE n == Len(s)
             Body(g, i) == IF i = 1 THEN s[i] ELSE g[i - 1] \o s[i]
             Holds == { m \in Nat : \E g : g = [i \in 1..m |-> Body(g, i)] }
             f == CHOOSE g : g = [i \in 1..n |-> Body(g, i)]
  <1>1. n \in Nat /\ DOMAIN s = 1..n /\ \A k \in 1..n : s[k] \in Seq(S)
    OBVIOUS
  <1>2. FlattenSeq(s) = IF n = 0 THEN s ELSE f[n]
    BY DEF FlattenSeq
  <1>3. \A g, h, i : i = 1 \/ g[i - 1] = h[i - 1] => Body(g, i) = Body(h, i)
    OBVIOUS
  <1>4. /\ \A g : Body(g, 1) = s[1]
        /\ \A g : \A i \in 2..n : i # 1 /\ Body(g, i) = g[i - 1] \o s[i]
    <2>1. \A i \in 2..n : i # 1
      BY <1>1
    <2> QED BY <2>1, Zenon
  <1> HIDE DEF Body
  <1>5. 0 \in Holds
    <2> DEFINE g == [i \in 1..0 |-> 0]
    <2>1. g = [i \in 1..0 |-> Body(g, i)]
      OBVIOUS
    <2> QED BY <2>1
  <1>6. ASSUME NEW m \in Nat, m \in Holds PROVE m + 1 \in Holds
    <2>1. PICK g : g = [i \in 1..m |-> Body(g, i)]
      BY <1>6
    <2> DEFINE next == [i \in 1..m + 1 |-> IF i <= m THEN g[i] ELSE Body(g, i)]
    <2>2. ASSUME NEW i \in 1..m + 1 PROVE next[i] = Body(next, i)
      <3>0. i <= m => i \in 1..m
        OBVIOUS
      <3>1. next[i] = Body(g, i)
        BY <2>1, <3>0
      <3>2. i = 1 \/ next[i - 1] = g[i - 1]
        OBVIOUS
      <3> HIDE DEF next
      <3> QED BY <3>1, <3>2, <1>3
    <2>3. next = [i \in 1..m + 1 |-> next[i]]
      OBVIOUS
    <2> HIDE DEF next
    <2>4. next = [i \in 1..m + 1 |-> Body(next, i)]
      BY <2>2, <2>3
    <2> QED BY <2>4
  <1>7. n \in Holds
    <2> HIDE DEF Holds, n
    <2> QED BY <1>1, <1>5, <1>6, InductionFrom0
  <1>8. f = [i \in 1..n |-> Body(f, i)]
    <2>1. \E g : g = [i \in 1..n |-> Body(g, i)]
      BY <1>7
    <2> QED BY <2>1
  <1> HIDE DEF f, n
  <1>9. \A i \in 1..n : f[i] = Body(f, i)
    BY <1>8
  <1> DEFINE F == [k \in 0..n |-> IF k = 0 THEN << >> ELSE f[k]]
  <1>10. F[0] = << >>
    BY <1>1
  <1>11. ASSUME NEW k \in 1..n PROVE F[k] = Then(F[k - 1], s[k])
    <2>1. CASE k = 1
      <3>1. F[k] = s[1] /\ F[k - 1] = << >> /\ s[1] \in Seq(S)
        BY <2>1, <1>1, <1>4, <1>9, <1>10
      <3>2. \A t \in Seq(S) : << >> \o t = t
        OBVIOUS
      <3> QED BY <3>1, <3>2, <2>1, Zenon DEF Then
    <2>2. CASE k # 1
      <3>1. k - 1 \in 1..n /\ k \in 2..n /\ k \in 0..n
        BY <2>2, <1>1
      <3>2. F[k] = f[k] /\ F[k - 1] = f[k - 1]
        BY <3>1
      <3> QED BY <3>1, <3>2, <1>4, <1>9, ZenonT(60) DEF Then
    <2> QED BY <2>1, <2>2
  <1>12. FlattenSeq(s) = F[n]
    <2>1. n = 0 => s = << >>
      BY <1>1 DEF n
    <2>2. n # 0 => F[n] = f[n]
      BY <1>1
    <2> QED BY <2>1, <2>2, <1>2, <1>10
  <1> HIDE DEF F
  <1> QED BY <1>10, <1>11, <1>12 DEF IsFlattening, n

(* And what it builds are sequences over the same set.                     *)
LEMMA FlattenType ==
  ASSUME NEW S, NEW s \in Seq(Seq(S)), NEW F, IsFlattening(F, s)
  PROVE  /\ \A k \in 0..Len(s) : F[k] \in Seq(S)
         /\ FlattenSeq(s) \in Seq(S)
  <1> DEFINE n == Len(s)
             Holds == { k \in Nat : k <= n => F[k] \in Seq(S) }
  <1>1. n \in Nat /\ \A k \in 1..n : s[k] \in Seq(S)
    OBVIOUS
  <1>0. F[0] = << >> /\ \A k \in 1..n : F[k] = Then(F[k - 1], s[k])
    BY Zenon DEF IsFlattening
  <1>2. 0 \in Holds
    <2>1. << >> \in Seq(S)
      OBVIOUS
    <2> QED BY <1>0, <2>1
  <1>3. ASSUME NEW k \in Nat, k \in Holds PROVE k + 1 \in Holds
    <2> SUFFICES ASSUME k + 1 <= n PROVE F[k + 1] \in Seq(S)
      OBVIOUS
    <2>1. k + 1 \in 1..n /\ k + 1 - 1 = k /\ F[k] \in Seq(S)
      BY <1>1, <1>3
    <2>2. F[k + 1] = Then(F[k], s[k + 1]) /\ s[k + 1] \in Seq(S)
      BY <2>1, <1>0, <1>1
    <2>3. Then(F[k], s[k + 1]) \in Seq(S)
      BY <2>1, <2>2 DEF Then
    <2> QED BY <2>2, <2>3
  <1>4. \A k \in Nat : k \in Holds
    <2> HIDE DEF Holds
    <2> QED BY <1>2, <1>3, InductionFrom0
  <1> QED BY <1>1, <1>4 DEF IsFlattening

-----------------------------------------------------------------------------
(* Sums of sums.                                                           *)
LEMMA SumInt ==
  ASSUME NEW n \in Nat, NEW s, DOMAIN s = 1..n, \A k \in 1..n : s[k] \in Int
  PROVE  SumOf(s) \in Int
  <1> DEFINE t == [k \in 1..n |-> s[k]]
  <1>1. t \in Seq(Int) /\ DOMAIN t = 1..n /\ \A k \in 1..n : s[k] = t[k]
    OBVIOUS
  <1> HIDE DEF t
  <1>2. SumOf(s) = SumOf(t)
    BY <1>1, SumSame
  <1> QED BY <1>1, <1>2, SumType

(* A sum of zeros.                                                         *)
LEMMA SumZeros ==
  ASSUME NEW n \in Nat, NEW s, DOMAIN s = 1..n, \A k \in 1..n : s[k] = 0
  PROVE  SumOf(s) = 0
  <1> DEFINE t(m) == [k \in 1..m |-> 0]
             Holds == { m \in Nat : SumOf(t(m)) = 0 }
  <1>1. 0 \in Holds
    <2>1. t(0) = << >>
      OBVIOUS
    <2> QED BY <2>1, SumEmpty
  <1>2. ASSUME NEW m \in Nat, m \in Holds PROVE m + 1 \in Holds
    <2>1. DOMAIN t(m + 1) = 1..m + 1 /\ DOMAIN t(m) = 1..m /\ (\A k \in 1..m : t(m)[k] = t(m + 1)[k])
          /\ t(m + 1)[m + 1] = 0
      OBVIOUS
    <2> HIDE DEF t
    <2>2. SumOf(t(m + 1)) = SumOf(t(m)) + t(m + 1)[m + 1]
      BY <2>1, SumStep
    <2> QED BY <2>1, <2>2, <1>2
  <1>3. \A m \in Nat : m \in Holds
    <2> HIDE DEF Holds
    <2> QED BY <1>1, <1>2, InductionFrom0
  <1>4. DOMAIN t(n) = 1..n /\ \A k \in 1..n : s[k] = t(n)[k]
    OBVIOUS
  <1> HIDE DEF t
  <1>5. SumOf(s) = SumOf(t(n))
    BY <1>4, SumSame
  <1> QED BY <1>3, <1>5

AreAdded(u, s, t, n) ==
  /\ DOMAIN s = 1..n /\ DOMAIN t = 1..n /\ DOMAIN u = 1..n
  /\ \A k \in 1..n : s[k] \in Int /\ t[k] \in Int /\ u[k] = s[k] + t[k]

(* The sum of an elementwise sum.                                          *)
LEMMA SumAdd ==
  ASSUME NEW n \in Nat, NEW s, NEW t, NEW u, AreAdded(u, s, t, n)
  PROVE  SumOf(u) = SumOf(s) + SumOf(t)
  <1> USE DEF AreAdded
  <1> DEFINE Cut(v, m) == [k \in 1..m |-> v[k]]
             Holds == { m \in Nat : m <= n => SumOf(Cut(u, m)) = SumOf(Cut(s, m)) + SumOf(Cut(t, m)) }
  <1>1. \A v, m : DOMAIN Cut(v, m) = 1..m /\ \A k \in 1..m : Cut(v, m)[k] = v[k]
    OBVIOUS
  <1>2. ASSUME NEW v, NEW m \in Nat PROVE SumOf(Cut(v, m + 1)) = SumOf(Cut(v, m)) + v[m + 1]
    <2>1. m + 1 \in 1..m + 1 /\ \A k \in 1..m : k \in 1..m + 1
      OBVIOUS
    <2> HIDE DEF Cut
    <2>2. \A k \in 1..m : Cut(v, m)[k] = Cut(v, m + 1)[k]
      BY <2>1, <1>1
    <2>3. SumOf(Cut(v, m + 1)) = SumOf(Cut(v, m)) + Cut(v, m + 1)[m + 1]
      BY <2>2, <1>1, SumStep
    <2> QED BY <2>1, <2>3, <1>1
  <1>3. ASSUME NEW v, DOMAIN v = 1..n PROVE SumOf(Cut(v, n)) = SumOf(v)
    <2> HIDE DEF Cut
    <2> QED BY <1>1, <1>3, SumSame
  <1>4. ASSUME NEW m \in Nat, m <= n PROVE SumOf(Cut(s, m)) \in Int /\ SumOf(Cut(t, m)) \in Int
    <2>1. \A k \in 1..m : k \in 1..n
      BY <1>4
    <2>2. /\ \A k \in 1..m : Cut(s, m)[k] \in Int
          /\ \A k \in 1..m : Cut(t, m)[k] \in Int
      BY <2>1
    <2> HIDE DEF Cut
    <2> QED BY <2>2, <1>1, SumInt
  <1>5. 0 \in Holds
    <2>1. \A v : Cut(v, 0) = << >>
      OBVIOUS
    <2> HIDE DEF Cut
    <2> QED BY <2>1, SumEmpty
  <1> HIDE DEF Cut
  <1>6. ASSUME NEW m \in Nat, m \in Holds PROVE m + 1 \in Holds
    <2> SUFFICES ASSUME m + 1 <= n
                 PROVE  SumOf(Cut(u, m + 1)) = SumOf(Cut(s, m + 1)) + SumOf(Cut(t, m + 1))
      OBVIOUS
    <2>1. m <= n /\ m + 1 \in 1..n /\ SumOf(Cut(u, m)) = SumOf(Cut(s, m)) + SumOf(Cut(t, m))
      BY <1>6
    <2>2. /\ SumOf(Cut(u, m + 1)) = SumOf(Cut(u, m)) + u[m + 1]
          /\ SumOf(Cut(s, m + 1)) = SumOf(Cut(s, m)) + s[m + 1]
          /\ SumOf(Cut(t, m + 1)) = SumOf(Cut(t, m)) + t[m + 1]
      BY <1>2
    <2>3. SumOf(Cut(s, m)) \in Int /\ SumOf(Cut(t, m)) \in Int
      BY <2>1, <1>4
    <2>4. s[m + 1] \in Int /\ t[m + 1] \in Int /\ u[m + 1] = s[m + 1] + t[m + 1]
      BY <2>1
    <2> QED BY <2>1, <2>2, <2>3, <2>4
  <1>7. n \in Holds
    <2> HIDE DEF Holds
    <2> QED BY <1>5, <1>6, InductionFrom0
  <1> QED BY <1>3, <1>7

(* All but one of the summands are zero.                                   *)
LEMMA SumOnly ==
  ASSUME NEW n \in Nat, NEW s, DOMAIN s = 1..n, NEW j \in 1..n, s[j] \in Int,
         \A k \in 1..n : k # j => s[k] = 0
  PROVE  SumOf(s) = s[j]
  <1> DEFINE cut == [k \in 1..j - 1 |-> s[k]]
             to  == [k \in 1..j |-> s[k]]
             t(m) == [k \in 1..j + m |-> s[k]]
             Holds == { m \in Nat : j + m <= n => SumOf(t(m)) = s[j] }
  <1>1. 0 \in Holds
    <2>1. j - 1 \in Nat /\ j - 1 + 1 = j /\ t(0) = to
      OBVIOUS
    <2>2. DOMAIN to = 1..j /\ DOMAIN cut = 1..j - 1 /\ to[j] = s[j]
          /\ (\A k \in 1..j - 1 : cut[k] = to[k]) /\ \A k \in 1..j - 1 : cut[k] = 0
      OBVIOUS
    <2> HIDE DEF cut, to, t
    <2>3. SumOf(to) = SumOf(cut) + to[j - 1 + 1]
      BY <2>1, <2>2, SumStep
    <2>4. SumOf(cut) = 0
      BY <2>1, <2>2, SumZeros
    <2> QED BY <2>1, <2>2, <2>3, <2>4
  <1>2. ASSUME NEW m \in Nat, m \in Holds PROVE m + 1 \in Holds
    <2> SUFFICES ASSUME j + (m + 1) <= n PROVE SumOf(t(m + 1)) = s[j]
      OBVIOUS
    <2>1. /\ j + m \in Nat /\ DOMAIN t(m + 1) = 1..j + m + 1 /\ DOMAIN t(m) = 1..j + m
          /\ \A k \in 1..j + m : t(m)[k] = t(m + 1)[k]
          /\ t(m + 1)[j + m + 1] = s[j + m + 1]
      OBVIOUS
    <2>2. s[j + m + 1] = 0
      OBVIOUS
    <2> HIDE DEF t
    <2>3. SumOf(t(m + 1)) = SumOf(t(m)) + t(m + 1)[j + m + 1]
      BY <2>1, SumStep
    <2>4. SumOf(t(m)) = s[j]
      BY <1>2
    <2> QED BY <2>1, <2>2, <2>3, <2>4
  <1>3. \A m \in Nat : m \in Holds
    <2> HIDE DEF Holds
    <2> QED BY <1>1, <1>2, InductionFrom0
  <1>4. n - j \in Nat /\ j + (n - j) = n
    OBVIOUS
  <1>5. DOMAIN t(n - j) = 1..n /\ \A k \in 1..n : t(n - j)[k] = s[k]
    OBVIOUS
  <1> HIDE DEF t
  <1>6. SumOf(t(n - j)) = SumOf(s)
    BY <1>5, SumSame
  <1>7. SumOf(t(n - j)) = s[j]
    BY <1>3, <1>4
  <1> QED BY <1>6, <1>7

(* The rows of a table and its columns have the same sum.                  *)
RowSum(x, i, n) == SumOf([j \in 1..n |-> x[i][j]])
ColumnSum(x, j, m) == SumOf([i \in 1..m |-> x[i][j]])

(* A sum of sums, by rows and by columns.                                  *)
LEMMA SumExchange ==
  ASSUME NEW m \in Nat, NEW n \in Nat, NEW x, \A i \in 1..m : \A j \in 1..n : x[i][j] \in Int
  PROVE  SumOf([i \in 1..m |-> RowSum(x, i, n)]) = SumOf([j \in 1..n |-> ColumnSum(x, j, m)])
  <1> DEFINE Rows(k) == [i \in 1..k |-> RowSum(x, i, n)]
             Columns(k) == [j \in 1..n |-> ColumnSum(x, j, k)]
             Holds == { k \in Nat : k <= m => SumOf(Rows(k)) = SumOf(Columns(k)) }
  <1>1. 0 \in Holds
    <2>1. Rows(0) = << >>
      OBVIOUS
    <2>2. \A j : [i \in 1..0 |-> x[i][j]] = << >>
      OBVIOUS
    <2>3. DOMAIN Columns(0) = 1..n /\ \A j \in 1..n : Columns(0)[j] = 0
      BY <2>2, SumEmpty DEF ColumnSum
    <2> HIDE DEF Rows, Columns
    <2>4. SumOf(Columns(0)) = 0
      BY <2>3, SumZeros
    <2> QED BY <2>1, <2>4, SumEmpty
  <1>2. ASSUME NEW k \in Nat, k \in Holds PROVE k + 1 \in Holds
    <2> SUFFICES ASSUME k + 1 <= m PROVE SumOf(Rows(k + 1)) = SumOf(Columns(k + 1))
      OBVIOUS
    <2> DEFINE row == [j \in 1..n |-> x[k + 1][j]]
    <2>1. k + 1 \in 1..m /\ \A i \in 1..k + 1 : i \in 1..m
      OBVIOUS
    <2>2. ASSUME NEW j \in 1..n
          PROVE  ColumnSum(x, j, k + 1) = ColumnSum(x, j, k) + row[j] /\ ColumnSum(x, j, k) \in Int
      <3> DEFINE s == [i \in 1..k + 1 |-> x[i][j]]
                 t == [i \in 1..k |-> x[i][j]]
      <3>1. DOMAIN s = 1..k + 1 /\ DOMAIN t = 1..k /\ (\A i \in 1..k : t[i] = s[i] /\ t[i] \in Int)
            /\ s[k + 1] = row[j]
        BY <2>1
      <3> HIDE DEF s, t, row
      <3>2. SumOf(s) = SumOf(t) + s[k + 1]
        BY <3>1, SumStep
      <3>3. SumOf(t) \in Int
        BY <3>1, SumInt
      <3> QED BY <3>1, <3>2, <3>3 DEF ColumnSum, s, t
    <2>3. /\ DOMAIN Columns(k + 1) = 1..n /\ DOMAIN Columns(k) = 1..n /\ DOMAIN row = 1..n
          /\ \A j \in 1..n : Columns(k)[j] \in Int /\ row[j] \in Int
                             /\ Columns(k + 1)[j] = Columns(k)[j] + row[j]
      BY <2>1, <2>2
    <2>4. /\ DOMAIN Rows(k + 1) = 1..k + 1 /\ DOMAIN Rows(k) = 1..k
          /\ \A i \in 1..k : Rows(k)[i] = Rows(k + 1)[i]
          /\ Rows(k + 1)[k + 1] = SumOf(row)
      <3>1. RowSum(x, k + 1, n) = SumOf(row)
        BY DEF RowSum
      <3>2. k + 1 \in 1..k + 1 /\ \A i \in 1..k : i \in 1..k + 1
        OBVIOUS
      <3> HIDE DEF row
      <3>3. /\ DOMAIN Rows(k + 1) = 1..k + 1 /\ DOMAIN Rows(k) = 1..k
            /\ \A i \in 1..k : Rows(k)[i] = Rows(k + 1)[i]
        BY <3>2
      <3>4. Rows(k + 1)[k + 1] = RowSum(x, k + 1, n)
        BY <3>2
      <3> QED BY <3>1, <3>3, <3>4
    <2> HIDE DEF Rows, Columns, row
    <2>5. SumOf(Columns(k + 1)) = SumOf(Columns(k)) + SumOf(row)
      <3>1. AreAdded(Columns(k + 1), Columns(k), row, n)
        BY <2>3, Zenon DEF AreAdded
      <3> QED BY <3>1, SumAdd
    <2>6. SumOf(Rows(k + 1)) = SumOf(Rows(k)) + Rows(k + 1)[k + 1]
      BY <2>4, SumStep
    <2>7. SumOf(Rows(k)) = SumOf(Columns(k))
      BY <1>2
    <2> QED BY <2>4, <2>5, <2>6, <2>7
  <1>3. m \in Holds
    <2> HIDE DEF Holds
    <2> QED BY <1>1, <1>2, InductionFrom0
  <1> QED BY <1>3
=============================================================================
