---------------------------- MODULE StdHeap_proofs ----------------------------
(***************************************************************************)
(* What push_heap and pop_heap do with a sequence of any length: they      *)
(* permute it, and they make a heap of it when it was one but for its last *)
(* element.  Both are recursive in the place of the hole, so these are     *)
(* proofs by induction on it (see Induction).                              *)
(***************************************************************************)
EXTENDS StdHeap, Integers, Sequences, Induction

(* What is asked of a comparison on the elements S.                        *)
WeakOrder(S) ==
  /\ \A a, b \in S : Less(a, b) => ~Less(b, a)
  /\ \A a, b, c \in S : ~Less(a, b) /\ ~Less(b, c) => ~Less(a, c)

LEMMA HalfIsLess ==
  ASSUME NEW n \in Nat, n > 1
  PROVE  n \div 2 \in 1..n - 1 /\ (2 * (n \div 2) = n \/ 2 * (n \div 2) + 1 = n)
  OBVIOUS

LEMMA HalfOfDouble ==
  ASSUME NEW n \in Nat
  PROVE  (2 * n) \div 2 = n /\ (2 * n + 1) \div 2 = n
  OBVIOUS

LEMMA RisenDef ==
  ASSUME NEW S, NEW h \in Seq(S), NEW v
  PROVE  Risen(h, v) =
           [hole \in DOMAIN h |->
              IF hole = 1 \/ ~Less(h[hole \div 2], v)
              THEN [h EXCEPT ![hole] = v]
              ELSE [Risen(h, v)[hole \div 2] EXCEPT ![hole] = h[hole \div 2]]]
  <1> DEFINE Body(g, hole) ==
               IF hole = 1 \/ ~Less(h[hole \div 2], v)
               THEN [h EXCEPT ![hole] = v]
               ELSE [g[hole \div 2] EXCEPT ![hole] = h[hole \div 2]]
             Holds == { m \in Nat : \E g : g = [hole \in 1..m |-> Body(g, hole)] }
  <1>1. \A f, g, hole : hole = 1 \/ f[hole \div 2] = g[hole \div 2] => Body(f, hole) = Body(g, hole)
    OBVIOUS
  <1> HIDE DEF Body
  <1>2. 0 \in Holds
    <2>1. [hole \in 1..0 |-> 0] = [hole \in 1..0 |-> Body([i \in 1..0 |-> 0], hole)]
      OBVIOUS
    <2> QED BY <2>1
  <1>3. ASSUME NEW m \in Nat, m \in Holds PROVE m + 1 \in Holds
    <2>1. PICK g : g = [hole \in 1..m |-> Body(g, hole)]
      BY <1>3
    <2> DEFINE next == [hole \in 1..m + 1 |-> IF hole <= m THEN g[hole] ELSE Body(g, hole)]
    <2>2. ASSUME NEW hole \in 1..m + 1 PROVE next[hole] = Body(next, hole)
      <3>1. next[hole] = Body(g, hole)
        BY <2>1
      <3>2. CASE hole = 1
        BY <3>1, <3>2, <1>1
      <3>3. CASE hole > 1
        <4>1. hole \div 2 \in 1..m
          BY <3>3, HalfIsLess
        <4>2. next[hole \div 2] = g[hole \div 2]
          BY <4>1
        <4> QED BY <4>2, <3>1, <1>1
      <3> QED BY <3>2, <3>3
    <2>3. next = [hole \in 1..m + 1 |-> next[hole]]
      OBVIOUS
    <2> HIDE DEF next
    <2>4. next = [hole \in 1..m + 1 |-> Body(next, hole)]
      BY <2>2, <2>3
    <2> QED BY <2>4
  <1>4. Len(h) \in Holds
    <2> HIDE DEF Holds
    <2> QED BY <1>2, <1>3, InductionFrom0
  <1>5. \E g : g = [hole \in DOMAIN h |-> Body(g, hole)]
    BY <1>4
  <1>6. Risen(h, v) = CHOOSE g : g = [hole \in DOMAIN h |-> Body(g, hole)]
    BY DEF Risen, Body
  <1>7. Risen(h, v) = [hole \in DOMAIN h |-> Body(Risen(h, v), hole)]
    BY <1>5, <1>6
  <1> QED BY <1>7 DEF Body

(* The greater child is a child, and no child is greater.                  *)
LEMMA GreaterChildIs ==
  ASSUME NEW S, WeakOrder(S), NEW h \in Seq(S), NEW i \in DOMAIN h, 2 * i \in DOMAIN h
  PROVE  /\ GreaterChild(h, i) \in DOMAIN h
         /\ GreaterChild(h, i) \div 2 = i
         /\ GreaterChild(h, i) > i
         /\ \A k \in DOMAIN h : k > 1 /\ k \div 2 = i => ~Less(h[GreaterChild(h, i)], h[k])
  <1>0. i \in Nat /\ i > 0
    OBVIOUS
  <1>1. (2 * i) \div 2 = i /\ (2 * i + 1) \div 2 = i
    BY <1>0, HalfOfDouble
  <1>2. /\ GreaterChild(h, i) \in DOMAIN h
        /\ GreaterChild(h, i) = 2 * i \/ GreaterChild(h, i) = 2 * i + 1
    BY DEF GreaterChild
  <1>3. ASSUME NEW k \in DOMAIN h, k > 1, k \div 2 = i PROVE ~Less(h[GreaterChild(h, i)], h[k])
    <2>0. k \in Nat
      OBVIOUS
    <2>1. k = 2 * i \/ k = 2 * i + 1
      BY <2>0, <1>3, HalfIsLess
    <2>2. \A a, b \in S : Less(a, b) => ~Less(b, a)
      BY DEF WeakOrder
    <2>3. \A k_1 \in DOMAIN h : h[k_1] \in S
      OBVIOUS
    <2>4. ~Less(h[k], h[k])
      BY <2>2, <2>3
    <2>5. CASE 2 * i + 1 \notin DOMAIN h
      BY <2>1, <2>4, <2>5 DEF GreaterChild
    <2>6. CASE 2 * i + 1 \in DOMAIN h /\ Less(h[2 * i + 1], h[2 * i])
      BY <2>1, <2>2, <2>3, <2>4, <2>6 DEF GreaterChild
    <2>7. CASE 2 * i + 1 \in DOMAIN h /\ ~Less(h[2 * i + 1], h[2 * i])
      <3>1. GreaterChild(h, i) = 2 * i + 1
        BY <2>7 DEF GreaterChild
      <3> QED BY <3>1, <2>1, <2>4, <2>7
    <2> QED BY <2>5, <2>6, <2>7
  <1>4. GreaterChild(h, i) \div 2 = i
    BY <1>1, <1>2
  <1>5. GreaterChild(h, i) > i
    BY <1>0, <1>2
  <1> QED BY <1>2, <1>3, <1>4, <1>5

LEMMA SunkDef ==
  ASSUME NEW S, WeakOrder(S), NEW h \in Seq(S)
  PROVE  Sunk(h) =
           [hole \in DOMAIN h |->
              IF 2 * hole \notin DOMAIN h
              THEN [heap |-> h, hole |-> hole]
              ELSE [heap |-> [Sunk(h)[GreaterChild(h, hole)].heap EXCEPT
                                ![hole] = h[GreaterChild(h, hole)]],
                    hole |-> Sunk(h)[GreaterChild(h, hole)].hole]]
  <1> DEFINE n == Len(h)
             Child(hole) == GreaterChild(h, hole)
             Body(g, hole) ==
               IF 2 * hole \notin DOMAIN h
               THEN [heap |-> h, hole |-> hole]
               ELSE [heap |-> [g[Child(hole)].heap EXCEPT ![hole] = h[Child(hole)]],
                     hole |-> g[Child(hole)].hole]
             Holds == { m \in Nat : \E g : g = [hole \in n - m + 1..n |-> Body(g, hole)] }
  <1>1. \A f, g, hole : 2 * hole \notin DOMAIN h \/ f[Child(hole)] = g[Child(hole)]
                          => Body(f, hole) = Body(g, hole)
    OBVIOUS
  <1>2. \A hole \in 1..n : 2 * hole \in DOMAIN h => Child(hole) \in 1..n /\ Child(hole) > hole
    BY GreaterChildIs
  <1>3. n \in Nat /\ DOMAIN h = 1..n
    OBVIOUS
  <1>4. Sunk(h) = CHOOSE g : g = [hole \in DOMAIN h |-> Body(g, hole)]
    BY DEF Sunk
  <1> HIDE DEF Body, Child, n
  <1>5. 0 \in Holds
    <2>1. n - 0 + 1..n = {}
      BY <1>3
    <2>2. [hole \in n - 0 + 1..n |-> 0]
             = [hole \in n - 0 + 1..n |-> Body([i \in n - 0 + 1..n |-> 0], hole)]
      BY <2>1
    <2> QED BY <2>2
  <1>6. ASSUME NEW m \in Nat, m \in Holds, m < n PROVE m + 1 \in Holds
    <2>1. PICK g : g = [hole \in n - m + 1..n |-> Body(g, hole)]
      BY <1>6
    <2> DEFINE lo == n - (m + 1) + 1
               next == [hole \in lo..n |-> IF hole > lo THEN g[hole] ELSE Body(g, hole)]
    <2>2. lo \in 1..n /\ n - m + 1 = lo + 1
      BY <1>3, <1>6
    <2> HIDE DEF lo
    <2>3. ASSUME NEW hole \in lo..n PROVE next[hole] = Body(next, hole)
      <3>1. next[hole] = Body(g, hole)
        <4>1. CASE hole > lo
          <5>1. hole \in n - m + 1..n
            BY <4>1, <2>2, <1>3
          <5> QED BY <5>1, <4>1, <2>1
        <4>2. CASE ~(hole > lo)
          BY <4>2
        <4> QED BY <4>1, <4>2
      <3>2. CASE 2 * hole \notin DOMAIN h
        BY <3>1, <3>2, <1>1
      <3>3. CASE 2 * hole \in DOMAIN h
        <4>1. hole \in 1..n
          BY <2>2, <1>3
        <4>2. Child(hole) \in lo + 1..n
          BY <4>1, <3>3, <1>2, <2>2, <1>3
        <4>3. next[Child(hole)] = g[Child(hole)]
          BY <4>2, <2>2, <1>3
        <4> QED BY <4>3, <3>1, <1>1, ZenonT(30)
      <3> QED BY <3>2, <3>3
    <2>4. next = [hole \in lo..n |-> next[hole]]
      OBVIOUS
    <2> HIDE DEF next
    <2>5. next = [hole \in lo..n |-> Body(next, hole)]
      BY <2>3, <2>4
    <2> QED BY <2>5 DEF lo
  <1>7. n \in Holds
    <2> DEFINE Upto == { m \in Nat : m <= n => m \in Holds }
    <2>1. 0 \in Upto
      BY <1>5
    <2> HIDE DEF Holds
    <2>2. ASSUME NEW m \in Nat, m \in Upto PROVE m + 1 \in Upto
      BY <2>2, <1>6, <1>3
    <2> HIDE DEF Upto
    <2>3. n \in Upto
      BY <2>1, <2>2, <1>3, InductionFrom0
    <2> QED BY <2>3, <1>3 DEF Upto
  <1>8. n - n + 1..n = DOMAIN h
    BY <1>3
  <1>9. \E g : g = [hole \in DOMAIN h |-> Body(g, hole)]
    BY <1>7, <1>8
  <1>10. Sunk(h) = [hole \in DOMAIN h |-> Body(Sunk(h), hole)]
    BY <1>4, <1>9
  <1> QED BY <1>10 DEF Body, Child

(* Exchanging two values of a permutation leaves it one.                   *)
LEMMA Exchange ==
  ASSUME NEW n \in Nat, NEW p \in Places(n), NEW a \in 1..n, NEW b \in 1..n
  PROVE  [k \in 1..n |-> IF p[k] = a THEN b ELSE IF p[k] = b THEN a ELSE p[k]] \in Places(n)
  <1> DEFINE q == [k \in 1..n |-> IF p[k] = a THEN b ELSE IF p[k] = b THEN a ELSE p[k]]
  <1>1. /\ p \in [1..n -> 1..n]
        /\ \A i, j \in 1..n : p[i] = p[j] => i = j
        /\ \A j \in 1..n : \E i \in 1..n : p[i] = j
    BY DEF Places
  <1>2. q \in [1..n -> 1..n]
    BY <1>1
  <1>3. ASSUME NEW i \in 1..n, NEW j \in 1..n, q[i] = q[j] PROVE i = j
    <2>1. p[i] = p[j]
      BY <1>3, <1>1
    <2> QED BY <2>1, <1>1
  <1>4. ASSUME NEW j \in 1..n PROVE \E i \in 1..n : q[i] = j
    <2>1. PICK i \in 1..n : p[i] = IF j = a THEN b ELSE IF j = b THEN a ELSE j
      BY <1>1
    <2>2. q[i] = j
      BY <2>1
    <2> QED BY <2>2
  <1> QED BY <1>2, <1>3, <1>4 DEF Places

LEMMA Unmoved ==
  ASSUME NEW n \in Nat
  PROVE  [k \in 1..n |-> k] \in Places(n)
  BY DEF Places

(* g has the elements of h, each at the place where p says it comes from.  *)
Rearranges(p, h, g) ==
  p \in Places(Len(h)) /\ Len(g) = Len(h) /\ \A k \in 1..Len(h) : g[k] = h[p[k]]

(* Rising moves v and the hole's ancestors among their places.             *)
RisenBy(p, h, v, hole) ==
  /\ p \in Places(Len(h))
  /\ \A k \in DOMAIN h : k > hole => p[k] = k
  /\ \A k \in DOMAIN h : Risen(h, v)[hole][k] = [h EXCEPT ![hole] = v][p[k]]

LEMMA RisenPermutes ==
  ASSUME NEW S, NEW h \in Seq(S), NEW v \in S, NEW hole \in DOMAIN h
  PROVE  /\ Risen(h, v)[hole] \in [DOMAIN h -> S]
         /\ \A k \in DOMAIN h : k > hole => Risen(h, v)[hole][k] = h[k]
         /\ \E p : RisenBy(p, h, v, hole)
  <1> DEFINE n == Len(h)
             r(m) == Risen(h, v)[m]
             Moved(m) == [h EXCEPT ![m] = v]
             Claim(m) == /\ r(m) \in [1..n -> S]
                         /\ \A k \in 1..n : k > m => r(m)[k] = h[k]
                         /\ \E p \in Places(n) :
                              /\ \A k \in 1..n : k > m => p[k] = k
                              /\ \A k \in 1..n : r(m)[k] = Moved(m)[p[k]]
             Holds == { m \in Nat : m \in 1..n => Claim(m) }
  <1>1. n \in Nat /\ DOMAIN h = 1..n /\ \A k \in 1..n : h[k] \in S
    OBVIOUS
  <1>2. \A m \in 1..n : r(m) = IF m = 1 \/ ~Less(h[m \div 2], v)
                               THEN Moved(m)
                               ELSE [r(m \div 2) EXCEPT ![m] = h[m \div 2]]
    <2>1. Risen(h, v) =
            [m \in DOMAIN h |->
               IF m = 1 \/ ~Less(h[m \div 2], v)
               THEN [h EXCEPT ![m] = v]
               ELSE [Risen(h, v)[m \div 2] EXCEPT ![m] = h[m \div 2]]]
      BY RisenDef
    <2> QED BY <2>1, <1>1
  <1>3. \A m \in 1..n : /\ Moved(m) \in [1..n -> S]
                        /\ Moved(m)[m] = v
                        /\ \A k \in 1..n : k # m => Moved(m)[k] = h[k]
    BY <1>1
  <1> HIDE DEF n, r, Moved
  <1>4. ASSUME NEW m \in Nat, \A l \in 0..m - 1 : l \in Holds, m \in 1..n PROVE Claim(m)
    <2>1. CASE m = 1 \/ ~Less(h[m \div 2], v)
      <3> DEFINE p == [k \in 1..n |-> k]
      <3>1. r(m) = Moved(m)
        BY <2>1, <1>2, <1>4
      <3>2. p \in Places(n)
        BY <1>1, Unmoved
      <3>3. \A k \in 1..n : p[k] = k
        OBVIOUS
      <3> HIDE DEF p
      <3>4. \A k \in 1..n : k > m => r(m)[k] = h[k]
        BY <3>1, <1>3, <1>4, <1>1
      <3> QED BY <3>1, <3>2, <3>3, <3>4, <1>3, <1>4
    <2>2. CASE m > 1 /\ Less(h[m \div 2], v)
      <3> DEFINE q == m \div 2
      <3>1. q \in 1..m - 1
        BY <2>2, HalfIsLess
      <3>2. r(m) = [r(q) EXCEPT ![m] = h[q]]
        BY <2>2, <1>2, <1>4
      <3> HIDE DEF q
      <3>3. q \in 1..n /\ q \in 0..m - 1 /\ q < m /\ m \in 1..n /\ q # m
        BY <3>1, <1>1, <1>4
      <3>4. Claim(q)
        BY <3>3, <1>4
      <3>5. PICK p \in Places(n) : /\ \A k \in 1..n : k > q => p[k] = k
                                   /\ \A k \in 1..n : r(q)[k] = Moved(q)[p[k]]
        BY <3>4
      <3> DEFINE s == [k \in 1..n |-> IF p[k] = m THEN q ELSE IF p[k] = q THEN m ELSE p[k]]
      <3>6. s \in Places(n)
        BY <3>3, <1>1, Exchange
      <3>7. p \in [1..n -> 1..n] /\ \A i, j \in 1..n : p[i] = p[j] => i = j
        BY DEF Places
      <3>8. p[m] = m
        BY <3>3, <3>5
      <3>9. \A k \in 1..n : k > m => s[k] = k
        BY <3>3, <3>5
      <3>10. ASSUME NEW k \in 1..n PROVE r(m)[k] = Moved(m)[s[k]]
        <4>1. CASE k = m
          <5>1. r(m)[k] = h[q]
            BY <4>1, <3>2, <3>4
          <5>2. s[k] = q
            BY <4>1, <3>8
          <5> QED BY <5>1, <5>2, <3>3, <1>3
        <4>2. CASE k # m /\ p[k] = q
          <5>1. r(m)[k] = r(q)[k] /\ r(q)[k] = v
            BY <4>2, <3>2, <3>3, <3>4, <3>5, <1>3
          <5>2. s[k] = m
            BY <4>2, <3>3
          <5> QED BY <5>1, <5>2, <3>3, <1>3
        <4>3. CASE k # m /\ p[k] # q
          <5>1. p[k] # m /\ p[k] \in 1..n
            BY <4>3, <3>7, <3>8, <3>3
          <5>2. r(m)[k] = h[p[k]]
            BY <4>3, <5>1, <3>2, <3>3, <3>4, <3>5, <1>3
          <5>3. s[k] = p[k]
            BY <4>3, <5>1
          <5> QED BY <5>1, <5>2, <5>3, <3>3, <1>3
        <4> QED BY <4>1, <4>2, <4>3
      <3>11. r(m) \in [1..n -> S]
        BY <3>2, <3>3, <3>4, <1>1
      <3>12. \A k \in 1..n : k > m => r(m)[k] = h[k]
        BY <3>2, <3>3, <3>4
      <3> HIDE DEF s
      <3> QED BY <3>6, <3>9, <3>10, <3>11, <3>12
    <2> QED BY <2>1, <2>2, <1>4
  <1> HIDE DEF Claim
  <1>5. \A m \in Nat : (\A l \in 0..m - 1 : l \in Holds) => m \in Holds
    BY <1>4
  <1> HIDE DEF Holds
  <1>6. hole \in Holds /\ hole \in 1..n
    BY <1>1, <1>5, CourseOfValues
  <1>7. Claim(hole)
    BY <1>6 DEF Holds
  <1>8. PICK p \in Places(n) : /\ \A k \in 1..n : k > hole => p[k] = k
                               /\ \A k \in 1..n : r(hole)[k] = Moved(hole)[p[k]]
    BY <1>7 DEF Claim
  <1>9. RisenBy(p, h, v, hole)
    BY <1>8, <1>1 DEF RisenBy, n, r, Moved
  <1> QED BY <1>7, <1>9, <1>1 DEF Claim, n, r

(* No element but perhaps the one at a leaf is greater than its parent.    *)
HeapBut(h, leaf) ==
  /\ leaf \in DOMAIN h /\ 2 * leaf \notin DOMAIN h
  /\ \A k \in DOMAIN h : k > 1 /\ k # leaf => ~Less(h[k \div 2], h[k])

(* Above the leaf, where v is greater than what it replaces, rising keeps  *)
(* a heap and makes no element smaller.                                    *)
LEMMA RisenAbove ==
  ASSUME NEW S, WeakOrder(S), NEW h \in Seq(S), NEW v \in S, NEW leaf, HeapBut(h, leaf),
         NEW hole \in DOMAIN h, hole # leaf, Less(h[hole], v)
  PROVE  /\ HeapBut(Risen(h, v)[hole], leaf)
         /\ \A k \in DOMAIN h : ~Less(Risen(h, v)[hole][k], h[k])
  <1> DEFINE n == Len(h)
             r(m) == Risen(h, v)[m]
             Claim(m) == HeapBut(r(m), leaf) /\ \A k \in 1..n : ~Less(r(m)[k], h[k])
             Holds == { m \in Nat : m \in 1..n /\ m # leaf /\ Less(h[m], v) => Claim(m) }
  <1>1. n \in Nat /\ DOMAIN h = 1..n /\ \A k \in 1..n : h[k] \in S
    OBVIOUS
  <1>2. \A m \in 1..n : r(m) = IF m = 1 \/ ~Less(h[m \div 2], v)
                               THEN [h EXCEPT ![m] = v]
                               ELSE [r(m \div 2) EXCEPT ![m] = h[m \div 2]]
    <2>1. Risen(h, v) =
            [m \in DOMAIN h |->
               IF m = 1 \/ ~Less(h[m \div 2], v)
               THEN [h EXCEPT ![m] = v]
               ELSE [Risen(h, v)[m \div 2] EXCEPT ![m] = h[m \div 2]]]
      BY RisenDef
    <2> QED BY <2>1, <1>1
  <1>3. \A m \in 1..n : r(m) \in [1..n -> S] /\ \A k \in 1..n : k > m => r(m)[k] = h[k]
    BY <1>1, RisenPermutes
  <1>4. \A a, b \in S : Less(a, b) => ~Less(b, a)
    BY DEF WeakOrder
  <1>5. \A a, b, c \in S : ~Less(a, b) /\ ~Less(b, c) => ~Less(a, c)
    BY DEF WeakOrder
  <1>6. \A a \in S : ~Less(a, a)
    BY <1>4
  <1>7. /\ leaf \in 1..n /\ 2 * leaf > n
        /\ \A k \in 1..n : k > 1 /\ k # leaf => ~Less(h[k \div 2], h[k])
    <2>1. leaf \in 1..n /\ 2 * leaf \notin 1..n
      BY <1>1 DEF HeapBut
    <2>2. \A k \in 1..n : k > 1 /\ k # leaf => ~Less(h[k \div 2], h[k])
      BY <1>1 DEF HeapBut
    <2>3. 2 * leaf > n
      BY <2>1, <1>1
    <2> QED BY <2>1, <2>2, <2>3
  <1> HIDE DEF n, r
  <1>8. ASSUME NEW m \in Nat, \A l \in 0..m - 1 : l \in Holds,
               m \in 1..n, m # leaf, Less(h[m], v)
        PROVE  Claim(m)
    <2>1. DOMAIN r(m) = 1..n
      BY <1>3, <1>8
    <2>2. ASSUME NEW k \in 1..n, k > 1
          PROVE  k \div 2 \in 1..k - 1 /\ k \div 2 \in 1..n
      BY <2>2, <1>1, HalfIsLess
    <2>3. CASE m = 1 \/ ~Less(h[m \div 2], v)
      <3>1. r(m) = [h EXCEPT ![m] = v]
        BY <2>3, <1>2, <1>8
      <3>2. \A k \in 1..n : r(m)[k] = IF k = m THEN v ELSE h[k]
        BY <3>1, <1>1, <1>8
      <3>3. ASSUME NEW k \in 1..n PROVE ~Less(r(m)[k], h[k])
        BY <3>2, <1>1, <1>4, <1>6, <1>8
      <3>4. ASSUME NEW k \in 1..n, k > 1, k # leaf PROVE ~Less(r(m)[k \div 2], r(m)[k])
        <4>1. k \div 2 \in 1..n /\ k \div 2 # k /\ ~Less(h[k \div 2], h[k])
          BY <3>4, <2>2, <1>7
        <4>2. CASE k = m
          BY <4>1, <4>2, <3>2, <3>4, <2>3
        <4>3. CASE k \div 2 = m
          <5>1. ~Less(v, h[m]) /\ ~Less(h[m], h[k])
            BY <4>1, <4>3, <1>1, <1>4, <1>8
          <5>2. ~Less(v, h[k])
            BY <5>1, <1>1, <1>5, <1>8
          <5> QED BY <5>2, <4>1, <4>3, <3>2
        <4>4. CASE k # m /\ k \div 2 # m
          BY <4>1, <4>4, <3>2
        <4> QED BY <4>2, <4>3, <4>4
      <3> QED BY <3>3, <3>4, <2>1, <1>7, <1>1 DEF HeapBut
    <2>4. CASE m > 1 /\ Less(h[m \div 2], v)
      <3> DEFINE q == m \div 2
      <3>1. q \in 1..m - 1 /\ (2 * q = m \/ 2 * q + 1 = m)
        BY <2>4, HalfIsLess
      <3>2. r(m) = [r(q) EXCEPT ![m] = h[q]] /\ Less(h[q], v)
        BY <2>4, <1>2, <1>8
      <3>3. ~Less(h[q], h[m])
        BY <2>4, <1>7, <1>8
      <3> HIDE DEF q
      <3>4. q \in 1..n /\ q \in 0..m - 1 /\ q < m /\ q # m /\ q # leaf
        BY <3>1, <1>1, <1>7, <1>8
      <3>5. Claim(q)
        BY <3>2, <3>4, <1>8
      <3>6. \A k \in 1..n : r(m)[k] = IF k = m THEN h[q] ELSE r(q)[k]
        BY <3>2, <3>4, <1>3
      <3>7. \A k \in 1..n : r(q)[k] \in S /\ (k > q => r(q)[k] = h[k])
        BY <3>4, <1>3
      <3>8. ASSUME NEW k \in 1..n PROVE ~Less(r(m)[k], h[k])
        BY <3>3, <3>5, <3>6, <1>8
      <3>9. ASSUME NEW k \in 1..n, k > 1, k # leaf PROVE ~Less(r(m)[k \div 2], r(m)[k])
        <4>1. /\ k \div 2 \in 1..n /\ k \div 2 < k /\ k \div 2 # k
              /\ ~Less(h[k \div 2], h[k])
          BY <3>9, <2>2, <1>7
        <4>2. ~Less(r(q)[k \div 2], r(q)[k])
          BY <3>5, <3>9, <1>3, <3>4 DEF HeapBut
        <4>3. CASE k = m
          <5>1. r(m)[k] = h[q] /\ r(m)[k \div 2] = r(q)[q]
            BY <4>1, <4>3, <3>6 DEF q
          <5> QED BY <5>1, <3>5, <3>4
        <4>4. CASE k \div 2 = m
          <5>1. r(m)[k] = h[k] /\ r(m)[k \div 2] = h[q]
            BY <4>1, <4>4, <3>4, <3>6, <3>7
          <5>2. ~Less(h[q], h[m]) /\ ~Less(h[m], h[k])
            BY <4>1, <4>4, <3>3
          <5> QED BY <5>1, <5>2, <1>1, <1>5, <1>8, <3>4
        <4>5. CASE k # m /\ k \div 2 # m
          BY <4>1, <4>2, <4>5, <3>6
        <4> QED BY <4>3, <4>4, <4>5
      <3> QED BY <3>8, <3>9, <2>1, <1>7, <1>1 DEF HeapBut
    <2> QED BY <2>3, <2>4, <1>8
  <1> HIDE DEF Claim
  <1>9. \A m \in Nat : (\A l \in 0..m - 1 : l \in Holds) => m \in Holds
    BY <1>8
  <1> HIDE DEF Holds
  <1>10. hole \in Holds /\ hole \in 1..n
    BY <1>1, <1>9, CourseOfValues
  <1>11. Claim(hole)
    BY <1>10 DEF Holds
  <1> QED BY <1>11, <1>1 DEF Claim, n, r

(* A leaf that is filled by rising makes the sequence a heap.              *)
LEMMA RisenHeap ==
  ASSUME NEW S, WeakOrder(S), NEW h \in Seq(S), NEW v \in S, NEW leaf, HeapBut(h, leaf)
  PROVE  IsHeap(Rise(h, leaf, v))
  <1> DEFINE n == Len(h)
             r(m) == Risen(h, v)[m]
  <1>1. n \in Nat /\ DOMAIN h = 1..n /\ \A k \in 1..n : h[k] \in S
    OBVIOUS
  <1>2. leaf \in 1..n /\ 2 * leaf \notin 1..n
    BY <1>1 DEF HeapBut
  <1>3. \A k \in 1..n : k > 1 /\ k # leaf => ~Less(h[k \div 2], h[k])
    BY <1>1 DEF HeapBut
  <1>4. r(leaf) = IF leaf = 1 \/ ~Less(h[leaf \div 2], v)
                  THEN [h EXCEPT ![leaf] = v]
                  ELSE [r(leaf \div 2) EXCEPT ![leaf] = h[leaf \div 2]]
    <2>1. Risen(h, v) =
            [m \in DOMAIN h |->
               IF m = 1 \/ ~Less(h[m \div 2], v)
               THEN [h EXCEPT ![m] = v]
               ELSE [Risen(h, v)[m \div 2] EXCEPT ![m] = h[m \div 2]]]
      BY RisenDef
    <2> QED BY <2>1, <1>1, <1>2
  <1>5. r(leaf) \in [1..n -> S]
    BY <1>1, <1>2, RisenPermutes
  <1>6. r(leaf) \in Seq(S) /\ Len(r(leaf)) = n
    <2> HIDE DEF r
    <2> QED BY <1>1, <1>5
  <1>7. ASSUME NEW k \in 1..n, k > 1
        PROVE  k \div 2 \in 1..n /\ k \div 2 # leaf /\ k \div 2 # k
    <2>1. k \div 2 \in 1..k - 1 /\ (2 * (k \div 2) = k \/ 2 * (k \div 2) + 1 = k)
      BY <1>7, <1>1, HalfIsLess
    <2> QED BY <2>1, <1>1, <1>2
  <1>8. \A a \in S : ~Less(a, a)
    BY DEF WeakOrder
  <1>9. ASSUME NEW k \in 1..n, k > 1 PROVE ~Less(r(leaf)[k \div 2], r(leaf)[k])
    <2> HIDE DEF r, n
    <2>1. CASE leaf = 1 \/ ~Less(h[leaf \div 2], v)
      <3>1. r(leaf) = [h EXCEPT ![leaf] = v]
        BY <2>1, <1>4
      <3>2. \A l \in 1..n : r(leaf)[l] = IF l = leaf THEN v ELSE h[l]
        BY <3>1, <1>1, <1>2
      <3> QED BY <3>2, <2>1, <1>3, <1>7, <1>9
    <2>2. CASE leaf > 1 /\ Less(h[leaf \div 2], v)
      <3>1. leaf \div 2 \in 1..n /\ leaf \div 2 # leaf
        BY <2>2, <1>2, <1>7
      <3> DEFINE p == leaf \div 2
      <3>2. HeapBut(r(p), leaf) /\ \A l \in 1..n : ~Less(r(p)[l], h[l])
        BY <3>1, <2>2, <1>1, RisenAbove DEF r
      <3>3. r(p) \in [1..n -> S]
        BY <3>1, <1>1, RisenPermutes DEF r
      <3>4. r(leaf) = [r(p) EXCEPT ![leaf] = h[p]]
        BY <2>2, <1>4, <1>2, <1>1
      <3>5. \A l \in 1..n : r(leaf)[l] = IF l = leaf THEN h[p] ELSE r(p)[l]
        BY <3>3, <3>4, <1>2
      <3>6. CASE k = leaf
        <4>1. r(leaf)[k] = h[p] /\ r(leaf)[k \div 2] = r(p)[p]
          BY <3>1, <3>5, <3>6
        <4> QED BY <4>1, <3>1, <3>2
      <3>7. CASE k # leaf
        <4>1. ~Less(r(p)[k \div 2], r(p)[k])
          BY <3>2, <3>3, <3>7, <1>9 DEF HeapBut
        <4> QED BY <4>1, <3>5, <3>7, <1>7, <1>9
      <3> QED BY <3>6, <3>7
    <2> QED BY <2>1, <2>2, <1>2, <1>1
  <1> QED BY <1>6, <1>9, <1>1 DEF IsHeap, Rise

(* Sinking a hole moves the elements below it among their places: leaf is  *)
(* where the hole ends up, and the hole's own place is where it was.       *)
SunkBy(p, h, hole) ==
  /\ p \in Places(Len(h))
  /\ p[Sunk(h)[hole].hole] = hole
  /\ \A k \in DOMAIN h : k < hole => p[k] = k
  /\ \A k \in DOMAIN h : k # Sunk(h)[hole].hole => Sunk(h)[hole].heap[k] = h[p[k]]

LEMMA SunkPermutes ==
  ASSUME NEW S, WeakOrder(S), NEW h \in Seq(S), NEW hole \in DOMAIN h
  PROVE  /\ Sunk(h)[hole].heap \in [DOMAIN h -> S]
         /\ Sunk(h)[hole].hole \in DOMAIN h
         /\ Sunk(h)[hole].hole >= hole
         /\ 2 * Sunk(h)[hole].hole \notin DOMAIN h
         /\ \A k \in DOMAIN h : k < hole => Sunk(h)[hole].heap[k] = h[k]
         /\ \E p : SunkBy(p, h, hole)
  <1> DEFINE n == Len(h)
             g(m) == Sunk(h)[m].heap
             leaf(m) == Sunk(h)[m].hole
             child(m) == GreaterChild(h, m)
             Claim(m) == /\ g(m) \in [1..n -> S]
                         /\ leaf(m) \in 1..n /\ leaf(m) >= m /\ 2 * leaf(m) \notin 1..n
                         /\ \A k \in 1..n : k < m => g(m)[k] = h[k]
                         /\ \E p \in Places(n) :
                              /\ p[leaf(m)] = m
                              /\ \A k \in 1..n : k < m => p[k] = k
                              /\ \A k \in 1..n : k # leaf(m) => g(m)[k] = h[p[k]]
             Holds == { m \in 1..n : Claim(m) }
  <1>1. n \in Nat /\ DOMAIN h = 1..n /\ \A k \in 1..n : h[k] \in S
    OBVIOUS
  <1>2. \A m \in 1..n :
          IF 2 * m \notin 1..n
          THEN g(m) = h /\ leaf(m) = m
          ELSE g(m) = [g(child(m)) EXCEPT ![m] = h[child(m)]] /\ leaf(m) = leaf(child(m))
    <2>1. Sunk(h) =
            [m \in DOMAIN h |->
               IF 2 * m \notin DOMAIN h
               THEN [heap |-> h, hole |-> m]
               ELSE [heap |-> [Sunk(h)[GreaterChild(h, m)].heap EXCEPT
                                 ![m] = h[GreaterChild(h, m)]],
                     hole |-> Sunk(h)[GreaterChild(h, m)].hole]]
      BY SunkDef
    <2> SUFFICES ASSUME NEW m \in 1..n
                 PROVE  IF 2 * m \notin 1..n
                        THEN g(m) = h /\ leaf(m) = m
                        ELSE /\ g(m) = [g(child(m)) EXCEPT ![m] = h[child(m)]]
                             /\ leaf(m) = leaf(child(m))
      OBVIOUS
    <2> HIDE DEF child
    <2>2. Sunk(h)[m] = IF 2 * m \notin DOMAIN h
                       THEN [heap |-> h, hole |-> m]
                       ELSE [heap |-> [g(child(m)) EXCEPT ![m] = h[child(m)]],
                             hole |-> leaf(child(m))]
      BY <2>1, <1>1 DEF child
    <2> QED BY <2>2, <1>1
  <1>3. \A m \in 1..n : 2 * m \in 1..n => child(m) \in 1..n /\ child(m) > m
    BY <1>1, GreaterChildIs
  <1>4. h \in [1..n -> S]
    BY <1>1
  <1> HIDE DEF n, g, leaf, child
  <1>5. ASSUME NEW m \in 1..n, \A l \in m + 1..n : l \in Holds PROVE Claim(m)
    <2>1. CASE 2 * m \notin 1..n
      <3> DEFINE p == [k \in 1..n |-> k]
      <3>1. p \in Places(n) /\ \A k \in 1..n : p[k] = k
        BY <1>1, Unmoved
      <3> HIDE DEF p
      <3>2. g(m) = h /\ leaf(m) = m
        BY <2>1, <1>2
      <3> QED BY <3>1, <3>2, <2>1, <1>1, <1>4
    <2>2. CASE 2 * m \in 1..n
      <3> DEFINE c == child(m)
      <3>1. c \in 1..n /\ c > m
        BY <2>2, <1>3
      <3>2. g(m) = [g(c) EXCEPT ![m] = h[c]] /\ leaf(m) = leaf(c)
        BY <2>2, <1>2
      <3> HIDE DEF c
      <3>3. Claim(c)
        <4>1. c \in m + 1..n
          BY <3>1, <1>1
        <4> QED BY <4>1, <1>5
      <3>4. PICK p \in Places(n) : /\ p[leaf(c)] = c
                                   /\ \A k \in 1..n : k < c => p[k] = k
                                   /\ \A k \in 1..n : k # leaf(c) => g(c)[k] = h[p[k]]
        BY <3>3
      <3> DEFINE s == [k \in 1..n |-> IF p[k] = m THEN c ELSE IF p[k] = c THEN m ELSE p[k]]
      <3>5. s \in Places(n)
        BY <3>1, <1>1, Exchange
      <3>6. p \in [1..n -> 1..n] /\ \A i, j \in 1..n : p[i] = p[j] => i = j
        BY DEF Places
      <3>7. p[m] = m /\ m # c /\ leaf(c) # m
        BY <3>1, <3>3, <3>4
      <3>8. s[leaf(m)] = m
        BY <3>2, <3>3, <3>4, <3>7
      <3>9. \A k \in 1..n : k < m => s[k] = k
        BY <3>1, <3>4
      <3>10. ASSUME NEW k \in 1..n, k # leaf(m) PROVE g(m)[k] = h[s[k]]
        <4>1. CASE k = m
          <5>1. g(m)[k] = h[c] /\ s[k] = c
            BY <4>1, <3>2, <3>3, <3>7
          <5> QED BY <5>1
        <4>2. CASE k # m
          <5>1. p[k] # m /\ p[k] # c
            BY <4>2, <3>2, <3>3, <3>4, <3>6, <3>7, <3>10
          <5>2. s[k] = p[k] /\ g(m)[k] = g(c)[k]
            BY <5>1, <4>2, <3>2, <3>3
          <5> QED BY <5>2, <3>2, <3>4, <3>10
        <4> QED BY <4>1, <4>2
      <3>11. g(m) \in [1..n -> S]
        BY <3>1, <3>2, <3>3, <1>1
      <3>12. leaf(m) \in 1..n /\ leaf(m) >= m /\ 2 * leaf(m) \notin 1..n
        BY <3>1, <3>2, <3>3
      <3>13. \A k \in 1..n : k < m => g(m)[k] = h[k]
        BY <3>1, <3>2, <3>3
      <3> HIDE DEF s
      <3> QED BY <3>5, <3>8, <3>9, <3>10, <3>11, <3>12, <3>13
    <2> QED BY <2>1, <2>2
  <1> HIDE DEF Claim
  <1>6. \A m \in 1..n : (\A l \in m + 1..n : l \in Holds) => m \in Holds
    BY <1>5
  <1> HIDE DEF Holds
  <1>7. hole \in Holds
    BY <1>1, <1>6, InductionDown
  <1>8. Claim(hole)
    BY <1>7 DEF Holds
  <1>9. PICK p \in Places(n) : /\ p[leaf(hole)] = hole
                               /\ \A k \in 1..n : k < hole => p[k] = k
                               /\ \A k \in 1..n : k # leaf(hole) => g(hole)[k] = h[p[k]]
    BY <1>8 DEF Claim
  <1>10. SunkBy(p, h, hole)
    BY <1>9, <1>1 DEF SunkBy, n, g, leaf
  <1> QED BY <1>8, <1>10, <1>1 DEF Claim, n, g, leaf

(* Sinking a hole of a heap makes no element greater, and leaves a heap    *)
(* but for the leaf where the hole ends up.                                *)
LEMMA SunkHeap ==
  ASSUME NEW S, WeakOrder(S), NEW h \in Seq(S), IsHeap(h), NEW hole \in DOMAIN h
  PROVE  /\ HeapBut(Sunk(h)[hole].heap, Sunk(h)[hole].hole)
         /\ \A k \in DOMAIN h : ~Less(h[k], Sunk(h)[hole].heap[k])
  <1> DEFINE n == Len(h)
             g(m) == Sunk(h)[m].heap
             leaf(m) == Sunk(h)[m].hole
             child(m) == GreaterChild(h, m)
             Claim(m) == HeapBut(g(m), leaf(m)) /\ \A k \in 1..n : ~Less(h[k], g(m)[k])
             Holds == { m \in 1..n : Claim(m) }
  <1>1. n \in Nat /\ DOMAIN h = 1..n /\ \A k \in 1..n : h[k] \in S
    OBVIOUS
  <1>2. ASSUME NEW m \in 1..n
        PROVE  IF 2 * m \notin 1..n
               THEN g(m) = h /\ leaf(m) = m
               ELSE g(m) = [g(child(m)) EXCEPT ![m] = h[child(m)]] /\ leaf(m) = leaf(child(m))
    <2>1. Sunk(h) =
            [k \in DOMAIN h |->
               IF 2 * k \notin DOMAIN h
               THEN [heap |-> h, hole |-> k]
               ELSE [heap |-> [Sunk(h)[GreaterChild(h, k)].heap EXCEPT
                                 ![k] = h[GreaterChild(h, k)]],
                     hole |-> Sunk(h)[GreaterChild(h, k)].hole]]
      BY SunkDef
    <2> HIDE DEF child
    <2>2. Sunk(h)[m] = IF 2 * m \notin DOMAIN h
                       THEN [heap |-> h, hole |-> m]
                       ELSE [heap |-> [g(child(m)) EXCEPT ![m] = h[child(m)]],
                             hole |-> leaf(child(m))]
      BY <2>1, <1>1 DEF child
    <2> QED BY <2>2, <1>1
  <1>3. ASSUME NEW m \in 1..n, 2 * m \in 1..n
        PROVE  /\ child(m) \in 1..n /\ child(m) > m /\ child(m) \div 2 = m
               /\ \A k \in 1..n : k > 1 /\ k \div 2 = m => ~Less(h[child(m)], h[k])
    BY <1>1, <1>3, GreaterChildIs
  <1>4. ASSUME NEW m \in 1..n
        PROVE  /\ g(m) \in [1..n -> S]
               /\ leaf(m) \in 1..n /\ leaf(m) >= m /\ 2 * leaf(m) \notin 1..n
               /\ \A k \in 1..n : k < m => g(m)[k] = h[k]
    <2>1. m \in DOMAIN h
      BY <1>1
    <2>2. /\ Sunk(h)[m].heap \in [DOMAIN h -> S]
          /\ Sunk(h)[m].hole \in DOMAIN h
          /\ Sunk(h)[m].hole >= m
          /\ 2 * Sunk(h)[m].hole \notin DOMAIN h
      BY <2>1, SunkPermutes
    <2>3. \A k \in DOMAIN h : k < m => Sunk(h)[m].heap[k] = h[k]
      BY <2>1, SunkPermutes, SMTT(30)
    <2> QED BY <2>2, <2>3, <1>1
  <1>5. \A k \in 1..n : k > 1 => ~Less(h[k \div 2], h[k])
    BY <1>1 DEF IsHeap
  <1>6. /\ \A a \in S : ~Less(a, a)
        /\ \A a, b, c \in S : ~Less(a, b) /\ ~Less(b, c) => ~Less(a, c)
    BY DEF WeakOrder
  <1> HIDE DEF n, g, leaf, child
  <1>7. ASSUME NEW m \in 1..n, \A l \in m + 1..n : l \in Holds PROVE Claim(m)
    <2>1. CASE 2 * m \notin 1..n
      <3>1. g(m) = h /\ leaf(m) = m
        BY <2>1, <1>2
      <3> QED BY <3>1, <2>1, <1>1, <1>5, <1>6 DEF HeapBut
    <2>2. CASE 2 * m \in 1..n
      <3> DEFINE c == child(m)
      <3>1. /\ c \in 1..n /\ c > m /\ c \div 2 = m
            /\ \A k \in 1..n : k > 1 /\ k \div 2 = m => ~Less(h[c], h[k])
        BY <2>2, <1>3
      <3>2. g(m) = [g(c) EXCEPT ![m] = h[c]] /\ leaf(m) = leaf(c)
        BY <2>2, <1>2
      <3> HIDE DEF c
      <3>3. Claim(c)
        <4>1. c \in m + 1..n
          BY <3>1, <1>1
        <4> QED BY <4>1, <1>7
      <3>4. /\ g(c) \in [1..n -> S] /\ leaf(c) \in 1..n /\ leaf(c) >= c
            /\ 2 * leaf(c) \notin 1..n
            /\ \A k \in 1..n : k < c => g(c)[k] = h[k]
        BY <3>1, <1>4
      <3>5. \A k \in 1..n : g(m)[k] = IF k = m THEN h[c] ELSE g(c)[k]
        BY <3>2, <3>4
      <3>6. DOMAIN g(m) = 1..n /\ DOMAIN g(c) = 1..n
        BY <3>2, <3>4
      <3>7. ~Less(h[m], h[c])
        <4>1. c > 1
          BY <3>1, <1>1
        <4>2. ~Less(h[c \div 2], h[c])
          BY <3>1, <4>1, <1>5
        <4> QED BY <4>2, <3>1
      <3>8. ASSUME NEW k \in 1..n PROVE ~Less(h[k], g(m)[k])
        BY <3>3, <3>5, <3>7
      <3>9. ASSUME NEW k \in 1..n, k > 1, k # leaf(m) PROVE ~Less(g(m)[k \div 2], g(m)[k])
        <4>1. k \div 2 \in 1..n /\ k \div 2 < k /\ k \in Nat
          BY <3>9, <1>1, HalfIsLess
        <4>2. ~Less(g(c)[k \div 2], g(c)[k])
          BY <3>2, <3>3, <3>6, <3>9 DEF HeapBut
        <4>3. CASE k = m
          <5>1. g(m)[k] = h[c] /\ g(m)[k \div 2] = h[k \div 2]
            BY <4>1, <4>3, <3>1, <3>4, <3>5
          <5>2. ~Less(h[k \div 2], h[m])
            BY <4>3, <3>9, <1>5
          <5> QED BY <5>1, <5>2, <3>1, <3>7, <4>1, <1>1, <1>6
        <4>4. CASE k \div 2 = m
          <5>1. g(m)[k \div 2] = h[c] /\ g(m)[k] = g(c)[k]
            BY <4>1, <4>4, <3>5
          <5>2. ~Less(h[c], h[k]) /\ ~Less(h[k], g(c)[k])
            BY <4>4, <3>1, <3>3, <3>9
          <5> QED BY <5>1, <5>2, <3>1, <3>4, <1>1, <1>6
        <4>5. CASE k # m /\ k \div 2 # m
          BY <4>1, <4>2, <4>5, <3>5
        <4> QED BY <4>3, <4>4, <4>5
      <3> QED BY <3>2, <3>4, <3>6, <3>8, <3>9 DEF HeapBut
    <2> QED BY <2>1, <2>2
  <1> HIDE DEF Claim
  <1>8. \A m \in 1..n : (\A l \in m + 1..n : l \in Holds) => m \in Holds
    BY <1>7
  <1> HIDE DEF Holds
  <1>9. hole \in Holds
    BY <1>1, <1>8, InductionDown
  <1>10. Claim(hole)
    BY <1>9 DEF Holds
  <1> QED BY <1>10, <1>1 DEF Claim, n, g, leaf

-----------------------------------------------------------------------------
(* The element in front of a heap is one of its greatest.                  *)
LEMMA HeapFront ==
  ASSUME NEW S, WeakOrder(S), NEW h \in Seq(S), IsHeap(h), NEW i \in DOMAIN h
  PROVE  ~Less(h[1], h[i])
  <1> DEFINE Holds == { m \in Nat : m \in DOMAIN h => ~Less(h[1], h[m]) }
  <1>1. \A a \in S : ~Less(a, a)
    BY DEF WeakOrder
  <1>2. \A a, b, c \in S : ~Less(a, b) /\ ~Less(b, c) => ~Less(a, c)
    BY DEF WeakOrder
  <1>3. \A k \in DOMAIN h : h[k] \in S /\ h[1] \in S
    OBVIOUS
  <1>4. ASSUME NEW m \in Nat, \A l \in 0..m - 1 : l \in Holds, m \in DOMAIN h
        PROVE  ~Less(h[1], h[m])
    <2>1. CASE m = 1
      BY <2>1, <1>1, <1>3, <1>4
    <2>2. CASE m > 1
      <3> DEFINE q == m \div 2
      <3>1. q \in 1..m - 1
        BY <2>2, HalfIsLess
      <3>2. ~Less(h[q], h[m])
        BY <2>2, <1>4 DEF IsHeap
      <3> HIDE DEF q
      <3>3. q \in DOMAIN h /\ q \in 0..m - 1
        BY <3>1, <1>4
      <3>4. ~Less(h[1], h[q])
        BY <3>3, <1>4
      <3> QED BY <3>2, <3>3, <3>4, <1>2, <1>3, <1>4
    <2> QED BY <2>1, <2>2, <1>4
  <1>5. \A m \in Nat : (\A l \in 0..m - 1 : l \in Holds) => m \in Holds
    BY <1>4
  <1> HIDE DEF Holds
  <1>6. i \in Nat /\ i \in Holds
    BY <1>5, CourseOfValues
  <1> QED BY <1>6 DEF Holds

(* push_heap permutes the elements, and makes a heap of one with a new     *)
(* element behind it.                                                      *)
LEMMA PushHeapIs ==
  ASSUME NEW S, WeakOrder(S), NEW h \in Seq(S), NEW v \in S
  PROVE  LET pushed == PushHeap(Append(h, v)) IN
         /\ pushed \in Seq(S)
         /\ \E p : Rearranges(p, Append(h, v), pushed)
         /\ IsHeap(h) => IsHeap(pushed)
  <1> DEFINE a == Append(h, v)
             n == Len(h) + 1
             pushed == PushHeap(a)
  <1>1. /\ a \in Seq(S) /\ Len(a) = n /\ DOMAIN a = 1..n /\ n \in Nat /\ n \in 1..n
        /\ a[n] = v /\ \A k \in 1..n : a[k] \in S /\ (k < n => a[k] = h[k])
    OBVIOUS
  <1> HIDE DEF a
  <1>2. [a EXCEPT ![n] = v] = a
    BY <1>1
  <1>3. pushed = Risen(a, v)[n]
    BY <1>1 DEF PushHeap, Rise
  <1>4. pushed \in [1..n -> S]
    BY <1>1, <1>3, RisenPermutes
  <1>5. pushed \in Seq(S) /\ Len(pushed) = n
    <2> HIDE DEF pushed, n
    <2> QED BY <1>1, <1>4
  <1>6. ASSUME IsHeap(h) PROVE IsHeap(pushed)
    <2>1. 2 * n \notin 1..n
      BY <1>1
    <2>2. ASSUME NEW k \in 1..n, k > 1, k # n PROVE ~Less(a[k \div 2], a[k])
      <3>1. k \in Nat /\ k < n /\ k \in 2..Len(h)
        BY <2>2
      <3>2. k \div 2 \in 1..k - 1
        BY <3>1, <2>2, HalfIsLess
      <3>3. ~Less(h[k \div 2], h[k])
        BY <3>1, <1>6 DEF IsHeap
      <3> QED BY <3>1, <3>2, <3>3, <1>1
    <2>3. HeapBut(a, n)
      <3> HIDE DEF n
      <3> QED BY <2>1, <2>2, <1>1 DEF HeapBut
    <2>4. IsHeap(Rise(a, n, v))
      BY <2>3, <1>1, RisenHeap
    <2> QED BY <2>4, <1>3 DEF Rise
  <1>7. PICK p : RisenBy(p, a, v, n)
    <2> HIDE DEF n
    <2> QED BY <1>1, RisenPermutes
  <1>8. Rearranges(p, a, pushed)
    <2> HIDE DEF n, pushed
    <2> QED BY <1>7, <1>1, <1>2, <1>3, <1>5 DEF RisenBy, Rearranges
  <1> QED BY <1>5, <1>6, <1>8 DEF a

(* The permutation of pop_heap: the front comes last, the last element     *)
(* goes where the hole is, and the others go down and up.                  *)
LEMMA AroundTheHole ==
  ASSUME NEW m \in Nat, NEW n, n = m + 1, NEW up \in Places(m), NEW down \in Places(m),
         NEW hole \in 1..m, down[hole] = 1
  PROVE  [k \in 1..n |-> IF k = n THEN 1 ELSE IF up[k] = hole THEN n ELSE down[up[k]]]
           \in Places(n)
  <1> DEFINE p == [k \in 1..n |-> IF k = n THEN 1 ELSE IF up[k] = hole THEN n ELSE down[up[k]]]
  <1>1. m >= 1 /\ n \in Nat /\ n = m + 1 /\ 1 \in 1..m
    OBVIOUS
  <1>2. /\ up \in [1..m -> 1..m] /\ down \in [1..m -> 1..m]
        /\ \A i, j \in 1..m : up[i] = up[j] => i = j
        /\ \A i, j \in 1..m : down[i] = down[j] => i = j
        /\ \A j \in 1..m : \E i \in 1..m : up[i] = j
        /\ \A j \in 1..m : \E i \in 1..m : down[i] = j
    BY DEF Places
  <1>3. down[hole] = 1
    OBVIOUS
  <1>4. p \in [1..n -> 1..n]
    <2>1. ASSUME NEW k \in 1..n PROVE p[k] \in 1..n
      <3>1. CASE k = n
        BY <3>1, <1>1
      <3>2. CASE k # n
        <4>1. k \in 1..m
          BY <3>2, <1>1
        <4>2. up[k] \in 1..m
          BY <4>1, <1>2
        <4>3. down[up[k]] \in 1..m
          BY <4>2, <1>2
        <4> QED BY <3>2, <4>3, <1>1
      <3> QED BY <3>1, <3>2
    <2> QED BY <2>1
  <1>5. ASSUME NEW i \in 1..n, NEW j \in 1..n, p[i] = p[j] PROVE i = j
    <2>1. ASSUME NEW k \in 1..m
          PROVE  k # n /\ p[k] # 1 /\ (p[k] = n <=> up[k] = hole)
      <3>1. up[k] \in 1..m
        BY <1>2
      <3>2. down[up[k]] \in 1..m
        BY <3>1, <1>2
      <3>3. up[k] # hole => down[up[k]] # 1
        BY <3>1, <1>1, <1>2, <1>3
      <3>4. k # n /\ down[up[k]] # n /\ k \in 1..n /\ n # 1
        BY <3>2, <1>1
      <3> QED BY <3>3, <3>4
    <2>2. (i = n \/ i \in 1..m) /\ (j = n \/ j \in 1..m)
      BY <1>1
    <2>3. CASE i = n \/ j = n
      BY <1>5, <2>1, <2>2, <2>3, <1>1
    <2>4. CASE i \in 1..m /\ j \in 1..m
      <3>1. CASE up[i] = hole
        BY <1>5, <2>1, <2>4, <3>1, <1>2
      <3>2. CASE up[i] # hole
        <4>1. up[j] # hole
          BY <1>5, <2>1, <2>4, <3>2
        <4>2. down[up[i]] = down[up[j]]
          BY <1>5, <2>1, <2>4, <3>2, <4>1, <1>1
        <4>3. up[i] \in 1..m /\ up[j] \in 1..m
          BY <2>4, <1>2
        <4>4. \A a, b \in 1..m : down[a] = down[b] => a = b
          BY <1>2
        <4>5. up[i] = up[j]
          BY <4>2, <4>3, <4>4
        <4> QED BY <4>5, <2>4, <1>2
      <3> QED BY <3>1, <3>2
    <2> QED BY <2>2, <2>3, <2>4
  <1>6. ASSUME NEW j \in 1..n PROVE \E i \in 1..n : p[i] = j
    <2>1. CASE j = 1
      <3>1. n \in 1..n /\ p[n] = 1
        BY <1>1
      <3> QED BY <2>1, <3>1
    <2>2. CASE j = n
      <3>1. PICK i \in 1..m : up[i] = hole
        BY <1>1, <1>2
      <3>2. i \in 1..n /\ p[i] = n
        BY <3>1, <1>1
      <3> QED BY <2>2, <3>2
    <2>3. CASE j # 1 /\ j # n
      <3>1. j \in 1..m
        BY <2>3, <1>1
      <3>2. PICK i \in 1..m : down[i] = j
        BY <3>1, <1>2
      <3>3. PICK k \in 1..m : up[k] = i
        BY <1>2
      <3>4. k \in 1..n /\ p[k] = j
        BY <3>2, <3>3, <2>3, <1>1, <1>3
      <3> QED BY <3>4
    <2> QED BY <2>1, <2>2, <2>3
  <1> HIDE DEF p
  <1>7. p \in Places(n)
    BY <1>4, <1>5, <1>6 DEF Places
  <1> QED BY <1>7 DEF p

(* pop_heap moves the front to the back and permutes the rest; and if the  *)
(* sequence was a heap but for its last element, the rest is one after it. *)
LEMMA PopHeapIs ==
  ASSUME NEW S, WeakOrder(S), NEW h \in Seq(S), h # << >>
  PROVE  LET popped == PopHeap(h) IN
         /\ popped \in Seq(S)
         /\ \E p : Rearranges(p, h, popped) /\ p[Len(h)] = 1
         /\ IsHeap(SubSeq(h, 1, Len(h) - 1)) => IsHeap(SubSeq(popped, 1, Len(h) - 1))
  <1> DEFINE n == Len(h)
             popped == PopHeap(h)
  <1>1. n \in Nat /\ n > 0 /\ DOMAIN h = 1..n /\ \A k \in 1..n : h[k] \in S
    OBVIOUS
  <1>2. CASE n = 1
    <2> DEFINE p == [k \in 1..n |-> k]
    <2>1. p \in Places(n) /\ \A k \in 1..n : p[k] = k
      BY <1>1, Unmoved
    <2> HIDE DEF p
    <2>2. popped = h
      BY <1>2 DEF PopHeap
    <2>3. Rearranges(p, h, popped) /\ p[Len(h)] = 1
      BY <2>1, <2>2, <1>1, <1>2 DEF Rearranges
    <2> QED BY <2>2, <2>3, <1>2
  <1>3. CASE n > 1
    <2> DEFINE m == n - 1
               rest == SubSeq(h, 1, m)
               sunk == Sunk(rest)[1]
               risen == Risen(sunk.heap, h[n])[sunk.hole]
    <2>1. /\ m \in Nat /\ m >= 1 /\ n = m + 1 /\ 1 \in 1..m
          /\ rest \in Seq(S) /\ Len(rest) = m /\ DOMAIN rest = 1..m
          /\ \A k \in 1..m : rest[k] = h[k]
      BY <1>1, <1>3
    <2>2. popped = Append(risen, h[1])
      BY <1>3 DEF PopHeap, Rise
    <2> HIDE DEF n, m, rest
    <2>3. 1 \in DOMAIN rest
      BY <2>1
    <2>4. sunk.heap \in [1..m -> S] /\ sunk.hole \in 1..m
      BY <2>1, <2>3, SunkPermutes
    <2>5. PICK down : SunkBy(down, rest, 1)
      BY <2>1, <2>3, SunkPermutes
    <2> DEFINE g == sunk.heap
               hole == sunk.hole
    <2>6. g \in Seq(S) /\ Len(g) = m /\ DOMAIN g = 1..m /\ hole \in 1..m /\ h[n] \in S
      <3> HIDE DEF sunk
      <3> QED BY <2>1, <2>4, <1>1
    <2>7. risen \in [1..m -> S] /\ \E p : RisenBy(p, g, h[n], hole)
      <3> HIDE DEF sunk, g, hole
      <3>1. hole \in DOMAIN g
        BY <2>6
      <3>2. Risen(g, h[n])[hole] \in [DOMAIN g -> S] /\ \E p : RisenBy(p, g, h[n], hole)
        BY <2>6, <3>1, RisenPermutes
      <3> QED BY <2>6, <3>2 DEF g, hole
    <2> HIDE DEF sunk, risen, g, hole
    <2>8. PICK up : RisenBy(up, g, h[n], hole)
      BY <2>7
    <2>9. /\ down \in Places(m) /\ down[hole] = 1
          /\ \A k \in 1..m : k # hole => g[k] = rest[down[k]]
      BY <2>1, <2>5 DEF SunkBy, g, hole, sunk
    <2>10. /\ up \in Places(m)
           /\ \A k \in 1..m : risen[k] = [g EXCEPT ![hole] = h[n]][up[k]]
      BY <2>6, <2>8 DEF RisenBy, risen, g, hole
    <2>11. risen \in Seq(S) /\ Len(risen) = m
      BY <2>1, <2>7
    <2>12. /\ popped \in Seq(S) /\ Len(popped) = n /\ popped[n] = h[1]
           /\ \A k \in 1..m : popped[k] = risen[k]
      <3> HIDE DEF popped
      <3> QED BY <2>1, <2>2, <2>11, <1>1
    <2> DEFINE p == [k \in 1..n |-> IF k = n THEN 1 ELSE IF up[k] = hole THEN n ELSE down[up[k]]]
    <2>13. p \in Places(n)
      BY <2>1, <2>6, <2>9, <2>10, AroundTheHole
    <2>14. ASSUME NEW k \in 1..n PROVE popped[k] = h[p[k]]
      <3>1. CASE k = n
        BY <3>1, <2>12
      <3>2. CASE k # n
        <4>1. k \in 1..m
          BY <3>2, <2>1
        <4>2. up[k] \in 1..m
          BY <4>1, <2>10 DEF Places
        <4>3. popped[k] = [g EXCEPT ![hole] = h[n]][up[k]]
          BY <4>1, <2>10, <2>12
        <4>4. CASE up[k] = hole
          BY <4>1, <4>3, <4>4, <3>2, <2>6
        <4>5. CASE up[k] # hole
          <5>1. popped[k] = g[up[k]]
            BY <4>2, <4>3, <4>5, <2>6
          <5>2. popped[k] = rest[down[up[k]]]
            BY <5>1, <4>2, <4>5, <2>9
          <5>3. down[up[k]] \in 1..m
            BY <4>2, <2>9 DEF Places
          <5> QED BY <5>2, <5>3, <4>5, <3>2, <2>1
        <4> QED BY <4>4, <4>5
      <3> QED BY <3>1, <3>2
    <2>15. p[n] = 1
      BY <2>1
    <2>16. ASSUME IsHeap(rest) PROVE IsHeap(SubSeq(popped, 1, m))
      <3>1. HeapBut(g, hole)
        BY <2>16, <2>1, <2>3, SunkHeap DEF g, hole, sunk
      <3>2. IsHeap(Rise(g, hole, h[n]))
        BY <3>1, <2>6, RisenHeap
      <3>3. SubSeq(popped, 1, m) = risen
        BY <2>1, <2>11, <2>12
      <3> QED BY <3>2, <3>3 DEF Rise, risen, g, hole
    <2> HIDE DEF p, popped
    <2>17. Rearranges(p, h, popped) /\ p[n] = 1
      BY <2>12, <2>13, <2>14, <2>15 DEF Rearranges, n
    <2> QED BY <2>12, <2>16, <2>17 DEF n, m, rest, popped
  <1> QED BY <1>1, <1>2, <1>3
=============================================================================
