------------------------------- MODULE StdHeap -------------------------------
(***************************************************************************)
(* std::push_heap and std::pop_heap on a sequence, by what libstdc++ (the  *)
(* library the project is built with) does with ANY sequence: irkit calls  *)
(* them on ranges that are not heaps (see IndexMerger) and on ranges whose *)
(* last element is not part of the heap yet (see TopKAccumulator).         *)
(*                                                                         *)
(* No element of a heap is greater than its parent, so the greatest one is *)
(* in front.  Index 1 is the front; the children of i are 2i and 2i+1.     *)
(***************************************************************************)
LOCAL INSTANCE Integers
LOCAL INSTANCE Sequences

CONSTANT Less(_, _)   (* the comparison handed to the algorithms *)

IsHeap(h) == \A i \in 2..Len(h) : ~Less(h[i \div 2], h[i])

(* std::__push_heap, for every hole: while the hole's parent is less than  *)
(* v, it moves down into the hole, and its own place is the hole.          *)
Risen(h, v) ==
  LET risen[hole \in DOMAIN h] ==
        IF hole = 1 \/ ~Less(h[hole \div 2], v)
        THEN [h EXCEPT ![hole] = v]
        ELSE [risen[hole \div 2] EXCEPT ![hole] = h[hole \div 2]]
  IN  risen

Rise(h, hole, v) == Risen(h, v)[hole]

PushHeap(h) == IF Len(h) = 0 THEN h ELSE Rise(h, Len(h), h[Len(h)])

(* The greater child of i, the right one on a tie, or the only one.        *)
GreaterChild(h, i) ==
  IF 2 * i + 1 \notin DOMAIN h \/ Less(h[2 * i + 1], h[2 * i]) THEN 2 * i ELSE 2 * i + 1

(* The first loop of std::__adjust_heap, for every hole: the greater child *)
(* moves up until the hole is a leaf.                                      *)
Sunk(h) ==
  LET sunk[hole \in DOMAIN h] ==
        IF 2 * hole \notin DOMAIN h
        THEN [heap |-> h, hole |-> hole]
        ELSE LET child == GreaterChild(h, hole)
             IN  [heap |-> [sunk[child].heap EXCEPT ![hole] = h[child]],
                  hole |-> sunk[child].hole]
  IN  sunk

(* The front moves to the back, and the old back sinks to the bottom and   *)
(* rises again from there.                                                 *)
PopHeap(h) ==
  IF Len(h) < 2 THEN h
  ELSE LET sunk == Sunk(SubSeq(h, 1, Len(h) - 1))[1]
       IN  Append(Rise(sunk.heap, sunk.hole, h[Len(h)]), h[1])
=============================================================================
