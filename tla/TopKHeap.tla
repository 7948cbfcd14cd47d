------------------------------ MODULE TopKHeap ------------------------------
(***************************************************************************)
(* TopK and TopKAccumulator side by side: top, the offers that are held,   *)
(* is defined by the entries of top_, so that the properties of TopK speak *)
(* of the accumulator.                                                     *)
(***************************************************************************)
EXTENDS TopK

VARIABLE top_

Accumulator == INSTANCE TopKAccumulator WITH threshold_ <- threshold

HeapInit == Accumulator!Init /\ top = {}

HeapNext ==
  /\ \E value \in Values : Accumulator!accumulate(value)
  /\ top' = Accumulator!Keys'

HeapSpec == HeapInit /\ [][HeapNext]_<<vars, top_>>

(* top_ is a heap after every call, although pop_heap was handed a range   *)
(* that was not one: the next call and threshold_ = top_[0] depend on it.  *)
TopIsHeap == Accumulator!Heap!IsHeap(top_)

(* See TopKAccumulator.                                                    *)
SortedIsBest == Accumulator!SortedIsBest

(* Every step of the accumulator is one that TopK allows: which of several *)
(* lowest entries is discarded is all that TopK leaves to the heap.        *)
ImplementsTopK == Spec
=============================================================================
