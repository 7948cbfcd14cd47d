----------------------------- MODULE Traversals -----------------------------
(***************************************************************************)
(* A query and the three ways to process it: traversal says which of Daat, *)
(* Taat and PostingUnion runs, and the variables of the others stay as     *)
(* they are.                                                               *)
(***************************************************************************)
EXTENDS Daat, Taat, PostingUnion

VARIABLE traversal

DaatIdle  == current_doc = 0 /\ running = FALSE
TaatIdle  == /\ blocked = FALSE /\ accumulators = << >> /\ max_values = << >>
             /\ term = 1 /\ key = 0
UnionIdle == pos_ = 0 /\ group = << >>

Init ==
  \/ traversal = "daat"  /\ DaatInit  /\ TaatIdle /\ UnionIdle
  \/ traversal = "taat"  /\ TaatInit  /\ DaatIdle /\ UnionIdle
  \/ traversal = "union" /\ UnionInit /\ DaatIdle /\ TaatIdle

Next ==
  /\ UNCHANGED traversal
  /\ \/ traversal = "daat"  /\ DaatNext  /\ UNCHANGED <<taat_vars, union_vars>>
     \/ traversal = "taat"  /\ TaatNext  /\ UNCHANGED <<daat_vars, union_vars>>
     \/ traversal = "union" /\ UnionNext /\ UNCHANGED <<daat_vars, taat_vars>>

vars == <<query, ranges, accumulator, daat_vars, taat_vars, union_vars, traversal>>

Spec == Init /\ [][Next]_vars

-----------------------------------------------------------------------------
Done ==
  CASE traversal = "daat"  -> ~running
    [] traversal = "taat"  -> term > Len(query) /\ key = CollectionSize
    [] traversal = "union" -> AtEnd /\ group = << >>

(* Whichever way a query is processed, what the accumulator holds in the   *)
(* end is k documents with the highest scores.                             *)
AnswerIsBest == Done => IsBestAnswer(AnswerOf(top_))

(* UnionIsOrdered and RangesAtCurrent where the ranges are theirs.         *)
RangesInOrder == RangesAtCurrent /\ (traversal = "union" => UnionIsOrdered)
=============================================================================
