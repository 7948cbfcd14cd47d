--------------------------- MODULE TopKAccumulator ---------------------------
(***************************************************************************)
(* irk::top_k_accumulator (utils.hpp): the vector top_ kept as a heap      *)
(* whose front is the lowest score, and the cached threshold_.             *)
(*                                                                         *)
(* An entry is the score and, for its key, the number of the offer.        *)
(***************************************************************************)
EXTENDS Integers, FiniteSets, Sequences, FiniteSetsExt, SequencesExt

CONSTANTS K, Values, Lowest

VARIABLES seen, top_, threshold_

vars == <<seen, top_, threshold_>>

(* result_order: greater scores first, so the heap's front is the lowest.  *)
result_order(lhs, rhs) == lhs.second > rhs.second

Heap == INSTANCE StdHeap WITH Less <- result_order

Init ==
  /\ seen = << >>
  /\ top_ = << >>
  /\ threshold_ = Lowest

(* A slip that SortedIsBest catches: the new entry takes the place of the     *)
(* front.                                                                  *)
Insert_unsifted(top, entry) ==
  IF Len(top) < K THEN Append(top, entry) ELSE [top EXCEPT ![1] = entry]

(* A slip that TopIsBest catches: the entry that goes is  *)
(* the last, not the lowest.                                               *)
Insert_dropping(top, entry) ==
  LET grown == Append(top, entry)
  IN  IF Len(grown) <= K THEN Heap!PushHeap(grown) ELSE Front(grown)

(* The vector after emplace_back and either push_heap, or pop_heap and     *)
(* pop_back.  In the second case the entry just appended is not yet part   *)
(* of the heap: pop_heap swaps it with the front and sinks it, which       *)
(* replaces the lowest entry in one pass.                                  *)
Insert(top, entry) ==
  LET grown == Append(top, entry)
  IN  IF Len(grown) <= K
      THEN Heap!PushHeap(grown)
      ELSE Front(Heap!PopHeap(grown))

(* A slip that ImplementsTopK catches: a score of zero counts.             *)
Accepts_zero(value) == value > threshold_

(* A slip that ThresholdNeverFalls catches: every score but zero counts.   *)
Accepts_all(value) == value # 0

(* A slip that AnswersAgree catches: a later document of the same score    *)
(* replaces an earlier one, as long as its block is not skipped.           *)
Accepts_ties(value) == value # 0 /\ value >= threshold_

Accepts(value) == value # 0 /\ value > threshold_

(* A slip that ThresholdIsKth catches: the last entry, as if they were     *)
(* sorted.                                                                 *)
NextThreshold_last(top) == IF Len(top) = K THEN Last(top).second ELSE threshold_

NextThreshold(top) == IF Len(top) = K THEN top[1].second ELSE threshold_

(* A slip that TypeOK catches: offers are counted from 0.                  *)
Offer_from_zero(value) == [first |-> Len(seen), second |-> value]

Offer(value) == [first |-> Len(seen) + 1, second |-> value]

accumulate(value) ==
  /\ seen' = Append(seen, value)
  /\ IF Accepts(value)
     THEN /\ top_' = Insert(top_, Offer(value))
          /\ threshold_' = NextThreshold(top_')
     ELSE UNCHANGED <<top_, threshold_>>

Next == \E value \in Values : accumulate(value)

Spec == Init /\ [][Next]_vars

(* sorted(): the entries by decreasing score; std::sort leaves the order   *)
(* of equal scores open, here the older offer comes first.                 *)
sorted == SortSeq(top_, LAMBDA a, b : \/ result_order(a, b)
                                      \/ a.second = b.second /\ a.first < b.first)

(* The offers that are held.                                               *)
Keys == { top_[i].first : i \in DOMAIN top_ }

-----------------------------------------------------------------------------
(* top_ is a heap after every call, although pop_heap was handed a range   *)
(* that was not one: the next call and threshold_ = top_[0] depend on it.  *)
(* And sorted() is the k best non-zero scores of everything offered, in    *)
(* order.                                                                  *)
SortedIsBest ==
  LET worthy == SelectSeq(SortSeq(seen, >), LAMBDA v : v # 0 /\ v > Lowest)
  IN  /\ Heap!IsHeap(top_)
      /\ [ i \in DOMAIN sorted |-> sorted[i].second ]
            = SubSeq(worthy, 1, Min({K, Len(worthy)}))
=============================================================================
