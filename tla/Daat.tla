-------------------------------- MODULE Daat --------------------------------
(***************************************************************************)
(* detail::daat (algorithm/query.hpp): document-at-a-time traversal.       *)
(*                                                                         *)
(* A round of the loop is a step: the ranges whose front is the current    *)
(* document are scored and advanced, the least document left is the next   *)
(* one, and its range is swapped to the front.  The scorer is found by the *)
(* term that travels with the range, for the swaps permute the ranges.     *)
(***************************************************************************)
EXTENDS Retrieval

VARIABLES current_doc, running

daat_vars == <<current_doc, running>>

Swapped(s, i, j) == [s EXCEPT ![i] = s[j], ![j] = s[i]]

(* std::min_element, of the first i ranges for every i: the first position *)
(* that no later one is before.                                            *)
MinPositions ==
  LET least[i \in DOMAIN query] ==
        IF i = 1 THEN 1
        ELSE IF order(Whole[i], Whole[least[i - 1]]) THEN i ELSE least[i - 1]
  IN  least

MinPosition == MinPositions[Len(query)]

DaatInit ==
  /\ RetrievalInit
  /\ ranges = Swapped(Whole, 1, MinPosition)
  /\ current_doc = front(Whole[MinPosition]).document
  /\ running = TRUE

(* The positions of the ranges that stand at the current document.         *)
AtCurrent ==
  { i \in DOMAIN ranges : ~empty(ranges[i]) /\ front(ranges[i]).document = current_doc }

(* A slip that OffersAreScores catches: the scorer is chosen by the        *)
(* position.                                                               *)
CurrentScore_by_position ==
  SumFunction([i \in AtCurrent |-> score_fn(i, front(ranges[i]))])

CurrentScore ==
  SumFunction([i \in AtCurrent |-> score_fn(ranges[i].term, front(ranges[i]))])

(* A slip that RangesInOrder catches: the first range is not advanced.     *)
AdvancedRanges_but_first ==
  [i \in DOMAIN ranges |-> IF i \in AtCurrent \ {1} THEN advance(ranges[i]) ELSE ranges[i]]

AdvancedRanges ==
  [i \in DOMAIN ranges |-> IF i \in AtCurrent THEN advance(ranges[i]) ELSE ranges[i]]

(* The ranges with postings left after this round.                         *)
Left == { i \in DOMAIN ranges : ~empty(AdvancedRanges[i]) }

NextDocument == Min({ front(AdvancedRanges[i]).document : i \in Left })

NextList == Min({ i \in Left : front(AdvancedRanges[i]).document = NextDocument })

Continue ==
  /\ running /\ Left # {}
  /\ accumulate(current_doc, CurrentScore)
  /\ current_doc' = NextDocument
  /\ ranges' = Swapped(AdvancedRanges, 1, NextList)
  /\ UNCHANGED <<query, running>>

(* A slip that AnswerIsBest catches: the loop ends before the last offer.  *)
Finish_unoffered ==
  /\ running /\ Left = {}
  /\ ranges' = AdvancedRanges
  /\ running' = FALSE
  /\ UNCHANGED <<query, current_doc>> /\ UNCHANGED accumulator

Finish ==
  /\ running /\ Left = {}
  /\ accumulate(current_doc, CurrentScore)
  /\ ranges' = AdvancedRanges
  /\ running' = FALSE
  /\ UNCHANGED <<query, current_doc>>

DaatNext == Continue \/ Finish

-----------------------------------------------------------------------------
(* Every range has consumed exactly the postings of the documents before   *)
(* the current one, so that no list is ahead of a document it has a        *)
(* posting for and no posting is scored twice.                             *)
RangesAtCurrent ==
  running =>
    \A r \in Range(ranges) : \A i \in DOMAIN query[r.term] :
      query[r.term][i].document < current_doc <=> i < r.left
=============================================================================
