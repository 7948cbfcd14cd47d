-------------------------------- MODULE TopK --------------------------------
(***************************************************************************)
(* What irk::top_k_accumulator promises its callers (utils.hpp): of the    *)
(* postings offered so far it keeps k best, whatever the order they were   *)
(* offered in, and threshold() is the score a posting must beat.           *)
(*                                                                         *)
(* A posting is named by the number of its offer, so that two postings of  *)
(* the same document and score stay two postings.  Which of several lowest *)
(* postings is discarded is left open: the order of a heap decides it, and *)
(* TopKAccumulator, which has that heap, is shown to implement this module.*)
(***************************************************************************)
EXTENDS Integers, FiniteSets, Sequences

CONSTANTS
  K,       (* k_: how many postings to accumulate                         *)
  Values,  (* the scores that callers offer                               *)
  Lowest   (* std::numeric_limits<value_type>::lowest()                   *)

ASSUME KAssumption      == K \in Nat \ {0}
ASSUME ValuesAssumption == /\ Values \subseteq Int
                           /\ Lowest \in Int
                           /\ \A v \in Values : Lowest <= v

VARIABLES
  seen,      (* history: the score of every posting offered, in order     *)
  top,       (* the offers that are held                                  *)
  threshold  (* threshold_                                                *)

vars == <<seen, top, threshold>>

(* The held offers that none of the others held is below.                  *)
LowestOf(scores, held) == { i \in held : \A j \in held : scores[i] <= scores[j] }

(* threshold_ after an offer was taken: the lowest score held when the     *)
(* accumulator is full, and what it was before otherwise.                  *)
IsThreshold(t, scores, held, old) ==
  IF Cardinality(held) = K
  THEN \E i \in LowestOf(scores, held) : t = scores[i]
  ELSE t = old

Init ==
  /\ seen = << >>
  /\ top = {}
  /\ threshold = Lowest

(* accumulate() that returns false.                                        *)
Reject(v) ==
  /\ v = 0 \/ v <= threshold
  /\ seen' = Append(seen, v)
  /\ UNCHANGED <<top, threshold>>

(* accumulate() that returns true and grows the container.                 *)
Fill(v) ==
  /\ v # 0 /\ v > threshold
  /\ Cardinality(top) < K
  /\ seen' = Append(seen, v)
  /\ top' = top \cup {Len(seen) + 1}
  /\ IsThreshold(threshold', seen', top', threshold)

(* accumulate() that returns true and discards a lowest posting.           *)
Replace(v) ==
  /\ v # 0 /\ v > threshold
  /\ Cardinality(top) = K
  /\ seen' = Append(seen, v)
  /\ \E out \in LowestOf(seen, top) : top' = (top \ {out}) \cup {Len(seen) + 1}
  /\ IsThreshold(threshold', seen', top', threshold)

Next == \E v \in Values : Reject(v) \/ Fill(v) \/ Replace(v)

Spec == Init /\ [][Next]_vars

-----------------------------------------------------------------------------
TypeOK ==
  /\ seen \in Seq(Values)
  /\ top \subseteq DOMAIN seen
  /\ threshold \in Values \cup {Lowest}

(* An offer that is not held was worthless (a zero score, or the lowest    *)
(* value of the type, which the strict comparison with the initial         *)
(* threshold refuses), or the accumulator is full of offers at least as    *)
(* good: nothing that was ever rejected or discarded would be in the       *)
(* answer.  And no offer that is held is worthless.                        *)
RejectedAreNoBetter ==
  \A i \in DOMAIN seen \ top :
    \/ seen[i] \in {0, Lowest}
    \/ Cardinality(top) = K /\ \A j \in top : seen[i] <= seen[j]

HeldAreWorthy == \A i \in top : seen[i] \notin {0, Lowest}

TopIsBest == RejectedAreNoBetter /\ HeldAreWorthy

(* Once there are k results, threshold() is exactly the score of the k-th  *)
(* of them, however the others were replaced on the way.                   *)
ThresholdIsKth ==
  Cardinality(top) = K =>
    \E i \in top : threshold = seen[i] /\ \A j \in top : threshold <= seen[j]

(* What the comment on threshold() says of fewer results (utils.hpp): "or  *)
(* 0 if fewer than k results have been accumulated".  It is the lowest     *)
(* value of the type, which is 0 of unsigned scores only.                  *)
ZeroBeforeKth == Cardinality(top) < K => threshold = 0

(* The threshold never falls.  Retrieval relies on it: a block of          *)
(* accumulators, or a shard, skipped because its bound does not beat the   *)
(* threshold stays irrelevant for the rest of the query.                   *)
ThresholdNeverFalls == [][threshold' >= threshold]_vars
=============================================================================
