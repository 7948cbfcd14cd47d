------------------------------ MODULE Retrieval ------------------------------
(***************************************************************************)
(* What the traversals of a query share (algorithm/query.hpp, taat.hpp,    *)
(* threshold.hpp): the posting lists of the query's terms, the score of a  *)
(* posting, and the top-k accumulator documents are offered to.            *)
(*                                                                         *)
(* A scorer is a weight by which a payload is multiplied: the traversals   *)
(* only add scores, and a weight per term makes it matter which scorer is  *)
(* applied to which list.                                                  *)
(***************************************************************************)
EXTENDS Integers, Sequences, FiniteSetsExt, SequencesExt

CONSTANTS
  Lists,           (* the posting lists: sequences of [document, payload]  *)
  K,               (* the results asked for                                *)
  CollectionSize,  (* documents are 0..CollectionSize - 1                  *)
  Weights,         (* the scorers, one for each term of the query          *)
  Lowest           (* std::numeric_limits<Score>::lowest()                 *)

Increases(list) ==
  \A i, j \in DOMAIN list : i < j => list[i].document < list[j].document

ASSUME ListsAssumption ==
  /\ Lists \subseteq Seq([document : Nat, payload : Int])
  /\ \A list \in Lists : Increases(list)

ASSUME RetrievalAssumption ==
  /\ K \in Nat \ {0} /\ CollectionSize \in Nat
  /\ Weights \in Seq(Int) /\ Lowest \in Int
  /\ \A list \in Lists : \A i \in DOMAIN list : list[i].document < CollectionSize

VARIABLES
  query,                  (* the fetched posting lists, one for each term  *)
  ranges,                 (* the moving_range over each list               *)
  offered,                (* history: the documents offered, in order      *)
  seen, top_, threshold_  (* the accumulator: see TopKAccumulator          *)

accumulator == <<offered, seen, top_, threshold_>>

Accumulator == INSTANCE TopKAccumulator WITH Values <- Int

Documents == 0..(CollectionSize - 1)

(* A query has a term that occurs: detail::daat takes the document of the  *)
(* first range, whatever it holds.                                         *)
Queries == { q \in [DOMAIN Weights -> Lists] : \E t \in DOMAIN q : q[t] # << >> }

RetrievalInit ==
  /\ query \in Queries
  /\ offered = << >>
  /\ Accumulator!Init

score_fn(term, posting) == Weights[term] * posting.payload

accumulate(document, score) ==
  /\ Accumulator!accumulate(score)
  /\ offered' = Append(offered, document)

-----------------------------------------------------------------------------
(* moving_range: the term whose list it moves over, and its left end.      *)
Whole == [term \in DOMAIN query |-> [term |-> term, left |-> 1]]
empty(range) == range.left > Len(query[range.term])
front(range) == query[range.term][range.left]
advance(range) == [range EXCEPT !.left = @ + 1]

(* moving_range_order.  Two empty ranges are each before the other.        *)
order(lhs, rhs) ==
  \/ empty(rhs)
  \/ ~empty(lhs) /\ front(lhs).document < front(rhs).document

-----------------------------------------------------------------------------
(* The definition of a document's score, the sum over all lists, each      *)
(* posting with the scorer of its own term; of the documents that can be   *)
(* an answer; and of the documents of an answer.                           *)
Postings(q, term, document) == { i \in DOMAIN q[term] : q[term][i].document = document }

ScoreIn(q, term, document) ==
  SumFunction([i \in Postings(q, term, document) |-> score_fn(term, q[term][i])])

ScoreOf(q, document) == SumFunction([term \in DOMAIN q |-> ScoreIn(q, term, document)])

(* The lowest number of the type is below every score.                     *)
ASSUME LowestAssumption == \A q \in Queries, d \in Documents : Lowest < ScoreOf(q, d)

Score(document) == ScoreOf(query, document)

Worthy == { d \in Documents : Score(d) # 0 }

AnswerOf(top) == { offered[top[i].first] : i \in DOMAIN top }

(* The answer is k documents with the highest scores, if so many score.    *)
IsBestAnswer(answer) ==
  /\ Cardinality(answer) = Min({K, Cardinality(Worthy)})
  /\ answer \subseteq Worthy
  /\ \A d \in answer, e \in Worthy \ answer : Score(e) <= Score(d)

(* A document is offered once, and after every document with a lower       *)
(* number: the postings of a document in several lists meet, however the   *)
(* ranges are permuted while the lists are walked.                         *)
(* What is offered is the whole score of the document.                     *)
OffersAreScores ==
  /\ \A i, j \in DOMAIN offered : i < j => offered[i] < offered[j]
  /\ \A i \in DOMAIN offered : seen[i] = Score(offered[i])
=============================================================================
