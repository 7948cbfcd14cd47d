----------------------------- MODULE MCRetrieval -----------------------------
(* Checks Traversals for every query of as many lists as MCWeights.         *)
EXTENDS Traversals

CONSTANT payloads  (* the payloads that occur *)

MCWeights == <<1, 2, -1>>
MCLowest  == -100

ListOf(f) ==
  LET docs == SetToSortSeq(DOMAIN f, <)
  IN  [i \in DOMAIN docs |-> [document |-> docs[i], payload |-> f[docs[i]]]]

MCLists == { ListOf(f) : f \in UNION { [ds -> payloads] : ds \in SUBSET Documents } }

(* The results that a pass over the scores of all documents gives.         *)
PlainAnswer ==
  LET Offered(acc, d) ==
        IF Score(d) = 0 \/ Score(d) <= acc.threshold THEN acc
        ELSE LET top == Accumulator!Insert(acc.top, [first |-> d, second |-> Score(d)])
             IN  [top |-> top, threshold |-> IF Len(top) = K THEN top[1].second ELSE acc.threshold]
      all == FoldLeft(Offered, [top |-> << >>, threshold |-> Lowest],
                      [i \in 1..CollectionSize |-> i - 1])
  IN  { all.top[i].first : i \in DOMAIN all.top }

(* The three traversals give the same answer, of several documents with    *)
(* the same score too: a user who switches from one to the other, or       *)
(* computes the threshold for a query that another processes, sees the     *)
(* same results.                                                           *)
AnswersAgree == Done => AnswerOf(top_) = PlainAnswer
=============================================================================
