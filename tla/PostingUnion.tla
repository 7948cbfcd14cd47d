---------------------------- MODULE PostingUnion ----------------------------
(***************************************************************************)
(* Union and UnionIterator (index/posting_list.hpp), which merge the       *)
(* posting lists of a query into one, and compute_threshold (threshold.hpp)*)
(* which sums the postings of a document and offers the sums.              *)
(*                                                                         *)
(* The ranges are kept in order: after the front has advanced it moves     *)
(* back past the ranges it is no longer before.                            *)
(***************************************************************************)
EXTENDS Retrieval

VARIABLES
  pos_,    (* UnionIterator: the postings consumed                         *)
  group    (* current_id and the score so far, while a group is summed     *)

union_vars == <<pos_, group>>

length_ == SumFunction([t \in DOMAIN query |-> Len(query[t])])

(* std::sort.  It leaves the order of ranges at the same document open,    *)
(* and up to 16 ranges are insertion-sorted, which puts the empty ranges   *)
(* last although order is no strict order between them.                    *)
Sortings ==
  { s \in { [i \in DOMAIN query |-> Whole[p[i]]] : p \in Bijection(DOMAIN query, DOMAIN query) } :
      \A i, j \in DOMAIN s : i < j => empty(s[j]) \/ (~empty(s[i]) /\ ~order(s[j], s[i])) }

UnionInit ==
  /\ RetrievalInit
  /\ ranges \in Sortings
  /\ pos_ = 0
  /\ group = << >>

(* A slip that RangesInOrder catches: the front moves back by one only.    *)
Bubbled_once(rs) ==
  IF Len(rs) > 1 /\ ~order(rs[1], rs[2])
  THEN <<rs[2], rs[1]>> \o SubSeq(rs, 3, Len(rs))
  ELSE rs

(* The front, moved back until it is before the next range.                *)
Bubbled(rs) ==
  LET stop  == { i \in 2..Len(rs) : order(rs[1], rs[i]) }
      place == IF stop = {} THEN Len(rs) ELSE Min(stop) - 1
  IN  SubSeq(rs, 2, place) \o <<rs[1]>> \o SubSeq(rs, place + 1, Len(rs))

increment ==
  /\ ranges' = Bubbled([ranges EXCEPT ![1] = advance(@)])
  /\ pos_' = pos_ + 1

AtEnd == pos_ = length_

StartGroup ==
  /\ group = << >> /\ ~AtEnd
  /\ group' = <<[document |-> front(ranges[1]).document, score |-> 0]>>
  /\ UNCHANGED <<query, ranges, pos_>> /\ UNCHANGED accumulator

(* accumulate_while goes on.                                               *)
InGroup(g) == ~AtEnd /\ front(ranges[1]).document = g.document

AddPosting ==
  \E g \in Range(group) :
    /\ InGroup(g)
    /\ group' = <<[g EXCEPT !.score = @ + score_fn(ranges[1].term, front(ranges[1]))]>>
    /\ increment
    /\ UNCHANGED query /\ UNCHANGED accumulator

OfferGroup ==
  \E g \in Range(group) :
    /\ ~InGroup(g)
    /\ accumulate(g.document, g.score)
    /\ group' = << >>
    /\ UNCHANGED <<query, ranges, pos_>>

UnionNext == StartGroup \/ AddPosting \/ OfferGroup

-----------------------------------------------------------------------------
(* The ranges stay sorted, the empty ones last, and pos_ counts what they  *)
(* have consumed: the front can be read until the end is reached.          *)
UnionIsOrdered ==
  /\ \A i, j \in DOMAIN ranges : i < j =>
       empty(ranges[j]) \/ (~empty(ranges[i]) /\ ~order(ranges[j], ranges[i]))
  /\ pos_ = SumFunction([i \in DOMAIN ranges |-> ranges[i].left - 1])
  /\ ~AtEnd => ~empty(ranges[1])
=============================================================================
