-------------------------------- MODULE Taat --------------------------------
(***************************************************************************)
(* taat (algorithm/query.hpp, taat.hpp): term-at-a-time traversal.  Each   *)
(* list is added to an array of accumulators, and then the array is        *)
(* offered to the top-k accumulator.  With a block_accumulator_vector the  *)
(* highest value that a block has held is kept too, and a block that       *)
(* cannot beat the threshold is skipped.                                   *)
(***************************************************************************)
EXTENDS Retrieval

CONSTANT block_size  (* documents per block of accumulators *)

ASSUME BlockAssumption == block_size \in Nat \ {0}

VARIABLES
  blocked,       (* whether the vector of accumulators is a blocked one    *)
  accumulators,
  max_values,
  term,          (* the list to add next                                   *)
  key            (* the accumulator to offer next                          *)

taat_vars == <<blocked, accumulators, max_values, term, key>>

Block(document) == document \div block_size

Blocks == { Block(d) : d \in Documents }

TaatInit ==
  /\ RetrievalInit
  /\ ranges = << >>
  /\ blocked \in BOOLEAN
  /\ accumulators = [d \in Documents |-> 0]
  /\ max_values = [b \in Blocks |-> 0]
  /\ term = 1
  /\ key = 0

(* A slip that SkippedAreWorthless catches: the bound is raised by what is     *)
(* added, not by what the accumulator has become.                          *)
RaisedMax_addend(sums) ==
  [b \in Blocks |->
     Max({max_values[b]} \cup { sums[d] - accumulators[d] : d \in { e \in Documents : Block(e) = b } })]

(* reference::operator+= raises the bound of the block to the new value.   *)
RaisedMax(sums) ==
  [b \in Blocks |->
     Max({max_values[b]} \cup
         { sums[query[term][i].document] :
             i \in { j \in DOMAIN query[term] : Block(query[term][j].document) = b } })]

AccumulateList ==
  /\ term <= Len(query)
  /\ accumulators' = [d \in Documents |-> accumulators[d] + ScoreIn(query, term, d)]
  /\ max_values' = RaisedMax(accumulators')
  /\ term' = term + 1
  /\ UNCHANGED <<query, blocked, key>> /\ UNCHANGED accumulator

(* A slip that SkippedAreWorthless catches: < the wrong way round.         *)
Skippable_reversed == blocked /\ key % block_size = 0 /\ threshold_ < max_values[Block(key)]

(* The test at the first accumulator of a block.                           *)
Skippable == blocked /\ key % block_size = 0 /\ max_values[Block(key)] < threshold_

SkipBlock ==
  /\ term > Len(query) /\ key < CollectionSize
  /\ Skippable
  /\ key' = Min({key + block_size, CollectionSize})
  /\ UNCHANGED <<query, blocked, accumulators, max_values, term>> /\ UNCHANGED accumulator

OfferAccumulator ==
  /\ term > Len(query) /\ key < CollectionSize
  /\ ~Skippable
  /\ accumulate(key, accumulators[key])
  /\ key' = key + 1
  /\ UNCHANGED <<query, blocked, accumulators, max_values, term>>

TaatNext ==
  /\ AccumulateList \/ SkipBlock \/ OfferAccumulator
  /\ UNCHANGED ranges

-----------------------------------------------------------------------------
(* The value kept for a block bounds every accumulator of it, also when a  *)
(* term with negative scores takes an accumulator down again.              *)
BlockMaxIsBound == \A d \in DOMAIN accumulators : accumulators[d] <= max_values[Block(d)]

(* So a document that was passed over with its block could not have        *)
(* changed the answer: it scores nothing, or too little for the threshold  *)
(* that the documents offered since have made.                             *)
SkippedAreWorthless ==
  /\ BlockMaxIsBound
  /\ \A d \in Worthy : (d < key /\ d \notin Range(offered)) => Score(d) <= threshold_
=============================================================================
