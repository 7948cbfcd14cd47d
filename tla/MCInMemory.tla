----------------------------- MODULE MCInMemory -----------------------------
(***************************************************************************)
(* Checks the two structures that are filled in memory, call by call: the  *)
(* accumulator of a query (TopKHeap) on every sequence of at most          *)
(* MaxOffers offers, and the builder of a batch (IndexBuilder) on every    *)
(* batch of at most MaxOccurrences words.  filling says which of them runs.*)
(***************************************************************************)
EXTENDS TopKHeap, IndexBuilder

CONSTANTS
  MaxOffers,       (* bound on the offers of a query         *)
  MaxOccurrences   (* bound on the words added to the builder *)

VARIABLE filling

MCValues == -1..3
MCLowest == -1

accumulator_vars == <<vars, top_>>

MCInit == filling \in {"accumulator", "builder"} /\ HeapInit /\ BuilderInit

MCNext ==
  /\ UNCHANGED filling
  /\ \/ /\ filling = "accumulator" /\ Len(seen) < MaxOffers
        /\ HeapNext /\ UNCHANGED builder_vars
     \/ /\ filling = "builder" /\ BuilderNext /\ all_occurrences' <= MaxOccurrences
        /\ UNCHANGED accumulator_vars

MCSpec == MCInit /\ [][MCNext]_<<filling, accumulator_vars, builder_vars>>
=============================================================================
