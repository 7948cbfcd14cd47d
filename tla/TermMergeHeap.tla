---------------------------- MODULE TermMergeHeap ----------------------------
(***************************************************************************)
(* TermMerge and IndexMerger side by side: rows and cursor are defined by  *)
(* the batches and by the heap, so that the properties of TermMerge speak  *)
(* of the merger.                                                          *)
(***************************************************************************)
EXTENDS TermMerge

CONSTANTS Inputs, block_size   (* see IndexMerger *)

VARIABLES indices, phase, heap, out, offsets, copying

Merger == INSTANCE IndexMerger

(* The term files of the batches.                                          *)
TermsOf(batches) == [b \in DOMAIN batches |-> batches[b].terms]

(* merge_terms() starts by reading the first term of every batch, and a    *)
(* batch is only written when it has documents.  Its files agree, as they  *)
(* are written from one builder.                                           *)
ASSUME BatchesAssumption ==
  /\ Inputs \subseteq Seq(Merger!BatchIndex)
  /\ Files = { TermsOf(batches) : batches \in Inputs }
  /\ \A batches \in Inputs : Merger!AreBatches(batches)

MergerInit ==
  /\ Merger!Init
  /\ rows = TermsOf(indices)
  /\ cursor = [b \in DOMAIN indices |-> 1]

MergerNext ==
  /\ Merger!Next
  /\ rows' = TermsOf(indices')
  /\ cursor' = [b \in DOMAIN indices' |-> Merger!CursorOf(b)']

MergerSpec == MergerInit /\ [][MergerNext]_<<Merger!vars, rows, cursor>>

-----------------------------------------------------------------------------
(* Every step of the merger is one that TermMerge allows.                   *)
ImplementsTermMerge == Spec

(* If the first terms happen to form a heap as they are appended, every     *)
(* step merges the rows of a least term, as in OrderedSpec: everything      *)
(* after the initialization keeps a heap.                                   *)
OrderedIfHeap == [][Merger!StartsAsHeap => MergeLeast]_<<rows, cursor, merged>>

(* Postings are neither lost nor repeated, and the merged files agree: see  *)
(* IndexMerger.                                                             *)
EveryPostingOnce == Merger!EveryPostingOnce
FilesAgree       == Merger!FilesAgree
=============================================================================
