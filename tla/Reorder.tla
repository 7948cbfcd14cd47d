------------------------------- MODULE Reorder -------------------------------
(***************************************************************************)
(* irk::reorder (index/reorder.hpp): an index whose documents are numbered *)
(* by a permutation.  A document that the permutation leaves out is        *)
(* removed, a term is never: its row may become empty.                     *)
(***************************************************************************)
EXTENDS IndexImage

VARIABLES
  permutation,   (* the documents to keep, in their new order              *)
  output,        (* the files of the new index                             *)
  reordered      (* the terms whose postings are written                   *)

reorder_vars == <<permutation, output, reordered>>

ReorderInit ==
  /\ input \in Indexes
  /\ permutation \in { p \in SeqOf(Documents, Len(input.titles)) :
                         p # << >> /\ IsInjective(p) }
  /\ output = [titles |-> << >>, sizes |-> << >>, rows |-> << >>, term_occurrences |-> << >>]
  /\ reordered = 0

(* titles() and sizes(), which are written before the postings.            *)
reorder_tables ==
  /\ output.titles = << >>
  /\ output' = [output EXCEPT
       !.titles = [i \in DOMAIN permutation |-> input.titles[permutation[i] + 1]],
       !.sizes  = [i \in DOMAIN permutation |-> input.sizes[permutation[i] + 1]]]
  /\ UNCHANGED <<permutation, reordered>>

(* docmap(): the new number of a document that is kept.                    *)
docmap(document) == (CHOOSE i \in DOMAIN permutation : permutation[i] = document) - 1

(* compute_mask(): the positions in the row of the postings to keep, by    *)
(* the new numbers of their documents.                                     *)
Mask(row) ==
  SetToSortSeq({ i \in DOMAIN row : row[i].document \in Range(permutation) },
               LAMBDA i, j : docmap(row[i].document) < docmap(row[j].document))

(* A slip that ReorderedIsRelabelled catches: the payloads stay in the     *)
(* order that the list had.                                                *)
MaskedRow_payloads_in_order(row) ==
  LET mask == Mask(row)
      kept == SelectSeq(row, LAMBDA p : p.document \in Range(permutation))
  IN  [i \in DOMAIN mask |-> [kept[i] EXCEPT !.document = docmap(row[mask[i]].document)]]

(* write_document_list(), write_freq_list() and write_score_list() through *)
(* the same mask.                                                          *)
MaskedRow(row) ==
  LET mask == Mask(row)
  IN  [i \in DOMAIN mask |-> [row[mask[i]] EXCEPT !.document = docmap(@)]]

reorder_term ==
  /\ output.titles # << >>
  /\ reordered < Len(input.rows)
  /\ LET row == MaskedRow(input.rows[reordered + 1])
     IN  output' = [output EXCEPT
           !.rows = Append(@, row),
           !.term_occurrences = Append(@, Occurrences(row))]
  /\ reordered' = reordered + 1
  /\ UNCHANGED permutation

ReorderNext ==
  /\ reorder_tables \/ reorder_term
  /\ UNCHANGED input

-----------------------------------------------------------------------------
(* Reordering changes the numbers of documents and nothing else: a row has *)
(* the postings of the documents that are kept, with their payloads, in    *)
(* increasing order of the new numbers.                                    *)
ReorderedIsRelabelled ==
  /\ IsIndex(output)
  /\ \A t \in 1..reordered :
       /\ Described(output.titles, output.rows[t])
            = { p \in Described(input.titles, input.rows[t]) : p.title \in Range(output.titles) }
       /\ output.term_occurrences[t] = Occurrences(output.rows[t])
=============================================================================
