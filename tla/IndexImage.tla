----------------------------- MODULE IndexImage -----------------------------
(***************************************************************************)
(* What Partition and Reorder read: an index as inverted_index_view shows  *)
(* it.  Documents are numbered from 0 and named by titles; rows[t] is the  *)
(* list of term t's postings, document and payloads side by side.          *)
(***************************************************************************)
EXTENDS Integers, Sequences, FiniteSets, FiniteSetsExt, SequencesExt, Functions

CONSTANT Indexes

IsIndex(index) ==
  /\ Len(index.sizes) = Len(index.titles)
  /\ IsInjective(index.titles)
  /\ \A t \in DOMAIN index.rows : \A i \in DOMAIN index.rows[t] :
       /\ index.rows[t][i].document \in 0..(Len(index.titles) - 1)
       /\ i > 1 => index.rows[t][i - 1].document < index.rows[t][i].document

ASSUME IndexesAssumption == \A index \in Indexes : IsIndex(index)

VARIABLE input   (* the index in input_dir *)

Documents == 0..(Len(input.titles) - 1)

Total(s) == FoldLeft(+, 0, s)

Occurrences(row) == Total([i \in DOMAIN row |-> row[i].freq])

(* The postings of a row, by what they are to a user: titles of documents. *)
Described(titles, row) ==
  { [title |-> titles[row[i].document + 1], freq |-> row[i].freq, score |-> row[i].score] :
      i \in DOMAIN row }
=============================================================================
