------------------------------ MODULE TermMerge ------------------------------
(***************************************************************************)
(* What merging the sorted term files of several batch indices must do     *)
(* with the rows of those files, whatever heap picks the next term: every  *)
(* step takes the current row of some batches, all of one term, and writes *)
(* them as one row of the merged index.                                    *)
(*                                                                         *)
(* IndexMerger, with its heap, is shown to implement Spec.  MergeLeast is  *)
(* the step of a merge whose heap really is one; see OrderedSpec.          *)
(***************************************************************************)
EXTENDS Integers, Sequences

CONSTANT Files  (* the term files that may be merged: sequences, one for   *)
                (* each batch, of the sequence of its terms                *)

ASSUME FilesAssumption == Files \subseteq Seq(Seq(Int))

VARIABLES
  rows,    (* rows[b]: the terms of batch b, in the order of its file      *)
  cursor,  (* cursor[b]: the row of batch b that is merged next            *)
  merged   (* the rows written: a term and the batch rows it was made of   *)

vars == <<rows, cursor, merged>>

Batches == DOMAIN rows

(* The batches that have a row left, and the term of that row.             *)
Waiting == { b \in Batches : cursor[b] <= Len(rows[b]) }
Current(b) == rows[b][cursor[b]]

Init ==
  /\ rows \in Files
  /\ cursor = [b \in Batches |-> 1]
  /\ merged = << >>

Merge(from) ==
  /\ \A b, c \in from : Current(b) = Current(c)
  /\ cursor' = [b \in Batches |-> IF b \in from THEN cursor[b] + 1 ELSE cursor[b]]
  /\ \E b \in from :
       merged' = Append(merged, [term |-> Current(b),
                                 from |-> { <<c, cursor[c]>> : c \in from }])
  /\ UNCHANGED rows

(* The step of any merge, and of one that takes all rows of a least term.  *)
MergeSome  == \E from \in SUBSET Waiting : Merge(from)

MergeLeast ==
  \E b \in Waiting :
    /\ \A c \in Waiting : Current(b) <= Current(c)
    /\ Merge({ c \in Waiting : Current(c) = Current(b) })

Spec        == Init /\ [][MergeSome]_vars
OrderedSpec == Init /\ [][MergeLeast]_vars

-----------------------------------------------------------------------------
TypeOK ==
  /\ rows \in Files
  /\ cursor \in [Batches -> Nat \ {0}]
  /\ merged \in Seq([term : Int, from : SUBSET (Batches \X (Nat \ {0}))])

(* Every row of a batch before its cursor, and no other, is part of a      *)
(* merged row, of exactly one, and that row has its term.                  *)
EveryRowOnce ==
  \A b \in Batches : \A r \in 1..Len(rows[b]) :
    /\ r < cursor[b] <=> \E m \in DOMAIN merged : <<b, r>> \in merged[m].from
    /\ \A m, n \in DOMAIN merged :
         <<b, r>> \in merged[m].from \cap merged[n].from => m = n
    /\ \A m \in DOMAIN merged :
         <<b, r>> \in merged[m].from => merged[m].term = rows[b][r]

(* The batches' own term files are sorted, without repetitions.            *)
RowsAreSorted ==
  \A b \in Batches : \A r, s \in 1..Len(rows[b]) : r < s => rows[b][r] < rows[b][s]

(* The merged terms are sorted without repetitions: a lexicon can be built *)
(* from them, and a term's row is all there is about it.  Holds of         *)
(* OrderedSpec, when the batches are sorted.                               *)
TermsAscend ==
  \A m, n \in DOMAIN merged : m < n => merged[m].term < merged[n].term
=============================================================================
