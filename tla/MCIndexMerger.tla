---------------------------- MODULE MCIndexMerger ----------------------------
(* Checks IndexMerger on every collection of a few documents: each is a set *)
(* of words of TermSet, and the batches have BatchSizes[b] documents.       *)
EXTENDS TermMergeHeap, FiniteSets, FiniteSetsExt, SequencesExt

CONSTANTS
  TermSet,     (* the words of the documents                                *)
  batch_block  (* the block size the batches were built with                *)

BatchSizes == <<2, 1, 1>>

Total(s) == FoldLeft(+, 0, s)
SizesTotal(n) == Total(SubSeq(BatchSizes, 1, n))
Collections == [0..(SizesTotal(Len(BatchSizes)) - 1) -> SUBSET TermSet \ {{}}]

(* How often a word occurs in a document, so that the counts differ.        *)
Count(d, t) == IF (d + t) % 2 = 0 THEN 1 ELSE 2

(* The index of batch b, as IndexBuilder writes it.                         *)
Index(collection, b) ==
  LET docs     == SizesTotal(b - 1)..(SizesTotal(b) - 1)
      terms    == SetToSortSeq(UNION { collection[d] : d \in docs }, <)
      lists    == [r \in DOMAIN terms |->
                     SetToSortSeq({ d \in docs : terms[r] \in collection[d] }, <)]
      counts   == [r \in DOMAIN terms |->
                     [i \in DOMAIN lists[r] |-> Count(lists[r][i], terms[r])]]
  IN  [ terms       |-> terms,
        documents   |-> lists,
        counts      |-> counts,
        dfs         |-> [r \in DOMAIN terms |-> Len(lists[r])],
        occurrences |-> [r \in DOMAIN terms |-> Total(counts[r])],
        titles      |-> SetToSortSeq(docs, <),
        sizes       |-> [i \in 1..BatchSizes[b] |->
                           LET d == SizesTotal(b - 1) + i - 1
                           IN  FoldSet(LAMBDA t, n : n + Count(d, t), 0, collection[d])],
        block       |-> batch_block ]

MCInputs ==
  { [b \in DOMAIN BatchSizes |-> Index(collection, b)] : collection \in Collections }

MCFiles == { TermsOf(batches) : batches \in MCInputs }

-----------------------------------------------------------------------------
(* See IndexMerger.                                                         *)
OneRowPerTerm == Merger!OneRowPerTerm
=============================================================================
