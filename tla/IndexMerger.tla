----------------------------- MODULE IndexMerger -----------------------------
(***************************************************************************)
(* irk::basic_index_merger (index/merger.hpp): the batch indices of a      *)
(* collection are merged into one, a term at a time, by a heap of one      *)
(* entry per batch.                                                        *)
(*                                                                         *)
(* Batches and rows count from 1, documents from 0.  A term is an integer, *)
(* its rank in lexicographic order.  A list of the document or count file  *)
(* is its values and the block size it was encoded with.                   *)
(***************************************************************************)
EXTENDS Integers, FiniteSets, Sequences, SequencesExt

CONSTANTS
  Inputs,     (* sequences of BatchIndex that merging may start from       *)
  block_size  (* block_size_, the -s of the command line                   *)

(* A batch index: its files, and the block size its lists were made with.  *)
BatchIndex ==
  [ terms : Seq(Int), documents : Seq(Seq(Nat)), counts : Seq(Seq(Nat)),
    dfs : Seq(Nat), occurrences : Seq(Nat),
    titles : Seq(Nat), sizes : Seq(Nat), block : Nat \ {0} ]

VARIABLES
  indices,   (* indices_ (with sources_), as constructed                   *)
  phase,     (* the part of merge() that comes next                        *)
  heap,      (* heap_                                                      *)
  out,       (* the files of the merged index                              *)
  offsets,   (* doc_ids_off_, doc_counts_off_, doc_offset_, count_offset_  *)
  copying,   (* the batches whose sizes are still to be copied             *)
  merged     (* history: the term, and the batches' rows, of each row      *)

vars == <<indices, phase, heap, out, offsets, copying, merged>>

Sum(s) == FoldLeft(+, 0, s)

collection_size(index) == Len(index.sizes)
term_count(index)      == Len(index.terms)

(* What Standard_Block_List_Builder::write returns, the length in bytes of *)
(* a list.  Only that lengths add up matters, and that they differ.        *)
DocumentBytes(list) == 2 * Len(list.values) + 1
CountBytes(list)    == Len(list.values) + 1

-----------------------------------------------------------------------------
(* The constructor opens the indices; merge() starts with the titles.      *)
Init ==
  /\ indices \in Inputs
  /\ phase = "titles"
  /\ heap = << >>
  /\ out = [ terms |-> << >>, documents |-> << >>, counts |-> << >>,
             dfs |-> << >>, occurrences |-> << >>, titles |-> << >>,
             sizes |-> << >>, properties |-> << >> ]
  /\ offsets = [ documents |-> << >>, counts |-> << >>, doc |-> 0, count |-> 0 ]
  /\ copying = {}
  /\ merged = << >>

(* entry::operator<: the heap has the least term in front.                 *)
Less(lhs, rhs) == lhs.term > rhs.term

Heap == INSTANCE StdHeap

(* The documents of the batches before a batch.                            *)
Shift(b) == Sum([c \in 1..(b - 1) |-> collection_size(indices[c])])

Entry(b, row) ==
  [index_id |-> b, term_id |-> row, shift |-> Shift(b), term |-> indices[b].terms[row]]

(* merge_titles(), then the start of merge_terms(): everyone starts with   *)
(* the first term.  The entries are appended in the order of the batches   *)
(* and nothing makes a heap of them.                                       *)
merge_titles ==
  /\ phase = "titles"
  /\ phase' = "terms"
  /\ out' = [out EXCEPT !.titles = FlattenSeq([b \in DOMAIN indices |-> indices[b].titles])]
  /\ heap' = [b \in DOMAIN indices |-> Entry(b, 1)]
  /\ UNCHANGED <<indices, offsets, copying, merged>>

(* The heap after n times pop_heap and pop_back.                           *)
Popped(n) ==
  LET after[m \in 0..n] ==
        IF m = 0 THEN heap ELSE Front(Heap!PopHeap(after[m - 1]))
  IN  after[n]

(* indices_with_next_term() pops while the front has the first one's term. *)
(* A slip that EveryRowOnce catches: pops all that there is.               *)
NextCount_all == Len(heap)

NextCount ==
  CHOOSE n \in 1..Len(heap) :
    /\ \A m \in 0..(n - 1) : Popped(m)[1].term = heap[1].term
    /\ Popped(n) # << >> => Popped(n)[1].term # heap[1].term
indices_with_next_term == [m \in 1..NextCount |-> Popped(m - 1)[1]]

(* A slip that FilesAgree catches: left in the order of the heap.           *)
SortedByShift_not(entries) == entries

(* merge_term() leaves the entries sorted by shift, unless there is one.   *)
(* The shifts are different: every batch has documents.                    *)
SortedByShift(entries) ==
  CHOOSE sorted \in [DOMAIN entries -> ToSet(entries)] :
    /\ ToSet(sorted) = ToSet(entries)
    /\ \A i, j \in DOMAIN sorted : i < j => sorted[i].shift < sorted[j].shift

(* copy_term(): the two lists and the frequency as they are in the batch.  *)
CopiedRow(e) ==
  LET index == indices[e.index_id]
  IN  [ documents |-> [block |-> index.block, values |-> index.documents[e.term_id]],
        counts    |-> [block |-> index.block, values |-> index.counts[e.term_id]],
        df        |-> index.dfs[e.term_id] ]

(* merge_term() of several entries: the lists in the order of the shifts.  *)
MergedRow(entries) ==
  LET join(file(_)) ==
        FlattenSeq([i \in DOMAIN entries |->
                      file(indices[entries[i].index_id])[entries[i].term_id]])
      documents == join(LAMBDA index : index.documents)
  IN  [ documents |-> [block |-> block_size, values |-> documents],
        counts    |-> [block |-> block_size, values |-> join(LAMBDA index : index.counts)],
        df        |-> Len(documents) ]

TermOccurrences(entries) ==
  Sum([i \in DOMAIN entries |-> indices[entries[i].index_id].occurrences[entries[i].term_id]])

(* A slip that EveryPostingOnce catches: the last term of a batch is lost. *)
PushNext_early(h, e) ==
  IF e.term_id + 1 < term_count(indices[e.index_id])
  THEN Heap!PushHeap(Append(h, Entry(e.index_id, e.term_id + 1)))
  ELSE h

(* A slip that OrderedIfHeap catches: appended, and not pushed.            *)
PushNext_appending(h, e) ==
  IF e.term_id + 1 <= term_count(indices[e.index_id])
  THEN Append(h, Entry(e.index_id, e.term_id + 1))
  ELSE h

(* The entry's batch goes on with its next term, if it has one.            *)
PushNext(h, e) ==
  IF e.term_id + 1 <= term_count(indices[e.index_id])
  THEN Heap!PushHeap(Append(h, Entry(e.index_id, e.term_id + 1)))
  ELSE h

(* The heap after that, for each of the entries that were merged.          *)
Pushed(h, entries) ==
  LET after[m \in 0..Len(entries)] ==
        IF m = 0 THEN h ELSE PushNext(after[m - 1], entries[m])
  IN  after[Len(entries)]

(* A slip that FilesAgree catches: the second offset advances by the    *)
(* bytes of the first file.                                                *)
NextOffsets_mixed(row) ==
  [ documents |-> Append(offsets.documents, offsets.doc),
    counts    |-> Append(offsets.counts, offsets.count),
    doc       |-> offsets.doc + DocumentBytes(row.documents),
    count     |-> offsets.count + DocumentBytes(row.documents) ]

(* The lists of a row start where those of the row before end.             *)
NextOffsets(row) ==
  [ documents |-> Append(offsets.documents, offsets.doc),
    counts    |-> Append(offsets.counts, offsets.count),
    doc       |-> offsets.doc + DocumentBytes(row.documents),
    count     |-> offsets.count + CountBytes(row.counts) ]

(* One iteration of the loop of merge_terms().                             *)
merge_term ==
  /\ phase = "terms" /\ heap # << >>
  /\ \E entries \in { SortedByShift(indices_with_next_term) }, rest \in { Popped(NextCount) } :
     LET row == IF Len(entries) = 1 THEN CopiedRow(entries[1]) ELSE MergedRow(entries)
     IN  /\ out' = [out EXCEPT !.terms       = Append(@, heap[1].term),
                               !.documents   = Append(@, row.documents),
                               !.counts      = Append(@, row.counts),
                               !.dfs         = Append(@, row.df),
                               !.occurrences = Append(@, TermOccurrences(entries))]
         /\ offsets' = NextOffsets(row)
         /\ heap' = Pushed(rest, entries)
         /\ merged' = Append(merged, [ term |-> heap[1].term,
                                       from |-> { <<e.index_id, e.term_id>> :
                                                    e \in ToSet(entries) } ])
  /\ UNCHANGED <<indices, phase, copying>>

(* The end of merge_terms() and the start of merge_sizes(): a vector of    *)
(* zeros, and one parallel task for each batch.                            *)
allocate_sizes ==
  /\ phase = "terms" /\ heap = << >>
  /\ phase' = "sizes"
  /\ out' = [out EXCEPT !.sizes = [d \in 1..Shift(Len(indices) + 1) |-> 0]]
  /\ copying' = DOMAIN indices
  /\ UNCHANGED <<indices, heap, offsets, merged>>

(* A slip that FilesAgree catches: the batches before, without this    *)
(* one.                                                                    *)
PartialCount_before(b) == Shift(b)

(* partial_count: the documents of a batch and of those before it.         *)
PartialCount(b) == Shift(b + 1)

(* The task of one batch: its sizes go where its documents start, which    *)
(* the task computes as the end of the batch less its length.              *)
copy_sizes(b) ==
  /\ phase = "sizes" /\ b \in copying
  /\ LET sizes  == indices[b].sizes
         offset == PartialCount(b) - Len(sizes)
     IN  out' = [out EXCEPT !.sizes =
                   [d \in DOMAIN @ |-> IF d - offset \in DOMAIN sizes
                                       THEN sizes[d - offset] ELSE @[d]]]
  /\ copying' = copying \ {b}
  /\ UNCHANGED <<indices, phase, heap, offsets, merged>>

(* The rest of merge_sizes() and write_properties(); the average is kept   *)
(* as a ratio.                                                             *)
write_properties ==
  /\ phase = "sizes" /\ copying = {}
  /\ phase' = "done"
  /\ out' = [out EXCEPT !.properties =
               << [ documents |-> Len(out.sizes), occurrences |-> Sum(out.occurrences),
                    skip_block_size |-> block_size,
                    avg_document_size |-> << Sum(out.sizes), Len(out.sizes) >>,
                    max_document_size |-> CHOOSE m \in ToSet(out.sizes) :
                                            \A s \in ToSet(out.sizes) : s <= m ] >>]
  /\ UNCHANGED <<indices, heap, offsets, copying, merged>>

(* merge() has returned: the only state in which nothing is left to do.    *)
Returned == phase = "done" /\ UNCHANGED vars

Next ==
  \/ merge_titles
  \/ merge_term
  \/ allocate_sizes
  \/ \E b \in copying : copy_sizes(b)
  \/ write_properties
  \/ Returned

Spec == Init /\ [][Next]_vars

-----------------------------------------------------------------------------
(* What the documents and counts of a row say, and how often they say it   *)
(* of a document.                                                          *)
PairsIn(documents, counts) == { <<documents[i], counts[i]>> : i \in DOMAIN documents }
CountIn(documents, counts, d) ==
  Sum([i \in DOMAIN counts |-> IF documents[i] = d THEN counts[i] ELSE 0])

(* A row as IndexBuilder writes it (see its properties): as many counts as *)
(* documents, documents that increase, their number and the occurrences.   *)
IsRow(documents, counts, df, occurrences) ==
  /\ Len(counts) = Len(documents)
  /\ \A i, j \in DOMAIN documents : i < j => documents[i] < documents[j]
  /\ df = Len(documents)
  /\ occurrences = Sum(counts)

(* A batch index as it is written for documents numbered from first on: a  *)
(* row in each file for each of its terms, and the size of a document is   *)
(* the sum of its counts.                                                  *)
IsBatch(index, first) ==
  LET rows == DOMAIN index.terms
  IN  /\ index.terms # << >> /\ index.sizes # << >>
      /\ \A r, s \in rows : r # s => index.terms[r] # index.terms[s]
      /\ \A file \in {index.documents, index.counts} : Len(file) = Len(index.terms)
      /\ \A file \in {index.dfs, index.occurrences} : Len(file) = Len(index.terms)
      /\ \A r \in rows :
           /\ IsRow(index.documents[r], index.counts[r], index.dfs[r], index.occurrences[r])
           /\ \A i \in DOMAIN index.documents[r] :
                index.documents[r][i] \in first..(first + Len(index.sizes) - 1)
      /\ index.titles = [i \in DOMAIN index.sizes |-> first + i - 1]
      /\ \A i \in DOMAIN index.sizes :
           index.sizes[i] = Sum([r \in rows |-> CountIn(index.documents[r], index.counts[r], first + i - 1)])

(* Batches of one collection, each going on where the one before ends.     *)
AreBatches(batches) ==
  \A b \in DOMAIN batches :
    IsBatch(batches[b], Sum([c \in 1..(b - 1) |-> collection_size(batches[c])]))

TypeOK ==
  /\ indices \in Seq(BatchIndex)
  /\ phase \in {"titles", "terms", "sizes", "done"}
  /\ heap \in Seq([index_id : DOMAIN indices, term_id : Nat \ {0}, shift : Nat, term : Int])
  /\ Len(out.terms) = Len(merged)
  /\ offsets.doc \in Nat /\ offsets.count \in Nat
  /\ copying \subseteq DOMAIN indices

(* What the batches say of a term, with the document they say it of.       *)
Postings(t) ==
  UNION { UNION { PairsIn(indices[batch].documents[r], indices[batch].counts[r]) :
                  r \in { r \in DOMAIN indices[batch].terms : indices[batch].terms[r] = t } } :
          batch \in DOMAIN indices }

(* A row, in full, of the merged index, written as the batches' postings.  *)
RowPostings(m) == PairsIn(out.documents[m].values, out.counts[m].values)

(* Every posting of the batches is in the merged index once the terms are  *)
(* merged, nothing else is, and no two rows share one: also when the heap  *)
(* was none and a term got several rows.                                   *)
EveryPostingOnce ==
  /\ phase \in {"sizes", "done"} =>
       \A t \in UNION { ToSet(indices[b].terms) : b \in DOMAIN indices } :
         Postings(t) = UNION { RowPostings(m) : m \in { m \in DOMAIN out.terms : out.terms[m] = t } }
  /\ \A m, n \in DOMAIN out.terms :
       m # n /\ out.terms[m] = out.terms[n] => RowPostings(m) \cap RowPostings(n) = {}

(* A row's files agree: as many counts as documents, the documents         *)
(* increasing (they are written as differences), the document frequency    *)
(* their number and the occurrences the sum of the counts.                 *)
RowsAgree ==
  \A m \in DOMAIN out.terms :
    IsRow(out.documents[m].values, out.counts[m].values, out.dfs[m], out.occurrences[m])

(* The offset of a row is the length of the lists written before it, in    *)
(* the document file as well as in the count file.                         *)
OffsetsLocate ==
  \A m \in DOMAIN out.terms :
    /\ offsets.documents[m] = Sum([n \in 1..(m - 1) |-> DocumentBytes(out.documents[n])])
    /\ offsets.counts[m] = Sum([n \in 1..(m - 1) |-> CountBytes(out.counts[n])])

(* In a finished index the size of a document is the sum of its counts,    *)
(* so that lists and sizes number the documents alike, and the titles have *)
(* the order of the documents; the occurrences of the collection are the   *)
(* sum of the sizes.                                                       *)
CountsOf(d) ==
  Sum([m \in DOMAIN out.terms |-> CountIn(out.documents[m].values, out.counts[m].values, d)])
DocumentsAgree ==
  phase = "done" =>
    /\ Len(out.titles) = Len(out.sizes)
    /\ \A d \in DOMAIN out.sizes : out.sizes[d] = CountsOf(d - 1) /\ out.titles[d] = d - 1
    /\ out.properties[1].occurrences = Sum(out.sizes)

(* The files of the index agree: within each row, with the offsets of the  *)
(* rows, and with titles, sizes and occurrences of the documents.          *)
FilesAgree == RowsAgree /\ OffsetsLocate /\ DocumentsAgree

(* Whether the first terms happen to form a heap as they are appended.     *)
StartsAsHeap == Heap!IsHeap([b \in DOMAIN indices |-> Entry(b, 1)])

(* A term is in one row, of any collection: the comment at the start of    *)
(* merge_terms() says that a heap is initialized.                          *)
OneRowPerTerm ==
  \A m, n \in DOMAIN out.terms : m # n => out.terms[m] # out.terms[n]

(* How far a batch is merged: its entry's row, or the end without one.     *)
CursorOf(b) ==
  IF phase = "titles" THEN 1
  ELSE IF \E i \in DOMAIN heap : heap[i].index_id = b
       THEN heap[CHOOSE i \in DOMAIN heap : heap[i].index_id = b].term_id
       ELSE term_count(indices[b]) + 1
=============================================================================
