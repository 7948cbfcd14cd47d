# irkit in TLA+

[irkit](../src/README.md) builds and queries inverted indices. This directory holds
TLA+ modules that follow its C++ code, the TLC runs that check them on small
instances, and proofs that TLAPS checks for every value of the constants.
Paths below are relative to `src/include/irkit/` unless they begin with `src/`.

irkit is a set of libraries and command-line tools. Its concurrency is in parallel
standard algorithms (the batches' sizes are copied by one task each, the range of scores is
reduced in parts) and in tools run at the same time on one index directory. What makes it hard to
test is mostly elsewhere: heaps and cursors that move at different paces, numbers
that are assigned anew in every transformation of an index, two paths that must write
the same bytes, files left over by a program that was killed or is still writing, and boundaries
of blocks, of bytes and of shifts.

## 1. The system

    collection --> index assembler --> batches on disk --> index merger --> index
                     (index builder)                                         |
         +------------------------+-----------------------+------------------+
         v                        v                       v
      reorder                 partition               posting lists
         |                        |                       |
         v                        v                       v
       index             shards, a cluster  --->   query processing --> top-k accumulator
                                                    ^           |
                                 scores (irk-score) |           v
                                              scorers     tools that query and inspect

| Component | State | Operations | Correct when |
|---|---|---|---|
| **top-k accumulator** (`utils.hpp`) | a vector kept as a min-heap, `k_`, `threshold_` | `accumulate`, `sorted`, `threshold` | it holds *k* best of what was offered, and once there are *k* the threshold is the *k*-th score |
| **index builder** (`index/builder.hpp`) | current document, term map, posting lists, occurrences, sizes, sorted terms | `add_document`, `add_term`, `sort_terms`, `write_*` | the lists are the collection inverted, rows of all files are about the same term |
| **index merger** (`index/merger.hpp`) | a heap of batch entries, files under construction, running offsets | `merge_titles`, `merge_sizes`, `merge_terms` (`merge_term`, `copy_term`), `write_properties` | no row lost or repeated, terms ascend, offsets lead to the lists |
| **index assembler** (`index/assembler.hpp`, `src/src/irk-buildindex.cpp`) | the input stream, next document, batch directories | `assemble`, `build_batch`, `--merge-only`, `--spam` | the index holds exactly the collection, whatever an earlier run left behind |
| **block lists** (`list/standard_block_list.hpp`, `iterator/block_iterator.hpp`) | encoded blocks, skips, last documents; an iterator's block and offset | `write`, `block`, `++`, `advance_to`, `nextgeq`, `align` | every way of moving shows what was written |
| **posting lists** (`index/posting_list.hpp`) | a document and a payload iterator; a union's sorted ranges | the same on pairs; `Union` | payloads stay with documents; a union is in order |
| **query processing** (`algorithm/query.hpp`, `taat.hpp`, `threshold.hpp`) | ranges over lists, accumulators, maxima of blocks | `daat`, `taat`, `aggregate_top_k`, `compute_topk`, `compute_threshold` | all give *k* best documents of the query |
| **partition** (`index/partition.hpp`, `src/src/irk-partidx.cpp`, `irk-shardmap.cpp`) | shard mapping, local numbers, the vectors and files of each shard | shard maps, `titles`, `sizes`, `postings_once`, `write_*` | the shards are the index, dealt out |
| **reorder** (`index/reorder.hpp`) | permutation, masks | `titles`, `sizes`, `docmap`, `compute_mask`, `postings` | only the numbers change |
| **cluster, sharded queries** (`index/cluster.hpp`, `src/src/run_query.hpp`) | shards, one accumulator | `run_shards`, `rescore`, counts of a query's terms | the answer of the whole index, with its scores |
| **index view**, sources, properties (`index.hpp`, `index/source.hpp`, `index/properties.hpp`) | mapped files | `select`, `postings`, `scored_postings`, `query_postings`, `copy_*_list`, `term`, `term_id` | a list is the one its offset means |
| **lexicon** (`lexicon.hpp`, `coding/prefix_codec.hpp`, `radix_tree.hpp`) | front-coded blocks, leaders, the codec's last key | `build_lexicon`, `serialize`, `load_lexicon`, `index_at`, `key_at`, iteration | inverse of each other, whatever was asked before |
| **compact and offset tables** (`compacttable.hpp`), **vbyte** (`coding/vbyte.hpp`) | bytes in blocks, leaders | build, `operator[]`, iteration | both ways of reading give what was written |
| **scoring** (`score.hpp`, `index/score.hpp`, `quantize.hpp`) | score files, statistics, `properties.json`, the runs of `irk-score` | BM25, query likelihood, quantization, `irk-score`, `irk-scorestats` | scores in range, order kept, files to be read with the range told |
| **query tools** (`query_engine.hpp`, `src/src/irk-query.cpp`, ...) | options, the lines read and printed | `irk-query`, `irk-terminfo`, `irk-postings`, `irk-lookup`, `irk-threshold`, `irk-table` | the option does what its help says; what is printed is in the index |
| **prefix map** (`prefixmap.hpp`, `bitptr.hpp`) | blocks of bits, leaders, the block under construction | build, dump, load, both lookups, iteration | inverse of each other |
| **alphabetic codes** (`coding/hutucker.hpp`, `coding/huffman.hpp`, `alphabetical_bst.hpp`) | a tree, an array of nodes | build, encode, decode | shortest, in the order of symbols, read back |
| **memory views** (`memoryview.hpp`) | a source, offset and size; a buffer filled when first used | ranges of ranges, `data` | the bytes of the file that the ranges mean |
| **WARC reader** (`io/warc.hpp`, `src/src/irk-warc.cpp`, `parsing/html.hpp`) | a stream with its states, one record | reading records, printing responses | a row per response, and an end |

Interactions. Everything is calls and files. The assembler drives a builder per batch and
one merger; builder and merger write block lists; every reader goes through posting list
iterators, whose document and payload halves are aligned by position, not by content; every
traversal ends in a top-k accumulator, whose threshold block-wise traversal reads back
between two offers. All of these read an index through the view, which finds a list by a term's number and two
tables of offsets. Files are the only state that survives the program: `.batches/` is
never removed, and a later run, or `--merge-only`, finds what was left there; a killed `irk-score`
leaves score files that exist, and `properties.json` is read when a run starts and written when it ends.

The hazards this gives rise to are listed in `PROJECT.json`, each at its line with the
properties that watch it, or the reason that none does.

## 2. The modules

| Module | Models | State and actions |
|---|---|---|
| `TopK` | what `top_k_accumulator` promises | the scores offered (`seen`), the offers held (`top`), `threshold`; `Reject`, `Fill`, `Replace` |
| `TopKAccumulator`, `StdHeap` | `accumulate()` on the vector `top_` with `push_heap` and `pop_heap` as libstdc++ has them, for any sequence, a heap or not | one action, `accumulate(value)`, with the code's order: append, sift or pop, threshold |
| `TopKHeap` | `TopK` and `TopKAccumulator` side by side | `top` is the keys in `top_` |
| `IndexBuilder` | `basic_index_builder` | `add_document`, `add_term`, `sort_terms`; the files are operators over the state (`written_terms`, ...). `tf` is a history variable: what was added |
| `TermMerge` | the abstract merge of sorted term files | `MergeSome`: rows of one term from some batches become one row; `MergeLeast`: all rows of a least term |
| `IndexMerger` | `basic_index_merger` with its heap | `merge_titles` (which also fills the heap), `merge_term` for each round of `merge_terms()`, `allocate_sizes` and `copy_sizes(b)` for the parallel tasks of `merge_sizes()`, `write_properties` |
| `TermMergeHeap` | `TermMerge` and `IndexMerger` side by side | `rows` are the batches' term files, `cursor` is where the heap is in them |
| `IndexAssembler` | `assemble()`, `build_batch()`, `irk-buildindex`, a crash at any point | instances of `IndexBuilder` and `IndexMerger`; `disk` is what `.batches` holds and survives `crash` |
| `PostingCursor` | what an iterator over postings promises | a position; `Increment`, `AdvanceTo` |
| `PostingIterator` | writing and reading a list in blocks; `posting_list_view::iterator` on two of them | operators for blocks: `Write`, `DocumentBlock`, `PayloadBlock`, `Increment`, `AdvanceTo`, `NextGeqPosition`, `End`; actions `increment_both`, `advance_to` on the pair of iterators |
| `Retrieval` | what a query gives every traversal: lists, ranges, scorers, the accumulator | an instance of `TopKAccumulator` |
| `Daat`, `Taat`, `PostingUnion` | `daat()`; `taat()` with the accumulators of `taat.hpp`; `Union` with `compute_topk()` | one action per round of the loops |
| `Traversals` | a query and one of the three, by `traversal` | the steps of that one; the variables of the others stay |
| `IndexImage` | the index that the modules below read | |
| `Partition` | `irk-shardmap`, `irk-partidx` and `detail::partition::Partition` | `irk_shardmap`, `partition_index`, then `split_titles`, `split_sizes`, `split_term`, `write_vectors`, ... in the order of `index()`, with the aborts on empty shards |
| `Reorder` | `irk::reorder` | `reorder_tables`, `reorder_term` |
| `Scoring` | the scorers and the quantizer, in fixed point; what a traversal answers: *k* best of the documents that score | operators: `PostingScore`, `Quantized`, `BestOf`, `Ranked` |
| `ScoreFiles` | `irk-score`, a process for each scorer, and `irk-scorestats` | `start`, one action per write to a file, `kill`; `quantized_scores` is what is in `properties.json` |
| `ShardedQuery` | `run_shards` and `rescore` on a partition, the counts of a query's terms | `run_shards`, `ask_shard`, `count_postings`; `read_empty_lists`, the end of a program that has read what is not there |
| `QueryTools` | `irk-query` with `Query_Engine`; the tools that print what is in an index | `open_index`, `run_terms`, `run_line`; one action per inspection tool |
| `CompactTable` | numbers in bytes; tables in blocks with leaders | operators: `Encoded`, `Decoded`, `build_compact_table`, `read_compact_value`, `to_vector` |
| `Lexicon` | `irk::lexicon` on `prefix_codec` | operators over a record; `prev`, the key the codec remembers, is in it, and every operation returns it changed |
| `IndexView` | `inverted_index_view` on files, with score lists | `open`, `postings`, `query_postings`, `copy_lists`, `term_id`, `term`, `begin_terms`, `next_term`, ..., and `compute_permutation` of `irk-reorder` |
| `HuTucker` | Hu and Tucker's codes: the tree, the array it is stored in, bit streams | operators: `join_next_valid`, `tag_leaves`, `reconstruct`, `compact`, `hutucker_encode`, `hutucker_decode` |
| `PrefixMap` | `prefix_map` on bits in memory, with `bitptr` | `AddToBlock`, `AddToNewBlock` (which may expand it), `Finish`, `Load` |
| `WarcReader` | `read_warc_record` and `irk-warc` on a stream of tokens | one action per step of reading a record and printing it |
| `MemoryView` | `memory_view` and its four sources | ranges, `data`, and `rewrite` of the file by others |
| `*_proofs`, `Induction` | the theorems of section 5, and induction over numbers and finite sets for them | |
| `MC*` | small instances for TLC | |

Conventions. Terms and titles are integers, whose order stands for the order of strings. An
`std::optional` is a sequence of at most one element. Offsets count values, not bytes,
except in `IndexView`, where strings are sequences of symbols and lists are bytes with a length before them. An
operation's whole handler is one action. History variables (`seen`, `tf`, `merged`,
`collection`) are never read by a guard. An operator named `X_some_slip`, next to `X`, is
the form `X` would have with a mistake; no run uses one, it documents which mistake the
property named in its comment finds when `X` is replaced by it.

## 3. The runs

| Run | Question | Instance |
|---|---|---|
| `in_memory` | Does the heap in the accumulator's vector keep *k* best, with the right threshold once there are *k*, after any offers? Every step is a step of `TopK`. Are the lists of the builder the inverted collection, through any mix of documents, terms and sorts? | *k* = 3, up to six offers of scores −1..3, −1 being the lowest of the type: one, two and many replacements, ties, zeros; documents 0, 1, 3 (a gap), three terms, four occurrences |
| `merger` | Does `merge_terms()` lose or repeat a row or a posting, and do its files agree? Every step is a step of `TermMerge`, and takes the least term if the start is a heap. | batches of 2, 1 and 1 documents over three terms: a heap of three, terms in one, two and three batches, block size 2 |
| `assembler` | Does the index hold the collection, after any number of killed runs? Does every run end? | every collection of at most three lines, an ignored title, batches of two, three runs |
| `retrieval` | Do the three traversals offer whole scores, in order, skip nothing that counts and give *k* best, and the same documents where scores tie? | `Traversals` for all queries of three lists over four documents, one with negative scores; *k* = 2, accumulators in blocks of three |
| `stored_files` | Does an index read from its files give back what was written, in any order of lookups and iterations? Does every way through a block list show what was written? Are alphabetic codes shortest and read back? Does a prefix map find its words? Does `irk-warc` print what there is, and end? Do views of views show the file? | one to five terms, three titles in every order, two keys a block, tables of two values a block, bytes of two bits and a mark: full and partial last blocks, one and several blocks, lengths that just fit and just do not, differences that wrap; all lists over six documents, blocks of 1 to 3; alphabets of up to six symbols with frequencies up to 3; every subset of eight words of up to nine symbols in blocks of 28 bits, shifts up to 5; archives cut after any token; three views of a file of at most three bytes that is rewritten |
| `index_transforms` | Do partitioning and reordering keep the index, and sharded queries its answers? Can scores be used after runs that overlap and are killed? Do the tools print what is in the index? | four documents, two terms, two shards; every mapping and every permutation of some documents; *k* = 2, 3 bits a score, three runs of `irk-score` for two scorers |

`MCInMemory` and `MCStoredFiles` hold components that do not touch each other; a variable (`filling`, `reads`) says which of
them a behaviour is of, and the others stay where they are.

Sizes are the smallest at which every branch of the code is taken: a heap of three is the
first with two children; two blocks and a partial one the first where a jump crosses a full
block; four documents in blocks of three the first with a partial last block of accumulators.
Bounds named in the modules: `MaxOffers`, `MaxOccurrences`, `MaxRuns`, `MaxLines`, `MaxViews`,
`MaxDocument`, `CollectionSize`, `Size`, `MaxFrequency`, `LnMax`; they bound the clients, not the code. Constants of the code
that are smaller here: `maxv` and `Modulus` stand for 128 and 2^64, `Mu` for 2500, `ShiftRange` for 256, `ByteBits` for 8,
`SymbolBound` for 256. Three runs of `irk-score` are enough for two that overlap after one that was killed; a shift of
three bytes is the first with a code that fits a block and not the shift.

Deadlock is checked for the merger, which must come to `write_properties`: there the heap
can get stuck, and for `stored_files`, where a behaviour that may stop says so (`Ended`). Elsewhere a client may stop calling at
any time, and deadlock says nothing.

Six runs show where the code departs from what is said of it (`expect: violation`):

- `merger_terms`: the merger's heap is filled with `emplace_back` and never made a heap.
  Three batches whose first terms do not happen to be a heap give an index with a term in two rows.
  `merger` shows what holds all the same (nothing is lost) and `OrderedIfHeap` that a heap
  at the start would be enough.
- `merge_only_order`: `--merge-only` merges in directory order, and documents of a row no
  longer increase.
- `cluster_unreadable`: the properties of a cluster are written into a directory that is not there. No tool
  opens what `irk-partidx` has written, and nothing says so while it is written. The query properties of
  `index_transforms` are about clusters whose properties somebody has put in place (`put_properties`).
- `titles_lookup`: titles are looked up as if they were sorted. They are in the order of the
  collection, so `irk-reorder` removes documents that its ordering names. `stored_files` shows what
  holds all the same: what is found is right, and with sorted titles everything is found.
- `threshold_doc`: the comment on `threshold()` says that it is 0 before there are *k* results. It is the lowest value of
  its type. The traversals rely on that one, `irk-threshold` prints it. So `ThresholdIsKth` of `in_memory` and `ReportsTrue` of
  `index_transforms` speak of thresholds once there are *k* results, and only there; `KthOrLowest`, what the accumulator
  holds to before too, is in the invariants of section 5 and is no run's property.
- `command_line_doc`: words on the command line of `irk-query` are looked up as they are, without `--nostem` too, and their
  results are printed without the QID of `--trec-id`. Its one behaviour is a command line for which the help promises both.
  `QueriesAnswered` of `index_transforms` says what such words are answered with only if there is nothing to stem in them, or
  `--nostem` is given, and which QID is printed only of lines; `ReportsTrue` says the same of `irk-terminfo`, which has the
  option and never stems.

## 4. Fairness and failures

Two properties are liveness properties. `RunsEnd` of the assembler: a program that is started
returns, fails or is killed. It assumes `WF_vars(step)`, that the program takes its next step unless it is
killed; it is one thread that waits for nothing, and a process that runs is scheduled. `step` excludes what
others do: starting the program (`assemble`, `merge_only`) and killing it (`crash`) are never
owed. `ReadingEnds` of `irk-warc` assumes weak fairness of the reader's step, one thread again. It holds
except for archives that are cut within the fields of a record, which `read_fields` reads for ever: it waits
for an empty line and never looks whether the stream is still good. The other specifications assume no
fairness: their clients may stop calling. That a merge cannot stop
halfway, in any order of its parallel tasks, is the deadlock check of `merger`.

Crashes are modelled where something survives them. In `IndexAssembler`,
memory is lost, the batches that were complete stay, the one being written is incomplete; the
files of the merged index are truncated by the next merger's constructor, so that nothing of them
survives. In `ScoreFiles`, a killed run leaves of each score file what was flushed, and `properties.json` may be
left cut, after which every run fails until somebody restores it. Two runs may overlap; the later writer of
`properties.json` then drops the entry of the other. In `MemoryView` another program may rewrite the file between a view and its first use.
Nothing is sent over a network.

Undefined behaviour is left out by a precondition that a comment names (an accumulator for no
results, a list without postings), or is a choice between a failure of the program and going on
where the model needs it (a batch without documents, a query of unknown terms).

## 5. What is proved

TLAPS checks these for every value of the constants, under assumptions named in the modules
that declare the constants. They ask for what the types and the callers guarantee: *k* and the block
sizes are positive (`KAssumption`, `RetrievalAssumption`, `BlockAssumption`), posting lists increase and their
documents are those of the collection (`ListsAssumption`, `RetrievalAssumption`), the documents and the payloads of a list are
written in blocks of one size (`SizesAssumption`: the batches and the merger of an assembly, and `irk-score` after it, have the
block size of the index; it would not hold of scores after a `--merge-only` with another block size), no score reaches the lowest
number of its type (`LowestAssumption`), batches are what one builder after another writes of one collection
(`BatchesAssumption`): they have a term and a document, their files have a row for each term, with lists that increase and agree
with the frequencies, the sizes of documents are the sums of their counts, and each batch goes on where the one before ends. A
builder's lists and rows are proved to be like that (`ListsCorrect`, `RowsCorrect`); that an assembly numbers its documents on from
batch to batch is model-checked, with what is merged from them (`IndexHoldsCollection`). A title stands for the document's number here. Batches in the order of
`--merge-only` are not consecutive; run `merge_only_order` shows what comes of that.
TLC evaluates each assumption on the instance of a run.

- **`StdHeap_proofs`**, lemmas that the next two components share. For any comparison that is a weak order and
  sequences of any length, `PushHeapIs` and `PopHeapIs`: both functions permute the elements, whether they are a heap or
  not; `push_heap` makes a heap of a heap and one element more, `pop_heap` moves the front to the end and
  leaves a heap in the rest, *also if the last element was not part of the heap*. That is what `accumulate()` relies on.
  The hole that sinks to a leaf and rises again is followed by `Sunk` and `Risen`: while it is under way no element
  but the leaf is greater than its parent.
- **`TopK_proofs`**: `TypeCorrect`, `BestAreHeld`, `ThresholdCorrect`, `ThresholdMonotone` of `TopK`.
  `TopIsBest` alone is not inductive: a rejected offer is no better than the held ones only because the
  threshold is their lowest score, and that is so only while exactly *k* are held. The
  inductive invariant is `TypeOK`, `Held` (at most *k*), `TopIsBest` and `KthOrLowest`: the threshold is the *k*-th score
  (`ThresholdIsKth`), or the lowest value while there are fewer.
  `Implementation`: the accumulator's vector and its two heap operations implement `TopK` (`TopKHeap`), so the
  three invariants hold of it (`AccumulatorIsBest`), and its vector is a heap after every call
  (`AccumulatorIsHeap`). The invariant for this says that `top_` holds different offers with the scores they
  were made with, in a heap.
- **`IndexBuilder_proofs`**: `TypeCorrect`, `IdsCorrect`, `ListsCorrect`, `InversionCorrect`. `add_term`
  looks at the last posting only; that decides rightly because lists increase up to the current document and
  hold every document of the term. `sort_terms` permutes identifiers; lists stay with their
  terms because the map is a bijection. So the three properties are proved together, with
  `StartsEmpty` (nothing is added before the first document) and `MapIsFinite`. `RowsCorrect`: the rows of
  all files are about the same term and the totals agree (`RowsAgree`). It adds `SumsInv`, that the
  occurrences of a term are the sum of its frequencies, and `SortKept`, that the terms sorted last keep their
  identifiers when others are added.
- **`IndexMerger_proofs`**, first about `TermMerge`: `RowsSurvive`, that no merge loses or repeats a row, whatever
  order it takes terms in (`EveryRowOnce`); `OrderedMerge`, that merging a least term with all its batches gives ascending
  terms, from sorted batches; `OrderedIsMerge`. The invariant of `OrderedMerge` adds that
  every merged term is below every waiting one.
  Then about the merger itself (`TermMergeHeap`): `MergerMerges`, that every step of the merger with its heap is a step of `TermMerge`
  (`ImplementsTermMerge`), so that `MergerKeepsRows` follows from `RowsSurvive`, for a vector that is not a heap
  too. The invariant says that the vector has exactly one entry of every batch with terms left, at its next term.
  `MergerOrdered`: if the first terms form a heap, it stays one and every round merges all
  waiting rows of a least term (`OrderedIfHeap`); with `OrderedMerge`, `MergerAscends`: then the terms of the
  index strictly ascend if those of the batches do. So the finding of run `merger_terms`, that nothing makes the vector a heap at the
  start, is all that is wrong with the order of terms.
  Last about the files. `MergerKeepsPostings`: every posting of the batches is in one merged row, and no other
  is (`EveryPostingOnce`). `MergedFilesAgree`: rows, offsets, titles, sizes and occurrences agree
  (`FilesAgree`). Both say something only of files at certain moments, so they need an invariant, `MergerInv`, of all of them at every
  step. To what is said of the heap and to `EveryRowOnce` it adds `RowsInv`, that a merged row has the postings of the
  rows it is made of, ascending, and that its lists start where the lists before it end, with the running
  offsets at the end of the last; `CountsInv`, that the counts of a document in the merged index so far are
  those in its batch's rows before the cursor; `TitlesInv`, and `SizesInv`, that the sizes of every batch no
  longer being copied are in place. A row ascends although the heap may be none, since `merge_term` sorts what it
  took by shift and the batches have disjoint, ascending documents. When the heap is empty every cursor is past its
  batch, and then `CountsInv` makes a document's counts the sum over all rows of its batch, which is its size. The occurrences
  of the collection are summed by term, the sizes by document: `SumExchange` of `Induction` says that it is the same.
- **`Retrieval_proofs`**, about `Traversals`, that is all three ways to process a query:
  `ScoresOffered` (`OffersAreScores`), `NothingLostInBlocks` (`SkippedAreWorthless`), `RangesKeptInOrder`
  (`RangesInOrder`) and `BestAnswers` (`AnswerIsBest`). All four come from one invariant for each traversal. They share
  `OfferInv`: what was offered are whole scores of ascending documents, and the accumulator satisfies the invariants
  of `TopK_proofs`, which is instantiated for it. To that,
  - `DaatInv` adds that the ranges are a permutation of the lists' ranges, that each has consumed exactly
    the postings before the current document, and that every scoring document before it was offered. Swaps keep this
    since it says nothing of where a range stands;
  - `TaatInv` adds that an accumulator is the sum of the scores over the lists added so far, that the value of a
    block bounds its accumulators, and that what was passed over is no better than the threshold, which
    never falls;
  - `UnionInv` adds that the ranges are sorted with the empty ones last, and of a group that is being summed,
    that its score is the sum over the lists whose range has passed its document. The first range is at the
    least document left, since moving the front back sorts what was sorted but for the front.

  An accumulator with these offers holds *k* best of the offered, and what was not offered scores 0 or not above the
  threshold: the answer is best.
- **`PostingIterator_proofs`**: `IteratorIsCursor`, that the iterator over a list in blocks implements `PostingCursor`
  (`ImplementsCursor`). First data: `DocumentsWritten` and `PayloadsWritten` say that block *k* as a reader decodes it has the values
  of the list from *k* times the block size on, and the header the last document of each block (`Decoded`: what `delta_encode` took
  away, `delta_decode` adds). Then places: `EndIs`, that `end()` is the place behind the last posting, also where the last
  block is full, and the only one; `IncrementIs`; `AdvanceToIs`, that a search of the blocks and then of one block ends where a search of
  the list would, from any place, the end among them. The invariant `IteratorInv` is that the lists are those that were written, that
  the documents' iterator is at a place of them, and the payloads' at the same.
- **`MemoryView_proofs`**: `ViewsCorrect`, that every view shows the bytes it is to show (`ViewsShowFile`), if the
  file holds bytes (`ContentsAreBytes`). Where a view stands is not in its shown bytes, so the invariant adds it (`Placed`):
  a view's positions are those from `first` on, in memory if it is not on disk, and a buffer that is filled has the
  bytes of what was read at that place. Every kind of slice is then one case, a range within the view (`CutInv`).

`Induction` has the induction that these need. The library's induction theorems about a property of numbers take an
operator as a parameter, which the provers here cannot instantiate; so `LeastNumber` is proved from the
well-foundedness of `<`, and `InductionFrom0`, `CourseOfValues`, `InductionDown` and `SubsetInduction` speak of a *set* of
numbers, or of sets, for which the property holds. From those come the facts about sums (`FoldLeft` of `+`, `SumFunction`),
sums of sums and sequences put end to end (`FlattenSeq`) and, in the other modules, about the recursive functions `Risen`, `Sunk`, `Popped`, `Pushed`, `MinPositions`.

Model-checked only:

- `AnswersAgree`, that the traversals agree on ties. Two runs of the accumulator would have to be followed side by side, up to
  the numbers of their offers. `SortedIsBest`, for `SortSeq` is defined by an overridden operator the provers do not see through; the
  heap and the *k* best in it, which it sorts, are proved.
- The assembler, partition, sharded queries and reorder, score files, the tools, the stored
  files, and the formats that hold recursive operators (`HuTucker`, `PrefixMap` and what uses them).
- Liveness (`RunsEnd`, `ReadingEnds`) and `ENABLED`, which are out of the provers' reach.

## 6. What is not modelled

- **Bytes** of stream-vbyte, which is third-party. A block of a list is its values (in `PostingIterator`
  differences); `CompactTable` has the bytes of headers and tables, `PrefixMap` and `HuTucker` have bits.
- **Strings**: how a line is parsed into words, regular expressions of archives, the tree of a page (gumbo). The porter2
  stemmer is generated by snowball; `QueryTools` takes it as a function. `Lexicon` has strings of symbols.
- **Real numbers**: `Scoring` counts thousandths, with a table of logarithms; what doubles round differently is
  not seen. Taily fits gamma distributions, in a library of its own: its estimate is any number, its inputs are modelled.
- **Thin tools**: `irk-lexicon`, `irk-stem`, `irk-vector`, `irk-hits`, `irk-extract-results`, `irk` and
  `irk-part` print or call one thing. `irk-disect` reads blocks from the files beside the view. `irk-docidmap` uses a logger
  that nobody registers (`src/src/irk-docidmap.cpp:70`) and so never comes to its mapping. The standard input of
  `irk-queryshards` is answered with the terms of the command line (`src/src/irk-queryshards.cpp:88`).
- **Tools that are not built**: `irk-merge`, `irk-optet`, `irk-compress`, `irk-uncompress`, `irk-prefmap`. `irk-warc` is not built
  either, but the reader it drives is part of the library.
- **Dead code**: `unionrange.hpp`, `maxscore.hpp`, `Partition::postings()` and its `filter_` and `build_` helpers.
- **Vendored code**: `nonstd/expected.hpp`, `parsing/snowball/porter2.hpp`.

## 7. Plan

Done, in this order: top-k accumulator; builder; merger with its abstraction; assembler and its
termination; block lists and iterators; traversals and union; partition, reorder and sharded
queries with rescoring; lexicon, tables and view with score lists; scoring and its files; the query and inspection tools;
alphabetic codes, prefix map, memory views, WARC reader.

Next, by importance:

1. `Reorder`: the files that are copied although documents were removed, and a title that is named twice.
2. Termination of the merger's own loop and of the traversals under weak fairness.
3. Standard input of `irk-queryshards`, and the order of titles in `irk-docidmap` once it runs.
4. Proofs: `ListsIncrease` carried through the assembler's batches; `ReorderedIsRelabelled` and `ShardsHoldIndex` for any index; `AnswersAgree`.
