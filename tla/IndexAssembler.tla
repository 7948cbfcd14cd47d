---------------------------- MODULE IndexAssembler ----------------------------
(***************************************************************************)
(* irk::index::basic_index_assembler (index/assembler.hpp) and the program *)
(* irk-buildindex around it: a collection is read line by line, every      *)
(* batch_size documents are built into an index of their own on disk, and  *)
(* the batches are merged.  The program can be killed at any point and run *)
(* again over what it left behind, with or without --merge-only.           *)
(*                                                                         *)
(* The builder and the merger are those of IndexBuilder and IndexMerger.   *)
(***************************************************************************)
EXTENDS Integers, FiniteSets, Sequences, SequencesExt, FiniteSetsExt

CONSTANTS
  Collections,  (* the inputs: sequences of lines [title, words]           *)
  Spam,         (* spam_: the titles to ignore                             *)
  batch_size,   (* batch_size_                                             *)
  block_size,   (* block_size_                                             *)
  Docs, Terms,  (* the documents and terms that the inputs give rise to    *)
  MaxRuns       (* bound on how often the program is started               *)

ASSUME BatchAssumption == batch_size \in Nat \ {0} /\ block_size \in Nat \ {0}

VARIABLES
  phase,       (* where the program is                                     *)
  collection,  (* history: the whole input of the assembler's run          *)
  input,       (* the lines still to be read                               *)
  words,       (* the words of the current line still to be added          *)
  next_id,     (* the next document                                        *)
  titles,      (* of_titles, the titles file of the current batch          *)
  batch_dirs,  (* the batches of this run, in order; --merge-only: of the  *)
               (* directory                                                *)
  disk,        (* .batches/0, 1, ...: << >> when incomplete, else << index >> *)
  merging_only, (* whether the program was started with --merge-only        *)
  runs         (* how often the program was started                        *)

run_vars == <<phase, collection, input, words, next_id, titles, batch_dirs, disk,
              merging_only, runs>>

VARIABLES current_doc, all_occurrences, sorted_terms, postings,
          term_occurrences, document_sizes, term_map, tf
builder_vars == <<current_doc, all_occurrences, sorted_terms, postings,
                  term_occurrences, document_sizes, term_map, tf>>
Builder == INSTANCE IndexBuilder

VARIABLES indices, merge_phase, heap, out, offsets, copying, merged
merger_vars == <<indices, merge_phase, heap, out, offsets, copying, merged>>
Merger == INSTANCE IndexMerger WITH Inputs <- {}, phase <- merge_phase

vars == <<run_vars, builder_vars, merger_vars>>

NoFiles == [ terms |-> << >>, documents |-> << >>, counts |-> << >>, dfs |-> << >>,
             occurrences |-> << >>, titles |-> << >>, sizes |-> << >>, properties |-> << >> ]

Init ==
  /\ phase = "off"
  /\ collection = << >> /\ input = << >> /\ words = << >>
  /\ next_id = 0 /\ titles = << >> /\ batch_dirs = << >> /\ disk = << >>
  /\ merging_only = FALSE /\ runs = 0
  /\ Builder!BuilderInit
  /\ indices = << >> /\ merge_phase = "titles" /\ heap = << >> /\ out = NoFiles
  /\ offsets = [ documents |-> << >>, counts |-> << >>, doc |-> 0, count |-> 0 ]
  /\ copying = {} /\ merged = << >>

-----------------------------------------------------------------------------
(* The program is started without --merge-only.  What is in .batches stays.*)
assemble(lines) ==
  /\ phase \in {"off", "done"} /\ runs < MaxRuns
  /\ phase' = "batches"
  /\ collection' = lines /\ input' = lines
  /\ next_id' = 0 /\ batch_dirs' = << >> /\ merging_only' = FALSE /\ runs' = runs + 1
  /\ UNCHANGED <<words, titles, disk, builder_vars, merger_vars>>

(* The start of build_batch(): opening the files for writing empties them. *)
open_batch ==
  /\ phase = "batches" /\ input # << >>
  /\ phase' = "lines"
  /\ titles' = << >>
  /\ disk' = [n \in 1..(IF Len(disk) > Len(batch_dirs) THEN Len(disk) ELSE Len(batch_dirs) + 1) |->
                IF n = Len(batch_dirs) + 1 THEN << >> ELSE disk[n]]
  /\ current_doc' = 0 /\ all_occurrences' = 0 /\ sorted_terms' = << >>
  /\ postings' = << >> /\ term_occurrences' = << >> /\ document_sizes' = << >>
  /\ term_map' = [t \in {} |-> 0] /\ tf' = [d \in Docs |-> [t \in Terms |-> 0]]
  /\ UNCHANGED <<collection, input, words, next_id, batch_dirs, merging_only, runs, merger_vars>>

(* Another line of the batch: a document to ignore, or one to add.         *)
WantsLine ==
  phase = "lines" /\ words = << >> /\ Len(document_sizes) < batch_size /\ input # << >>

(* A slip that IndexHoldsCollection catches: an ignored document takes a   *)
(* number all the same.                                                    *)
skip_line_numbered ==
  /\ WantsLine /\ Head(input).title \in Spam
  /\ input' = Tail(input)
  /\ next_id' = next_id + 1
  /\ UNCHANGED <<phase, collection, words, titles, batch_dirs, disk, merging_only, runs,
                 builder_vars, merger_vars>>

skip_line ==
  /\ WantsLine /\ Head(input).title \in Spam
  /\ input' = Tail(input)
  /\ UNCHANGED <<phase, collection, words, next_id, titles, batch_dirs, disk, merging_only, runs,
                 builder_vars, merger_vars>>

read_line ==
  /\ WantsLine /\ Head(input).title \notin Spam
  /\ Builder!add_document(next_id)
  /\ next_id' = next_id + 1
  /\ titles' = Append(titles, Head(input).title)
  /\ words' = Head(input).words
  /\ input' = Tail(input)
  /\ UNCHANGED <<phase, collection, batch_dirs, disk, merging_only, runs, merger_vars>>

add_word ==
  /\ phase = "lines" /\ words # << >>
  /\ Builder!add_term(Head(words))
  /\ words' = Tail(words)
  /\ UNCHANGED <<phase, collection, input, next_id, titles, batch_dirs, disk, merging_only, runs, merger_vars>>

(* A slip that RunsEnd catches: the loop goes on when the input is at its  *)
(* end.                                                                    *)
sort_batch_when_full ==
  /\ phase = "lines" /\ words = << >>
  /\ Len(document_sizes) = batch_size
  /\ Builder!sort_terms
  /\ phase' = "write"
  /\ UNCHANGED <<collection, input, words, next_id, titles, batch_dirs, disk, merging_only, runs, merger_vars>>

sort_batch ==
  /\ phase = "lines" /\ words = << >>
  /\ Len(document_sizes) = batch_size \/ input = << >>
  /\ Builder!sort_terms
  /\ phase' = "write"
  /\ UNCHANGED <<collection, input, words, next_id, titles, batch_dirs, disk, merging_only, runs, merger_vars>>

(* The files of a batch, as the builder writes them.                       *)
WrittenIndex ==
  [ terms       |-> Builder!written_terms,
    documents   |-> Builder!written_documents,
    counts      |-> Builder!written_counts,
    dfs         |-> Builder!written_dfs,
    occurrences |-> Builder!written_occurrences,
    titles      |-> titles,
    sizes       |-> Builder!written_sizes,
    block       |-> block_size ]

(* The rest of build_batch().  Without a document the greatest document    *)
(* size is read from an empty vector, and without a term build_lexicon()   *)
(* aborts: the program ends there, with the batch incomplete.              *)
write_batch ==
  /\ phase = "write"
  /\ IF Builder!written_terms # << >>
     THEN /\ disk' = [disk EXCEPT ![Len(batch_dirs) + 1] = << WrittenIndex >>]
          /\ batch_dirs' = Append(batch_dirs, Len(batch_dirs) + 1)
          /\ phase' = "batches"
     ELSE phase' = "failed" /\ UNCHANGED <<disk, batch_dirs>>
  /\ UNCHANGED <<collection, input, words, next_id, titles, merging_only, runs, builder_vars, merger_vars>>

(* A merger over batch directories: its constructor empties the files of   *)
(* the index.  An incomplete batch cannot be opened, and sizes without any *)
(* batch cannot be added up.                                               *)
Construct(dirs) ==
  IF dirs # << >> /\ \A i \in DOMAIN dirs : disk[dirs[i]] # << >>
  THEN /\ phase' = "merge"
       /\ indices' = [i \in DOMAIN dirs |-> disk[dirs[i]][1]]
       /\ merge_phase' = "titles" /\ heap' = << >> /\ out' = NoFiles
       /\ offsets' = [ documents |-> << >>, counts |-> << >>, doc |-> 0, count |-> 0 ]
       /\ copying' = {} /\ merged' = << >>
  ELSE phase' = "failed" /\ UNCHANGED merger_vars

open_merger ==
  /\ phase = "batches" /\ input = << >>
  /\ Construct(batch_dirs)
  /\ UNCHANGED <<collection, input, words, next_id, titles, batch_dirs, disk, merging_only, runs, builder_vars>>

(* --merge-only: whatever is in .batches, in the order of the directory    *)
(* iterator, which is not specified.                                       *)
merge_only ==
  /\ phase \in {"off", "done"} /\ disk # << >> /\ runs < MaxRuns
  /\ \E dirs \in SetToSeqs(DOMAIN disk) : batch_dirs' = dirs /\ Construct(dirs)
  /\ merging_only' = TRUE /\ runs' = runs + 1
  /\ input' = << >>
  /\ UNCHANGED <<collection, words, next_id, titles, disk, builder_vars>>

merge ==
  /\ phase = "merge" /\ merge_phase # "done"
  /\ Merger!Next
  /\ UNCHANGED <<run_vars, builder_vars>>

(* The lexicons of the merged index are built; the program returns.        *)
finish ==
  /\ phase = "merge" /\ merge_phase = "done"
  /\ phase' = "done"
  /\ UNCHANGED <<collection, input, words, next_id, titles, batch_dirs, disk, merging_only, runs,
                 builder_vars, merger_vars>>

(* The program is killed, or has failed.  Only the disk is left.           *)
crash ==
  /\ phase \notin {"off", "done"}
  /\ phase' = "off"
  /\ words' = << >> /\ input' = << >>
  /\ UNCHANGED <<collection, next_id, titles, batch_dirs, disk, merging_only, runs, builder_vars, merger_vars>>

(* What the program does by itself, once it is started.                    *)
step ==
  \/ open_batch \/ skip_line \/ read_line \/ add_word \/ sort_batch \/ write_batch
  \/ open_merger \/ merge \/ finish

Next ==
  \/ \E lines \in Collections : assemble(lines)
  \/ merge_only
  \/ step
  \/ crash

(* The program goes on as long as it is not killed; nobody has to start it *)
(* and nothing has to kill it.                                             *)
Spec == Init /\ [][Next]_vars /\ WF_vars(step)

-----------------------------------------------------------------------------
(* The documents of an input: its lines without those to ignore.           *)
Kept(lines) == SelectSeq(lines, LAMBDA line : line.title \notin Spam)
Occurrences(line, t) == Cardinality({ i \in DOMAIN line.words : line.words[i] = t })

(* What the merged index says: document, term and count of every posting.  *)
Triples ==
  UNION { { <<out.documents[m].values[i], out.terms[m], out.counts[m].values[i]>> :
              i \in DOMAIN out.documents[m].values } : m \in DOMAIN out.terms }
Inverted(lines) ==
  { <<d - 1, t, Occurrences(lines[d], t)>> :
      <<d, t>> \in { <<d, t>> \in (DOMAIN lines) \X Terms : Occurrences(lines[d], t) > 0 } }

IndexIs(lines) ==
  /\ Triples = Inverted(lines)
  /\ out.titles = [d \in DOMAIN lines |-> lines[d].title]
  /\ out.sizes = [d \in DOMAIN lines |-> Len(lines[d].words)]

(* When the program returns, the index on disk is the collection without   *)
(* the ignored documents: numbered without gaps across the batches, each   *)
(* with its title, its size and all its words.  This holds whatever        *)
(* earlier runs, killed at any point, left in .batches.  After             *)
(* --merge-only it holds of the last input if .batches has all of its      *)
(* documents, no others, in full batches but for the last, and is listed   *)
(* in the order it was built.                                              *)
BatchesHold(lines) ==
  /\ \A i \in DOMAIN batch_dirs : batch_dirs[i] = i
  /\ \A i \in DOMAIN indices : i < Len(indices) => Len(indices[i].titles) = batch_size
  /\ FlattenSeq([i \in DOMAIN indices |-> indices[i].titles])
       = [d \in DOMAIN lines |-> lines[d].title]
IndexHoldsCollection ==
  phase = "done" /\ (merging_only => BatchesHold(Kept(collection)))
    => IndexIs(Kept(collection))

(* A program that is started ends, unless it is killed: with the index, or *)
(* with a failure.  Every round of its loops, over batches, lines, words   *)
(* and terms, uses up some of what there is.                               *)
Ended == phase \in {"off", "done", "failed"}
RunsEnd == []<>Ended

(* merge_term() of the merger: "Sort by shift, i.e., effectively document  *)
(* IDs."  The documents of a merged row increase.                          *)
ShiftsOrderDocuments ==
  phase = "done" =>
    \A m \in DOMAIN out.documents :
      LET documents == out.documents[m].values
      IN  \A i, j \in DOMAIN documents : i < j => documents[i] < documents[j]
=============================================================================
