----------------------------- MODULE Partition -----------------------------
(***************************************************************************)
(* detail::partition::Partition (index/partition.hpp): an index is split   *)
(* into shards, each an index with documents and terms numbered anew.      *)
(* index() runs the steps in order; postings_once() takes the terms one by *)
(* one and appends to every shard that has postings of the term.           *)
(* irk-partidx (src/irk-partidx.cpp) and irk-shardmap say which shard a    *)
(* document goes to.                                                       *)
(***************************************************************************)
EXTENDS IndexImage, CompactTable

CONSTANT Shards

VARIABLES
  shard_map_file,  (* a .shardmap file: << >>, or a table                  *)
  shard_mapping,   (* the shard of each document, by number from 0         *)
  shards,          (* the files of each shard                              *)
  step,            (* where index() stands                                 *)
  term,            (* postings_once(): the next term                       *)
  cluster          (* the directory above the shards: properties.json, the *)
                   (* term lexicon with its tables, the score statistics   *)

partition_vars == <<shard_map_file, shard_mapping, shards, step, term, cluster>>

NoProperties == << >>

NewShard == [ titles |-> << >>, sizes |-> << >>, term_ids |-> << >>, terms |-> << >>,
              rows |-> << >>, term_occurrences |-> << >>, max_scores |-> << >>, reverse_map |-> << >>,
              avg_document_size |-> 0, max_document_size |-> 0, occurrences |-> 0,
              properties |-> NoProperties ]

NewCluster == [properties |-> NoProperties, rows |-> << >>]

(* compute_reverse_mapping(): the documents of a shard, in order.          *)
reverse_mapping(shard) ==
  SetToSortSeq({ d \in Documents : shard_mapping[d] = shard }, <)

(* A slip that ShardsHoldIndex catches: ids are counted over all the       *)
(* shards.                                                                 *)
document_mapping_global(d) == d

(* compute_document_mapping(): a document's number in its shard.           *)
document_mapping(d) ==
  Cardinality({ e \in Documents : e < d /\ shard_mapping[e] = shard_mapping[d] })

(* build_shard_map(): a file of titles for each shard.  A later file       *)
(* overrides an earlier one, a document in no file goes to the last shard, *)
(* and a title that is not in the index is nowhere.  Titles are sorted     *)
(* here, or index_at() would not find all of them (see Lexicon).           *)
build_shard_map(files) ==
  [d \in Documents |->
     LET listed == { s \in Shards : input.titles[d + 1] \in files[s] }
     IN  IF listed = {} THEN Max(Shards) ELSE Max(listed)]

PartitionInit ==
  /\ input \in Indexes
  /\ shard_map_file = << >> /\ shard_mapping = << >>
  /\ shards = [s \in Shards |-> NewShard]
  /\ step = "map"
  /\ term = 1
  /\ cluster = NewCluster

ShardFiles == [Shards -> SUBSET Range(input.titles)]

TableOf(map) == build_compact_table([i \in DOMAIN input.titles |-> map[i - 1]], FALSE)

(* irk-shardmap makes the same map of the same files and stores it.        *)
irk_shardmap ==
  /\ step = "map" /\ shard_map_file = << >>
  /\ \E files \in ShardFiles : shard_map_file' = TableOf(build_shard_map(files))
  /\ UNCHANGED <<shard_mapping, shards, step, term, cluster>>

(* load_shard_map().                                                       *)
load_shard_map(table) ==
  LET map == to_vector(table) IN [d \in 0..(Len(map) - 1) |-> map[d + 1]]

(* irk-partidx with files of titles, whose map --map-out stores, or with   *)
(* --map-in.  --shard-count, which goes with that, is trusted to be more   *)
(* than any number in the map.                                             *)
partition_index ==
  /\ step = "map"
  /\ \/ /\ shard_map_file = << >>
        /\ \E files \in ShardFiles : shard_mapping' = build_shard_map(files)
        /\ shard_map_file' \in {<< >>, TableOf(shard_mapping')}
     \/ /\ shard_map_file # << >> /\ shard_mapping' = load_shard_map(shard_map_file)
        /\ UNCHANGED shard_map_file
  /\ step' = "titles"
  /\ UNCHANGED <<shards, term, cluster>>

(* The values of a table over documents that belong to a shard.            *)
PartOf(values, shard) ==
  LET documents == reverse_mapping(shard)
  IN  [i \in DOMAIN documents |-> values[documents[i] + 1]]

(* build_lexicon() refuses to build a lexicon of no titles.                *)
split_titles ==
  /\ step = "titles"
  /\ IF \E s \in Shards : reverse_mapping(s) = << >>
     THEN step' = "aborted" /\ UNCHANGED shards
     ELSE /\ shards' = [s \in Shards |-> [shards[s] EXCEPT !.titles = PartOf(input.titles, s)]]
          /\ step' = "sizes"
  /\ UNCHANGED <<shard_map_file, shard_mapping, term, cluster>>

(* The average is an integer here, unlike the one of the whole index.      *)
split_sizes ==
  /\ step = "sizes"
  /\ shards' = [s \in Shards |->
       LET sizes == PartOf(input.sizes, s)
       IN  [shards[s] EXCEPT !.sizes = sizes,
                             !.avg_document_size = Total(sizes) \div Len(sizes),
                             !.max_document_size = Max(Range(sizes))]]
  /\ step' = "postings"
  /\ UNCHANGED <<shard_map_file, shard_mapping, term, cluster>>

(* The builders of a term for one shard: local document numbers, and the   *)
(* frequency and the score of the same posting.                            *)
LocalRow(row, shard) ==
  LET ours == SelectSeq(row, LAMBDA p : shard_mapping[p.document] = shard)
  IN  [i \in DOMAIN ours |-> [ours[i] EXCEPT !.document = document_mapping(@)]]

(* posting_vectors::push().                                                *)
push(files, row) ==
  [files EXCEPT !.term_ids = Append(@, term),
                !.term_occurrences = Append(@, Occurrences(row)),
                !.max_scores = Append(@, Max({ row[i].score : i \in DOMAIN row })),
                !.occurrences = @ + Occurrences(row)]

(* posting_streams::write(), called only for a shard that has postings of  *)
(* the term.                                                               *)
write(files, row) ==
  IF row = << >> THEN files ELSE [push(files, row) EXCEPT !.rows = Append(@, row)]

split_term ==
  /\ step = "postings" /\ term <= Len(input.rows)
  /\ shards' = [s \in Shards |-> write(shards[s], LocalRow(input.rows[term], s))]
  /\ term' = term + 1
  /\ UNCHANGED <<shard_map_file, shard_mapping, step, cluster>>

(* io::filter_lines(): the search for the next line goes on from where the *)
(* last was found.  Behind the end there is nothing to write.              *)
filter_lines(lines, numbers) ==
  FoldLeft(LAMBDA found, n :
             LET at == { i \in found.at..Len(lines) : i = n }
             IN  IF at = {} THEN [found EXCEPT !.at = Len(lines) + 1]
                 ELSE [at |-> n, output |-> Append(found.output, lines[n])],
           [at |-> 1, output |-> << >>], numbers).output

(* vectors.write() for all shards, with write_terms(): a shard without     *)
(* terms has no lexicon either.  The lines of the terms are their numbers. *)
write_vectors ==
  /\ step = "postings" /\ term > Len(input.rows)
  /\ IF \E s \in Shards : shards[s].term_ids = << >>
     THEN step' = "aborted" /\ UNCHANGED shards
     ELSE /\ shards' = [s \in Shards |-> [shards[s] EXCEPT !.terms =
                          filter_lines([t \in DOMAIN input.rows |-> t], shards[s].term_ids)]]
          /\ step' = "properties"
  /\ UNCHANGED <<shard_map_file, shard_mapping, term, cluster>>

DocumentCount(shard) == Cardinality({ d \in Documents : shard_mapping[d] = shard })

(* The properties of the cluster, those of the index with the number of    *)
(* shards, go to properties.json in a directory properties.json, which     *)
(* there is not: the stream does not open and nothing is written.          *)
write_properties ==
  /\ step = "properties"
  /\ shards' = [s \in Shards |-> [shards[s] EXCEPT !.properties =
       [ documents         |-> DocumentCount(s),
         occurrences       |-> shards[s].occurrences,
         avg_document_size |-> <<shards[s].avg_document_size, 1>>,
         max_document_size |-> shards[s].max_document_size ]]]
  /\ step' = "maps"
  /\ UNCHANGED <<shard_map_file, shard_mapping, term, cluster>>

write_reverse_mappings ==
  /\ step = "maps"
  /\ shards' = [s \in Shards |-> [shards[s] EXCEPT !.reverse_map = reverse_mapping(s)]]
  /\ step' = "tables"
  /\ UNCHANGED <<shard_map_file, shard_mapping, term, cluster>>

(* The lexicon of terms and the tables over it, of which a row tells both. *)
copy_term_tables ==
  /\ step = "tables"
  /\ cluster' = [cluster EXCEPT !.rows = input.rows]
  /\ step' = "done"
  /\ UNCHANGED <<shard_map_file, shard_mapping, shards, term>>

PartitionNext ==
  /\ \/ irk_shardmap \/ partition_index \/ split_titles \/ split_sizes \/ split_term \/ write_vectors
     \/ write_properties \/ write_reverse_mappings \/ copy_term_tables
  /\ UNCHANGED input

-----------------------------------------------------------------------------
(* The row of a term in a shard, none when the shard does not have it.     *)
RowIn(shard, t) ==
  LET at == { i \in DOMAIN shards[shard].term_ids : shards[shard].term_ids[i] = t }
  IN  IF at = {} THEN << >> ELSE shards[shard].rows[CHOOSE i \in at : TRUE]

(* As soon as a term is split, its postings are in the shards of their     *)
(* documents, each in one and none lost, with the payloads they had; rows  *)
(* and terms of a shard keep their order; in the end its properties count  *)
(* what is in it, and the map beside it leads each of its documents back   *)
(* to where the index had it.                                              *)
ShardsHoldIndex ==
  step \in {"postings", "done"} =>
    /\ \A t \in 1..(term - 1) :
         /\ Described(input.titles, input.rows[t])
              = UNION { Described(shards[s].titles, RowIn(s, t)) : s \in Shards }
         /\ Len(input.rows[t]) = MapThenSumSet(LAMBDA s : Len(RowIn(s, t)), Shards)
    /\ \A s \in Shards :
         /\ IsIndex(shards[s])
         /\ \A i, j \in DOMAIN shards[s].term_ids :
              i < j => shards[s].term_ids[i] < shards[s].term_ids[j]
         /\ step = "done" =>
              /\ shards[s].terms = shards[s].term_ids
              /\ shards[s].properties.documents = Len(shards[s].titles)
              /\ shards[s].properties.occurrences
                   = Total([i \in DOMAIN shards[s].rows |-> Occurrences(shards[s].rows[i])])
              /\ shards[s].properties.max_document_size \in Range(shards[s].sizes)
         /\ step = "done" => \A i \in DOMAIN shards[s].titles :
              /\ shards[s].titles[i] = input.titles[shards[s].reverse_map[i] + 1]
              /\ shards[s].sizes[i] = input.sizes[shards[s].reverse_map[i] + 1]
=============================================================================
