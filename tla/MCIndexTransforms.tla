-------------------------- MODULE MCIndexTransforms --------------------------
(***************************************************************************)
(* Checks Partition with ShardedQuery, Reorder, ScoreFiles and QueryTools  *)
(* on small indexes: transform says which of them runs.                    *)
(***************************************************************************)
EXTENDS ShardedQuery, Reorder, ScoreFiles, QueryTools

CONSTANT Size   (* the documents of an index *)

VARIABLE transform

(* Payloads that tell postings apart, with some scores that are the same.  *)
RowOf(docs, t) ==
  LET s == SetToSortSeq(docs, <)
  IN  [i \in DOMAIN s |-> [document |-> s[i], freq |-> s[i] + t, score |-> ((s[i] * t) % 3) + 1]]

(* An index of these rows: the size of a document is what it has of terms. *)
ImageOf(rows) ==
  [ titles |-> [i \in 1..Size |-> 10 * i],
    sizes  |-> [i \in 1..Size |->
                  Total([t \in DOMAIN rows |->
                    Total([j \in DOMAIN rows[t] |->
                      IF rows[t][j].document = i - 1 THEN rows[t][j].freq ELSE 0])])],
    rows   |-> rows ]

MCIndexes ==
  { ImageOf(<<RowOf(a, 1), RowOf(b, 2)>>) : a, b \in SUBSET (0..(Size - 1)) \ {{}} }

(* The indexes that are inspected, and those that irk-score runs on.       *)
InspectedIndexes ==
  { ImageOf(<<RowOf(a, 1), RowOf({0, 2}, 2)>>) : a \in SUBSET (0..(Size - 1)) \ {{}} }

ScoredIndexes ==
  { ImageOf(<<RowOf(a, 1), RowOf({0, 2}, 2)>>) : a \in {{0}, {0, 1, 2}} }

(* All terms, one of two of which a shard may have only the other, and one *)
(* that no index has.                                                      *)
MCRequests ==
  { [mode |-> "precomputed", query |-> <<1, 2>>, proctype |-> "daat"] }
    \cup { [mode |-> tag, query |-> <<1, 2>>, proctype |-> "daat"] : tag \in ScoreTags }
    \cup { [mode |-> tag, query |-> <<2, 3>>, proctype |-> type] :
             tag \in ScoreTags, type \in {"taat", "daat"} }

(* Terms in the index, terms of which there the stems are, and an empty    *)
(* line, which is a query of an empty word.                                *)
MCNames == <<"hous", "run">>
MCStem  == [word \in {"hous", "housing", "run", "runs", ""} |->
              IF word = "housing" THEN "hous" ELSE IF word = "runs" THEN "run" ELSE word]

MCCommandLines ==
  LET lines == { << >>, << <<"housing", "run">>, <<"">>, <<"runs", "run", "">> >>, << <<"">>, <<"hous">> >> }
      Command(terms, input_lines) ==
        [ score_function : {<<"bm25", FALSE>>, <<"ql", FALSE>>, <<"bm25", TRUE>>, <<"tfidf", FALSE>>},
          traversal_type : {"taat", "daat"}, nostem : BOOLEAN, trec_id : {NoTrecId, 7},
          terms : {terms}, lines : {input_lines} ]
  IN  UNION { Command(<< >>, l) : l \in lines }
        \cup Command(<<"run", "housing", "hous">>, << >>) \cup Command(<<"runs">>, << >>)

(* A command line whose words are to be stemmed, in trec_eval format.      *)
HelpCommands ==
  { c \in MCCommandLines : c.terms = <<"run", "housing", "hous">> /\ ~c.nostem /\ c.trec_id = 7
                          /\ c.score_function = <<"ql", FALSE>> /\ c.traversal_type = "taat" }

(* Words of which two have the same stem, a word twice, and no known word. *)
MCAsked ==
  { <<"hous", "run">>, <<"run", "", "run">>, <<"housing", "hous", "runs">>, <<"">> }

ToolIdle ==
  /\ args \in { c \in MCCommandLines : c.terms = << >> /\ c.lines = << >> /\ c.nostem
                                     /\ c.score_function = <<"ql", FALSE>>
                                     /\ c.traversal_type = "taat" /\ c.trec_id = NoTrecId }
  /\ has_scores = FALSE /\ engine = NoEngine /\ counter = 0 /\ printed = << >>
PartitionIdle ==
  /\ shard_map_file = << >> /\ shard_mapping = << >> /\ step = "idle" /\ term = 1 /\ cluster = NewCluster
  /\ shards = [s \in Shards |-> NewShard]
ReorderIdle ==
  /\ permutation = << >> /\ reordered = 0
  /\ output = [titles |-> << >>, sizes |-> << >>, rows |-> << >>, term_occurrences |-> << >>]

MCInit ==
  /\ QueryInit /\ ScoreInit /\ report = Nothing
  /\ \/ transform = "partition" /\ PartitionInit /\ ReorderIdle /\ ToolIdle
     \/ transform = "reorder"   /\ ReorderInit   /\ PartitionIdle /\ ToolIdle
     \/ transform = "score"     /\ input \in ScoredIndexes /\ ReorderIdle /\ PartitionIdle /\ ToolIdle
     \/ transform = "query"     /\ input \in ScoredIndexes /\ ReorderIdle /\ PartitionIdle /\ ToolInit
     \/ transform = "inspect"   /\ input \in InspectedIndexes /\ ReorderIdle /\ PartitionIdle /\ ToolIdle

MCNext ==
  /\ UNCHANGED transform
  /\ transform # "inspect" => UNCHANGED report
  /\ \/ /\ transform = "partition"
        /\ UNCHANGED <<reorder_vars, score_vars, tool_vars>>
        /\ \/ PartitionNext /\ UNCHANGED query_vars
           \/ put_properties /\ UNCHANGED input
           \/ QueryNext /\ UNCHANGED input
     \/ /\ transform = "reorder" /\ ReorderNext
        /\ UNCHANGED <<partition_vars, query_vars, score_vars, tool_vars>>
     \/ /\ transform = "score" /\ ScoreNext
        /\ UNCHANGED <<partition_vars, query_vars, reorder_vars, tool_vars>>
     \/ /\ transform = "query" /\ ToolNext
        /\ UNCHANGED <<partition_vars, query_vars, reorder_vars, score_vars>>
     \/ /\ transform = "inspect" /\ InspectNext
        /\ UNCHANGED <<partition_vars, query_vars, reorder_vars, score_vars, tool_vars>>

MCSpec ==
  MCInit /\ [][MCNext]_<<input, partition_vars, query_vars, reorder_vars, score_vars, tool_vars, report, transform>>
=============================================================================
