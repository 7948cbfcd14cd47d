---------------------------- MODULE ShardedQuery ----------------------------
(***************************************************************************)
(* run_shards (src/run_query.hpp) and the cluster it asks                  *)
(* (index/cluster.hpp): a query runs on every shard of a partition, and    *)
(* the results of all shards go into one accumulator, under their titles.  *)
(* Scores are precomputed, or computed on the fly: then a shard takes its  *)
(* k best by what it knows of the collection, and those are scored again   *)
(* by what the cluster knows.                                              *)
(*                                                                         *)
(* A traversal gives k best documents of a shard and the accumulator keeps *)
(* k best of what it is offered (see MCRetrieval and TopK): which ones, of *)
(* several with the same score, is open here.                              *)
(***************************************************************************)
EXTENDS Partition, Scoring

CONSTANT
  Requests   (* [mode, query, proctype]: "precomputed" or a tag of a       *)
             (* scorer; terms, numbered as in the partitioned index; and   *)
             (* "taat" or "daat"                                           *)

VARIABLES
  request,  (* what irk-queryshards was asked                              *)
  asked,    (* the shards that have answered                               *)
  picked,   (* what a shard has given to be scored again, by shard         *)
  results,  (* the accumulator: [title, score]                             *)
  counts    (* the frequencies of a query's terms: [query, index, shards]  *)

query_vars == <<request, asked, picked, results, counts>>

NoRequest == [mode |-> "none", query |-> << >>, proctype |-> "none"]

QueryInit ==
  /\ request = NoRequest /\ asked = {} /\ picked = [s \in Shards |-> {}] /\ results = {}
  /\ counts = << >>

(* The properties.json that write_properties() has failed to write, put in *)
(* its place by hand: without it no cluster can be opened.                 *)
put_properties ==
  /\ step = "done" /\ cluster.properties = NoProperties
  /\ cluster' = [cluster EXCEPT !.properties = Properties(input) @@ [shard_count |-> Cardinality(Shards)]]
  /\ UNCHANGED <<shard_map_file, shard_mapping, shards, step, term, query_vars>>

(* Index_Cluster_Data_Source::from(): the directory is that of a cluster   *)
(* if its properties have a number of shards.                              *)
Opens == cluster.properties # NoProperties

(* main(): the terms of the command line.  Without them the query is read  *)
(* from the standard input, but what runs for each line of it is again the *)
(* terms of the command line, of which there are none.                     *)
run_shards ==
  /\ step = "done" /\ Opens /\ request = NoRequest /\ counts = << >>
  /\ \E asks \in Requests, from_stdin \in BOOLEAN :
       request' = IF from_stdin THEN [asks EXCEPT !.query = << >>] ELSE asks
  /\ UNCHANGED <<asked, picked, results, counts, partition_vars>>

(* A slip that ShardedAnswerIsBest catches: the title is looked up with    *)
(* the number that the document had in the partitioned index.              *)
TitleOf_global(shard, document) == input.titles[document + 1]

TitleOf(shard, document) == shards[shard].titles[document + 1]

(* term_id() of a shard: the number of a term in it, 0 if there is none.   *)
TermIn(shard, t) ==
  LET at == { i \in DOMAIN shards[shard].term_ids : shards[shard].term_ids[i] = t }
  IN  IF at = {} THEN 0 ELSE CHOOSE i \in at : TRUE

(* postings(term): an unknown term has an empty list.                      *)
PostingsIn(shard, t) ==
  IF TermIn(shard, t) = 0 THEN << >> ELSE shards[shard].rows[TermIn(shard, t)]

(* The term whose scorer is fetched for a term that may be unknown.        *)
OrFirst(t) == IF t = 0 THEN 1 ELSE t

(* run_query() on a shard.  Scorers are made of the shard's own counts.    *)
LocalScore(shard, j, posting) ==
  LET files == shards[shard]
  IN  IF request.mode = "precomputed" THEN posting.score
      ELSE term_scorer(request.mode, files.rows[OrFirst(TermIn(shard, request.query[j]))],
                       files.properties, posting.freq, files.sizes[posting.document + 1])

LocalResults(shard) ==
  LET rows == [j \in DOMAIN request.query |-> PostingsIn(shard, request.query[j])]
      Score(j, posting) == LocalScore(shard, j, posting)
  IN  Accepted({ [document |-> d, score |-> Accumulated(rows, Score, d)] :
                   d \in 0..(Len(shards[shard].titles) - 1) })

(* term_scorer() of the cluster: the counts are those of the whole index,  *)
(* the size of the document is the shard's.                                *)
GlobalScore(shard, j, posting) ==
  LET known == request.query[j] \in DOMAIN cluster.rows
  IN  term_scorer(request.mode, cluster.rows[IF known THEN request.query[j] ELSE 1],
                  cluster.properties, posting.freq, shards[shard].sizes[posting.document + 1])

(* A slip that RescoredGlobally catches: the scores are not reset.         *)
Rescored_on_top(shard, local) ==
  LET rows == [j \in DOMAIN request.query |-> PostingsIn(shard, request.query[j])]
      Score(j, posting) == GlobalScore(shard, j, posting)
  IN  { [r EXCEPT !.score = @ + Accumulated(rows, Score, r.document)] : r \in local }

(* rescore().                                                              *)
Rescored(shard, local) ==
  LET rows == [j \in DOMAIN request.query |-> PostingsIn(shard, request.query[j])]
      Score(j, posting) == GlobalScore(shard, j, posting)
  IN  { [r EXCEPT !.score = Accumulated(rows, Score, r.document)] : r \in local }

IsRunningQuery == request.mode \notin {"none", "dead"}

(* The shards are asked in order.                                          *)
ask_shard ==
  /\ IsRunningQuery
  /\ \E shard \in Shards \ asked :
       /\ \A s \in Shards : s < shard => s \in asked
       /\ asked' = asked \cup {shard}
       /\ \E local \in BestOf(LocalResults(shard)) :
            LET scored == IF request.mode = "precomputed" THEN local ELSE Rescored(shard, local)
                named  == Accepted({ [title |-> TitleOf(shard, r.document), score |-> r.score] : r \in scored })
            IN  /\ picked' = [picked EXCEPT ![shard] = local]
                /\ results' \in BestOf(results \cup named)
  /\ UNCHANGED <<request, counts, partition_vars>>


(* daat() takes the first document of the lists without asking whether     *)
(* they have any.  What it reads is of no list and scores 0, unless        *)
(* reading it ends the program.                                            *)
read_empty_lists ==
  /\ IsRunningQuery /\ request.proctype = "daat"
  /\ \E shard \in Shards \ asked :
       /\ \A s \in Shards : s < shard => s \in asked
       /\ \A j \in DOMAIN request.query : PostingsIn(shard, request.query[j]) = << >>
  /\ request' = [request EXCEPT !.mode = "dead"]
  /\ UNCHANGED <<asked, picked, results, counts, partition_vars>>

(* A slip that CountsAddUp catches: a shard is asked by the number that    *)
(* the term has in the whole index.                                        *)
term_collection_frequency_by_number(shard, t) ==
  IF t \in DOMAIN shards[shard].rows THEN Len(shards[shard].rows[t]) ELSE 0

term_collection_frequency(shard, t) == Len(PostingsIn(shard, t))

(* query_stats() of the cluster and of a shard: the size and how many      *)
(* documents have each term.                                               *)
cluster_stats(query) ==
  [ size        |-> cluster.properties.documents,
    frequencies |-> [j \in DOMAIN query |->
                      IF query[j] \in DOMAIN cluster.rows THEN Len(cluster.rows[query[j]]) ELSE 0] ]

shard_stats(shard, query) ==
  [ size        |-> shards[shard].properties.documents,
    frequencies |-> [j \in DOMAIN query |-> term_collection_frequency(shard, query[j])] ]

(* irk-extract-posting-count prints the sum of the frequencies for each    *)
(* shard; irk-taily ranks the shards by all of these, with the statistics  *)
(* that irk-scorestats has left.                                           *)
count_postings ==
  /\ step = "done" /\ Opens /\ request = NoRequest /\ counts = << >>
  /\ \E asks \in Requests :
       counts' = [ query  |-> asks.query, index |-> cluster_stats(asks.query),
                   shards |-> [s \in Shards |-> shard_stats(s, asks.query)] ]
  /\ UNCHANGED <<request, asked, picked, results, partition_vars>>

QueryNext == run_shards \/ ask_shard \/ read_empty_lists \/ count_postings

-----------------------------------------------------------------------------
(* What the shards were written for, as Index_Cluster_Data_Source::from()  *)
(* asks for it: the directory above them is that of a cluster.             *)
ClusterOpens == step = "done" => Opens

(* What the cluster says of a term and of its size is what its shards say  *)
(* together: a ranking of shards by these counts leaves no posting out.    *)
CountsAddUp ==
  counts # << >> =>
    /\ counts.index.size = MapThenSumSet(LAMBDA s : counts.shards[s].size, Shards)
    /\ \A j \in DOMAIN counts.query :
         counts.index.frequencies[j] = MapThenSumSet(LAMBDA s : counts.shards[s].frequencies[j], Shards)

(* The documents of the whole index with their scores.                     *)
Candidates(Score(_, _)) ==
  LET rows == [j \in DOMAIN request.query |->
                 IF request.query[j] \in DOMAIN input.rows THEN input.rows[request.query[j]] ELSE << >>]
  IN  Accepted({ [title |-> input.titles[d + 1], score |-> Accumulated(rows, Score, d)] : d \in Documents })

(* Once all shards have answered, the results are k best documents of the  *)
(* whole index by precomputed scores: splitting an index and querying the  *)
(* parts gives what the index would have given.                            *)
ShardedAnswerIsBest ==
  asked = Shards /\ request.mode = "precomputed" => results \in BestOf(Candidates(Precomputed))

OnFly(j, posting) ==
  PostingScore(request.mode, input, input.rows[request.query[j]], posting)

(* On the fly, each result has the score that the whole index would have   *)
(* given its document, although a shard has its own counts, numbers of     *)
(* documents and numbers of terms; and the results are k best of what the  *)
(* shards gave.  So they are k best documents of the index as soon as      *)
(* each document that scores in the index was given by its shard.          *)
RescoredGlobally ==
  asked = Shards /\ request.mode \in ScoreTags =>
    LET all   == Candidates(OnFly)
        given == { r \in all : \E s \in Shards : \E p \in picked[s] : TitleOf(s, p.document) = r.title }
    IN  /\ results \subseteq all
        /\ results \in BestOf(given)
=============================================================================
