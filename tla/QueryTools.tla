----------------------------- MODULE QueryTools -----------------------------
(***************************************************************************)
(* irk-query (src/irk-query.cpp) with Query_Engine (query_engine.hpp): the *)
(* options choose the scores and the traversal; the terms come from the    *)
(* command line or, a query a line, from the standard input.               *)
(***************************************************************************)
EXTENDS Scoring, CompactTable

CONSTANTS
  Names,        (* the terms of the index, as words, by number             *)
  Stem,         (* porter2_stemmer, on the words that are asked for        *)
  CommandLines  (* args: [score_function, traversal_type, nostem, trec_id, *)
                (* terms], and the lines of the standard input             *)

VARIABLES
  args,         (* the command line and the standard input                 *)
  has_scores,   (* whether irk-score has left the scores asked for         *)
  engine,       (* the engine: what scores, and how lists are traversed    *)
  counter,      (* the lines read                                          *)
  printed       (* for each query that was run, the lines printed          *)

tool_vars == <<args, has_scores, engine, counter, printed>>

NoTrecId == -1
NoEngine == [scorer |-> "none", traversal |-> "none"]
Failed   == [scorer |-> "failed", traversal |-> "none"]

ToolInit ==
  /\ args \in CommandLines /\ has_scores \in BOOLEAN
  /\ engine = NoEngine /\ counter = 0 /\ printed = << >>

(* is_quantized(): a score function with bits in its name.                 *)
is_quantized(function) == function[2]

(* from(): without precomputed scores both traversals are taat.            *)
EngineFor(function, traversal) ==
  IF is_quantized(function) THEN [scorer |-> "precomputed", traversal |-> traversal]
  ELSE IF function[1] \in ScoreTags THEN [scorer |-> function[1], traversal |-> "taat"]
  ELSE Failed

(* The index is opened with the scores that are named, then the engine     *)
(* made: scores that are not there, or no function of that name, end it.   *)
open_index ==
  /\ engine = NoEngine
  /\ engine' = IF is_quantized(args.score_function) /\ ~has_scores THEN Failed
               ELSE EngineFor(args.score_function, args.traversal_type)
  /\ UNCHANGED <<args, has_scores, counter, printed>>

(* Unknown words have empty lists, and the scorer of the first term.       *)
Lookup(word) ==
  IF word \in Range(Names) THEN CHOOSE t \in DOMAIN Names : Names[t] = word ELSE 0

Rows(words) ==
  [j \in DOMAIN words |-> IF Lookup(words[j]) = 0 THEN << >> ELSE input.rows[Lookup(words[j])]]

ScoreOf(scorer, words, j, posting) ==
  IF scorer = "precomputed" THEN posting.score
  ELSE PostingScore(scorer, input, input.rows[Max({1, Lookup(words[j])})], posting)

(* The documents that score for the words of a query.                      *)
Scored(scorer, words) ==
  LET Score(j, posting) == ScoreOf(scorer, words, j, posting)
  IN  Accepted({ [title |-> input.titles[d + 1], score |-> Accumulated(Rows(words), Score, d)] :
                   d \in Documents })

(* run_query() of the engine.  daat() reads the first document of empty    *)
(* lists: it is of no list and scores 0, or reading it ends the program.   *)
ReadsNothing(words) ==
  engine.traversal = "daat" /\ \A j \in DOMAIN words : Rows(words)[j] = << >>

run_query(words, qid) ==
  \/ \E best \in BestOf(Scored(engine.scorer, words)) : \E ranking \in Ranked(best) :
       /\ printed' = Append(printed,
            [r \in DOMAIN ranking |-> [ qid |-> qid, title |-> ranking[r].title,
                                        rank |-> r - 1, score |-> ranking[r].score ]])
       /\ UNCHANGED engine
  \/ ReadsNothing(words) /\ engine' = Failed /\ UNCHANGED printed

Ready == engine \notin {NoEngine, Failed}

(* The terms of the command line are not stemmed: run_query() stems them   *)
(* and looks up those that are not.                                        *)
run_terms ==
  /\ Ready /\ args.terms # << >> /\ printed = << >>
  /\ run_query(args.terms, NoTrecId)
  /\ UNCHANGED <<args, has_scores, counter>>

stem_if(stem, words) == IF stem THEN [j \in DOMAIN words |-> Stem[words[j]]] ELSE words

Stemmed(words) == stem_if(~args.nostem, words)

(* A slip that QueriesAnswered catches: the number is that of the next.    *)
run_line_counted_first ==
  /\ Ready /\ args.terms = << >> /\ counter < Len(args.lines)
  /\ counter' = counter + 1
  /\ run_query(Stemmed(args.lines[counter + 1]),
               IF args.trec_id = NoTrecId THEN NoTrecId ELSE args.trec_id + counter')
  /\ UNCHANGED <<args, has_scores>>

(* for_each_query().                                                       *)
run_line ==
  /\ Ready /\ args.terms = << >> /\ counter < Len(args.lines)
  /\ counter' = counter + 1
  /\ run_query(Stemmed(args.lines[counter + 1]),
               IF args.trec_id = NoTrecId THEN NoTrecId ELSE args.trec_id + counter)
  /\ UNCHANGED <<args, has_scores>>

ToolNext == (open_index \/ run_terms \/ run_line) /\ UNCHANGED input

-----------------------------------------------------------------------------
(* The words that a query is for, where the code and its help agree: lines *)
(* are stemmed unless --nostem is given, words of the command line are     *)
(* what they are under --nostem, or if they are stems already.             *)
NothingToStem(words) == Stemmed(words) = words
WordsOf(q) == IF args.terms = << >> THEN Stemmed(args.lines[q]) ELSE args.terms

(* The pairs of title and score that were printed are k best documents of  *)
(* the index for these words, by the scores that were asked for; unknown   *)
(* words count for nothing.                                                *)
AnsweredBy(q, words) ==
  LET known  == SelectSeq(words, LAMBDA word : word \in Range(Names))
      scorer == IF is_quantized(args.score_function) THEN "precomputed" ELSE args.score_function[1]
  IN  { [title |-> printed[q][r].title, score |-> printed[q][r].score] : r \in DOMAIN printed[q] }
        \in BestOf(Scored(scorer, known))

(* The number a query is printed under.                                    *)
QidOf(q) == IF args.trec_id = NoTrecId THEN NoTrecId ELSE args.trec_id + q - 1

(* Each query has been answered in turn with k best documents for its      *)
(* words, best first: whichever traversal was asked for and was taken,     *)
(* with words that the index does not have, and with lines of the input    *)
(* that have no results, or no words.  A line is answered under its own    *)
(* number, also behind lines without results.  What the options do to      *)
(* words of the command line is left to CommandLineHeeded.                 *)
QueriesAnswered ==
  \A q \in DOMAIN printed :
    /\ args.terms = << >> \/ NothingToStem(args.terms) => AnsweredBy(q, WordsOf(q))
    /\ \A r \in DOMAIN printed[q] :
         /\ printed[q][r].rank = r - 1
         /\ r > 1 => printed[q][r].score <= printed[q][r - 1].score
         /\ args.terms = << >> => printed[q][r].qid = QidOf(q)

(* What the help says of the options, of words on the command line too:    *)
(* "Do not stem terms" only with --nostem (cli.hpp), and with --trec-id    *)
(* "Print in trec_eval format with this QID".                              *)
CommandLineHeeded ==
  \A q \in DOMAIN printed :
    args.terms # << >> =>
      /\ AnsweredBy(q, Stemmed(args.terms))
      /\ \A r \in DOMAIN printed[q] : printed[q][r].qid = QidOf(q)

-----------------------------------------------------------------------------
(* The tools that print what is in an index: irk-terminfo, irk-postings,   *)
(* irk-lookup, irk-threshold and irk-table.  Each opens the index, prints  *)
(* and ends; report is what it has printed.  Precomputed scores are there  *)
(* (see open_index).                                                       *)
CONSTANTS
  Asked,       (* the words that the tools are given: sequences of them    *)
  Thresholds   (* what Taily may estimate a threshold to be                *)

VARIABLE report   (* [tool, ...what it was asked..., lines]                *)

Nothing == [tool |-> "none"]

Report(fields) == report = Nothing /\ report' = fields

(* irk-terminfo: words are looked up as they are, whatever --nostem says.  *)
(* --id-range is bound to a copy of the options that is gone: the range is *)
(* always that of all documents.                                           *)
TermInfo(word) ==
  LET t == Lookup(word)
  IN  IF t = 0 THEN [word |-> word, id |-> -1, frequency |-> 0, occurrences |-> 0]
      ELSE [word |-> word, id |-> t - 1, frequency |-> Len(input.rows[t]),
            occurrences |-> Occurrences(input.rows[t])]

irk_terminfo(words, nostem) ==
  Report([ tool |-> "terminfo", nostem |-> nostem,
           lines |-> [j \in DOMAIN words |-> TermInfo(words[j])] ])

-----------------------------------------------------------------------------
(* What a posting is printed with.                                         *)
Payload(scorer, words, j, posting) ==
  IF scorer = "count" THEN posting.freq ELSE ScoreOf(scorer, words, j, posting)

(* merge(): the postings of all lists, by document.  On the fly, a word    *)
(* that is not in the index has no list; else it has an empty one.         *)
merge(scorer, words) ==
  LET lists == Rows(words)
      all   == FlattenSeq([j \in DOMAIN words |-> [i \in DOMAIN lists[j] |->
                 [document |-> lists[j][i].document,
                  payload  |-> Payload(scorer, words, j, lists[j][i])]]])
  IN  SortSeq(all, LAMBDA p, q : p.document < q.document)

(* A slip that ReportsTrue catches: a group starts from the sum of the one *)
(* before.                                                                 *)
group_by_running(postings) ==
  FoldLeft(LAMBDA groups, p :
             IF groups = << >> THEN <<p>>
             ELSE IF Last(groups).document = p.document
             THEN [groups EXCEPT ![Len(groups)].payload = @ + p.payload]
             ELSE Append(groups, [p EXCEPT !.payload = @ + Last(groups).payload]),
           << >>, postings)

(* group_by() document, with the sums that accumulate_while() makes.       *)
group_by(postings) ==
  FoldLeft(LAMBDA groups, p :
             IF groups # << >> /\ Last(groups).document = p.document
             THEN [groups EXCEPT ![Len(groups)].payload = @ + p.payload]
             ELSE Append(groups, p),
           << >>, postings)

(* irk-postings: the postings of the words of the command line.  For lines *)
(* of the standard input it prints how many there are, and nothing at all  *)
(* with --count.                                                           *)
irk_postings(words, nostem, scorer, from_stdin) ==
  LET stems == stem_if(~nostem, words)
  IN  Report([ tool |-> "postings", words |-> stems, scorer |-> scorer, from_stdin |-> from_stdin,
               lines |-> IF from_stdin
                         THEN <<Total([j \in DOMAIN stems |-> Len(Rows(stems)[j])])>>
                         ELSE group_by(merge(scorer, stems)) ])

(* irk-lookup: the first posting that is not before the document.  That    *)
(* there is one is asked, and not whose it is.                             *)
irk_lookup(word, title) ==
  LET row  == Rows(<<word>>)[1]
      from == { i \in DOMAIN row : \E d \in Documents :
                  input.titles[d + 1] = title /\ row[i].document >= d }
  IN  Report([ tool |-> "lookup", word |-> word, title |-> title,
               lines |-> IF from = {} THEN << >> ELSE <<row[Min(from)]>> ])

-----------------------------------------------------------------------------
(* numeric_limits::lowest() of the payloads' type: precomputed scores are  *)
(* unsigned, others double.                                                *)
Lowest(scorer) == IF scorer = "precomputed" THEN 0 ELSE -1000000

(* top_k_accumulator with its threshold (see TopK).                        *)
accumulate(scorer, top, score) ==
  LET Threshold == IF Len(top) = K THEN Last(top) ELSE Lowest(scorer)
      kept      == SortSeq(Append(top, score), >)
  IN  IF score = 0 \/ score <= Threshold THEN top ELSE SubSeq(kept, 1, Min({K, Len(kept)}))

compute_threshold(scorer, groups) ==
  LET top == FoldLeft(LAMBDA best, g : accumulate(scorer, best, g.payload), << >>, groups)
  IN  IF Len(top) = K THEN Last(top) ELSE Lowest(scorer)

compute_topk(groups, threshold) == Len(SelectSeq(groups, LAMBDA g : g.payload >= threshold))

(* irk-threshold.                                                          *)
irk_threshold(words, nostem, scorer) ==
  LET stems == stem_if(~nostem, words)
  IN  Report([ tool |-> "threshold", words |-> stems, scorer |-> scorer,
               lines |-> <<compute_threshold(scorer, group_by(merge(scorer, stems)))>> ])

(* irk-threshold --estimate: the threshold that Taily makes of the means   *)
(* that irk-scorestats has left, and how many documents reach it.  The     *)
(* means are taken for the variances, too.  For precomputed scores it ends *)
(* with an error.                                                          *)
irk_estimate(words, nostem, scorer, threshold) ==
  LET stems == stem_if(~nostem, words)
  IN  Report([ tool |-> "estimate", words |-> stems, scorer |-> scorer,
               lines |-> IF scorer = "precomputed" THEN << >>
                         ELSE <<threshold, compute_topk(group_by(merge(scorer, stems)), threshold)>> ])

(* irk-table, on the table of the sizes of documents: the value at an      *)
(* index, of which only one that is too large is refused, and then all.    *)
irk_table(index) ==
  LET table == build_compact_table(input.sizes, FALSE)
  IN  Report([ tool |-> "table", index |-> index,
               lines |-> IF index >= table.count THEN << >>
                         ELSE <<read_compact_value(table, index)>> \o to_vector(table) ])

Scorers == ScoreTags \cup {"precomputed"}

InspectNext ==
  /\ \/ \E words \in Asked, nostem \in BOOLEAN :
          \/ irk_terminfo(words, nostem)
          \/ \E scorer \in Scorers \cup {"count"}, from_stdin \in BOOLEAN :
               irk_postings(words, nostem, scorer, from_stdin)
          \/ \E scorer \in Scorers :
               \/ irk_threshold(words, nostem, scorer)
               \/ \E threshold \in Thresholds : irk_estimate(words, nostem, scorer, threshold)
     \/ \E word \in Range(Names), title \in Range(input.titles) \cup {0} : irk_lookup(word, title)
     \/ \E index \in 0..Len(input.sizes) : irk_table(index)
  /\ UNCHANGED input

-----------------------------------------------------------------------------
(* Whatever is asked, and in words that are not in the index, or twice:    *)
(* irk-postings prints each document that has a word once, in order, with  *)
(* what it has of all of them; the threshold is the least score of k best  *)
(* results of the query, if it has so many (with fewer, ZeroBeforeKth of   *)
(* TopK speaks of it), and what is counted to reach a threshold are the    *)
(* results that do; a term that is not to be stemmed is shown with its own *)
(* numbers, and tables as they are; and a posting that exists is the one   *)
(* that is found.                                                          *)
Has(word, d) == \E i \in DOMAIN Rows(<<word>>)[1] : Rows(<<word>>)[1][i].document = d

PostingsTrue(words, lines) ==
  LET PayloadOf(j, posting) == Payload(report.scorer, words, j, posting)
  IN  IF report.from_stdin
      THEN lines[1] = MapThenSumSet(LAMBDA d : Cardinality({ j \in DOMAIN words : Has(words[j], d) }),
                                    Documents)
      ELSE /\ { lines[i].document : i \in DOMAIN lines }
                = { d \in Documents : \E j \in DOMAIN words : Has(words[j], d) }
           /\ \A i \in DOMAIN lines :
                /\ i > 1 => lines[i - 1].document < lines[i].document
                /\ lines[i].payload = Accumulated(Rows(words), PayloadOf, lines[i].document)

ThresholdTrue(scored, threshold) ==
  Cardinality(scored) >= K =>
    \A best \in BestOf(scored) : threshold = Min({ r.score : r \in best })

ReportsTrue ==
  /\ report.tool = "postings" => PostingsTrue(report.words, report.lines)
  /\ report.tool = "threshold" => ThresholdTrue(Scored(report.scorer, report.words), report.lines[1])
  /\ report.tool = "estimate" /\ report.lines # << >> =>
       report.lines[2] = Cardinality({ r \in Scored(report.scorer, report.words) :
                                         r.score >= report.lines[1] })
  /\ report.tool = "terminfo" =>
       \A i \in DOMAIN report.lines :
         LET line == report.lines[i]   listed == group_by(merge("count", <<line.word>>))
         IN  report.nostem \/ Stem[line.word] = line.word =>
             /\ line.frequency = Len(listed)
             /\ line.occurrences = Total([j \in DOMAIN listed |-> listed[j].payload])
  /\ report.tool = "lookup" =>
       \A i \in DOMAIN Rows(<<report.word>>)[1] :
         LET posting == Rows(<<report.word>>)[1][i]
         IN  input.titles[posting.document + 1] = report.title => report.lines = <<posting>>
  /\ report.tool = "table" =>
       report.lines = IF report.index = Len(input.sizes) THEN << >>
                      ELSE <<input.sizes[report.index + 1]>> \o input.sizes
=============================================================================
