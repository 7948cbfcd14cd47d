----------------------------- MODULE ScoreFiles -----------------------------
(***************************************************************************)
(* irk-score and irk-scorestats (index/score.hpp) on one index directory.  *)
(* A run of irk-score computes the list of quantized scores of each term   *)
(* and enters what they were quantized with into properties.json, which it *)
(* has read at its start.  Runs for different scorers may overlap, and a   *)
(* run may be killed at any step and started again.                        *)
(*                                                                         *)
(* What is written into a stream may stay in its buffer until the stream   *)
(* is closed: properties.json is closed by Properties::write(), the files  *)
(* of scores only when the run returns.                                    *)
(***************************************************************************)
EXTENDS Scoring

CONSTANTS
  Bits,     (* --bits                                                      *)
  MaxRuns   (* how often irk-score is started, for all scorers together    *)

VARIABLES
  quantized_scores, (* of properties.json, by scorer; << >> while it is cut *)
  score_files,      (* the three files of a scorer: NoFiles, or their text *)
  score_stats,      (* the tables of irk-scorestats, by scorer             *)
  processes         (* the run of irk-score for a scorer                   *)

score_vars == <<quantized_scores, score_files, score_stats, processes>>

NoScores == [tag \in {} |-> 0]
Cut      == << >>
NoFiles  == << >>

Idle == [step |-> "idle", runs |-> 0, alone |-> TRUE, props |-> NoScores,
         range |-> [min |-> 0, max |-> 0], offsets |-> << >>, max_scores |-> << >>]

ScoreInit ==
  /\ quantized_scores = <<NoScores>>
  /\ score_files = [tag \in ScoreTags |-> NoFiles]
  /\ score_stats = [tag \in ScoreTags |-> << >>]
  /\ processes = [tag \in ScoreTags |-> Idle]

IsRunning(tag) == processes[tag].step \notin {"idle", "done", "failed"}

Scores(tag, row) == [i \in DOMAIN row |-> PostingScore(tag, input, row, row[i])]

To(tag, step) == processes' = [processes EXCEPT ![tag].step = step]

(* Properties::read(): what is not JSON is thrown, and ends the run.       *)
start(tag) ==
  /\ ~IsRunning(tag) /\ MapThenSumSet(LAMBDA other : processes[other].runs, ScoreTags) < MaxRuns
  /\ LET others == { other \in ScoreTags \ {tag} : IsRunning(other) }
     IN  processes' = [other \in ScoreTags |->
           IF other \in others THEN [processes[other] EXCEPT !.alone = FALSE]
           ELSE IF other # tag THEN processes[other]
           ELSE [Idle EXCEPT !.runs = processes[tag].runs + 1,
                             !.alone = others = {},
                             !.step = IF quantized_scores = Cut THEN "failed" ELSE "open",
                             !.props = IF quantized_scores = Cut THEN NoScores
                                       ELSE quantized_scores[1]]]
  /\ UNCHANGED <<quantized_scores, score_files, score_stats>>

(* A slip that ScoresQuantized catches: a file is written from its end on, *)
(* behind what a killed run has left.                                      *)
open_files_appending(tag) ==
  /\ processes[tag].step = "open"
  /\ score_files' = [score_files EXCEPT ![tag] =
       IF @ = NoFiles THEN [scores |-> << >>, offsets |-> << >>, max_scores |-> << >>] ELSE @]
  /\ To(tag, "range")
  /\ UNCHANGED <<quantized_scores, score_stats>>

(* The three output streams: whatever the files had is gone.               *)
open_files(tag) ==
  /\ processes[tag].step = "open"
  /\ score_files' = [score_files EXCEPT ![tag] =
                       [scores |-> << >>, offsets |-> << >>, max_scores |-> << >>]]
  /\ To(tag, "range")
  /\ UNCHANGED <<quantized_scores, score_stats>>

(* min_max(): parallel_reduce() cuts the terms into ranges and joins what  *)
(* reduce_range() has made of each; 0 is within the range in any case.     *)
reduce_range(tag, terms, init) ==
  LET scores == UNION { Range(Scores(tag, input.rows[t])) : t \in terms }
  IN  [min |-> Min(scores \cup {init.min}), max |-> Max(scores \cup {init.max})]

reduce_pair(lhs, rhs) == [min |-> Min({lhs.min, rhs.min}), max |-> Max({lhs.max, rhs.max})]

min_max(tag) ==
  /\ processes[tag].step = "range"
  /\ \E cut \in 1..Len(input.rows) :
       LET zero  == [min |-> 0, max |-> 0]
           left  == reduce_range(tag, 1..cut, zero)
           right == reduce_range(tag, (cut + 1)..Len(input.rows), zero)
       IN  processes' = [processes EXCEPT ![tag].step = "terms", ![tag].range = reduce_pair(left, right)]
  /\ UNCHANGED <<quantized_scores, score_files, score_stats>>

(* The lists of all terms, one after the other.  max_scores has the        *)
(* largest score as it was before quantization, cut off to an integer.     *)
score_terms(tag) ==
  /\ processes[tag].step = "terms"
  /\ LET range == processes[tag].range
         lists == [t \in DOMAIN input.rows |->
                     [i \in DOMAIN input.rows[t] |->
                        Quantized(range, Bits, Scores(tag, input.rows[t])[i])]]
     IN  /\ score_files' = [score_files EXCEPT ![tag].scores = @ \o lists]
         /\ processes' = [processes EXCEPT
              ![tag].step = "tables",
              ![tag].offsets = [t \in DOMAIN lists |-> Total([u \in 1..(t - 1) |-> Len(lists[u])])],
              ![tag].max_scores = [t \in DOMAIN lists |->
                                     Max(Range(Scores(tag, input.rows[t]))) \div One]]
  /\ UNCHANGED <<quantized_scores, score_stats>>

write_tables(tag) ==
  /\ processes[tag].step = "tables"
  /\ score_files' = [score_files EXCEPT ![tag].offsets = @ \o processes[tag].offsets,
                                        ![tag].max_scores = @ \o processes[tag].max_scores]
  /\ To(tag, "properties")
  /\ UNCHANGED <<quantized_scores, score_stats>>

(* Properties::write(): the file is cut, and then has what the run read    *)
(* when it started, with its own scores.                                   *)
cut_properties(tag) ==
  /\ processes[tag].step = "properties"
  /\ quantized_scores' = Cut
  /\ To(tag, "write")
  /\ UNCHANGED <<score_files, score_stats>>

Entered(tag) ==
  [name \in DOMAIN processes[tag].props \cup {tag} |->
     IF name = tag THEN processes[tag].range ELSE processes[tag].props[name]]

write_properties_json(tag) ==
  /\ processes[tag].step = "write"
  /\ quantized_scores' = <<Entered(tag)>>
  /\ To(tag, "close")
  /\ UNCHANGED <<score_files, score_stats>>

close_files(tag) ==
  /\ processes[tag].step = "close"
  /\ To(tag, "done")
  /\ UNCHANGED <<quantized_scores, score_files, score_stats>>

(* What was in a buffer is lost: the files have some of it.                *)
kill(tag) ==
  /\ IsRunning(tag)
  /\ To(tag, "idle")
  /\ IF processes[tag].step \in {"open", "range"} THEN UNCHANGED score_files
     ELSE \E n \in 0..Len(score_files[tag].scores), flushed \in BOOLEAN :
            score_files' = [score_files EXCEPT
              ![tag].scores = SubSeq(@, 1, n),
              ![tag].offsets = IF flushed THEN @ ELSE << >>,
              ![tag].max_scores = IF flushed THEN @ ELSE << >>]
  /\ UNCHANGED <<quantized_scores, score_stats>>

(* ScoreStatsFn: three tables over the scores of all terms, as they are    *)
(* before quantization.  It writes to no file that irk-score has a part    *)
(* in, so it is enough to run it when no irk-score runs.                   *)
Mean(values) == Total(values) \div Len(values)
StatsOf(scores) ==
  [ max  |-> Max(Range(scores)),
    mean |-> Mean(scores),
    var  |-> Mean([i \in DOMAIN scores |-> (scores[i] - Mean(scores))^2]) ]

calc_score_stats(tag) ==
  /\ score_stats[tag] = << >> /\ quantized_scores # Cut
  /\ ~\E other \in ScoreTags : IsRunning(other)
  /\ score_stats' = [score_stats EXCEPT ![tag] =
                       [t \in DOMAIN input.rows |-> StatsOf(Scores(tag, input.rows[t]))]]
  /\ UNCHANGED <<quantized_scores, score_files, processes>>

ScoreNext ==
  /\ \E tag \in ScoreTags :
       \/ start(tag) \/ open_files(tag) \/ min_max(tag) \/ score_terms(tag) \/ write_tables(tag)
       \/ cut_properties(tag) \/ write_properties_json(tag) \/ close_files(tag) \/ kill(tag)
       \/ calc_score_stats(tag)
  /\ UNCHANGED input

-----------------------------------------------------------------------------
(* Inverted_Index_Source::from() loads scores whose three files exist.     *)
Loadable(tag) == score_files[tag] # NoFiles

(* The score that a quantized one stands for lies in a step of the range   *)
(* that properties.json tells.                                             *)
StandsFor(quantized, range, score) ==
  range.max > range.min =>
    /\ (quantized - 1) * (range.max - range.min) <= (2^Bits - 2) * (score - range.min)
    /\ (2^Bits - 2) * (score - range.min) < quantized * (range.max - range.min)

(* When a run of irk-score has ended, its files can be loaded and have a   *)
(* list for each term, at its offset, with the quantized score of each     *)
(* posting: never negative (or the bounds of retrieval would not hold), in *)
(* the range that fits the bits, and, if properties.json tells of them, to *)
(* be read with the range told there, although other runs write that file  *)
(* too and some were killed.  It tells of them unless another run          *)
(* overlapped or has left it cut.  The largest value of a list is that of  *)
(* the largest score irk-scorestats finds.                                 *)
ScoresQuantized ==
  \A tag \in ScoreTags : processes[tag].step = "done" =>
    /\ Loadable(tag)
    /\ LET files == score_files[tag]
           listed == quantized_scores # Cut /\ tag \in DOMAIN quantized_scores[1]
       IN  /\ Len(files.scores) = Len(input.rows)
           /\ \A t \in DOMAIN input.rows :
                LET scores == Scores(tag, input.rows[t])
                IN  /\ Len(files.scores[t]) = Len(scores)
                    /\ \A i \in DOMAIN scores :
                         /\ scores[i] >= 0
                         /\ files.scores[t][i] \in 1..(2^Bits - 1)
                         /\ listed => StandsFor(files.scores[t][i], quantized_scores[1][tag], scores[i])
                    /\ files.offsets[t] = Total([u \in 1..(t - 1) |-> Len(input.rows[u])])
                    /\ score_stats[tag] # << >> /\ listed =>
                         StandsFor(Max(Range(files.scores[t])), quantized_scores[1][tag],
                                   score_stats[tag][t].max)
           /\ processes[tag].alone => quantized_scores = Cut \/ listed
=============================================================================
