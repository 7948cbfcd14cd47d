------------------------------- MODULE Scoring -------------------------------
(***************************************************************************)
(* The scorers of score.hpp and the quantizer of quantize.hpp, and the     *)
(* answers that k best scores make.                                        *)
(*                                                                         *)
(* Fixed-point numbers stand for doubles: a score counts thousandths, and  *)
(* the average size of documents is a fraction <<sum, count>>.             *)
(***************************************************************************)
EXTENDS IndexImage

CONSTANTS
  Mu,      (* the smoothing of query likelihood, 2500 in the code          *)
  LnMax,   (* the greatest number whose logarithm is needed                *)
  K        (* the results of a query that are asked for                    *)

One == 1000

(* std::log, by ln(n) - ln(n - 1) being near 2 / (2n - 1).                 *)
LnTable ==
  FoldLeft(LAMBDA table, n : Append(table, Last(table) + (2 * One) \div (2 * n - 1)),
           <<0>>, [i \in 1..(LnMax - 1) |-> i + 1])
Ln(n) == LnTable[n]

(* What a scorer is made of: of the term, the documents that have it and   *)
(* its occurrences; of the index, properties.json.                         *)
Properties(image) ==
  [ documents         |-> Len(image.titles),
    occurrences       |-> Total([t \in DOMAIN image.rows |-> Occurrences(image.rows[t])]),
    avg_document_size |-> <<Total(image.sizes), Len(image.titles)>>,
    max_document_size |-> Max(Range(image.sizes)) ]

(* k1 is 1.2 and b is 0.5.  min_idf, a millionth in the code, is large     *)
(* enough here that no score is rounded to 0.                              *)
min_idf == 10

idf(df, properties) ==
  Max({min_idf, Ln(2 * (properties.documents - df) + 1) - Ln(2 * df + 1)})

bm25_scorer(row, properties, tf, size) ==
  LET avg == properties.avg_document_size
  IN  (22 * idf(Len(row), properties) * avg[1] * tf)
        \div (10 * tf * avg[1] + 6 * avg[1] + 6 * avg[2] * size)

(* log(tf + global_component), but for a constant: log(all_occurrences).   *)
TermComponent(row, properties, tf) ==
  Ln(tf * properties.occurrences + Mu * Occurrences(row))

(* A slip that ScoresQuantized catches: shifted by the score of a document *)
(* of average size, below which longer documents fall.                     *)
shift_of_average(row, properties) ==
  LET avg == properties.avg_document_size
  IN  TermComponent(row, properties, 1) - Ln(avg[1] \div avg[2] + Mu)

(* The score of the least frequency in the longest document.               *)
shift(row, properties) ==
  TermComponent(row, properties, 1) - Ln(properties.max_document_size + Mu)

query_likelihood_scorer(row, properties, tf, size) ==
  TermComponent(row, properties, tf) - Ln(size + Mu) - shift(row, properties)

ScoreTags == {"bm25", "ql"}

(* term_scorer() of an index, applied to a posting.                        *)
term_scorer(tag, row, properties, tf, size) ==
  IF tag = "bm25" THEN bm25_scorer(row, properties, tf, size)
  ELSE query_likelihood_scorer(row, properties, tf, size)

(* The score of a posting of an index that is scored by itself.            *)
PostingScore(tag, image, row, posting) ==
  term_scorer(tag, row, Properties(image), posting.freq, image.sizes[posting.document + 1])

(* LinearQuantizer from [min, max] to [1, 2^bits - 1].  If all scores are  *)
(* 0, it multiplies 0 by infinity; what x86 converts that to is, after     *)
(* adding 1, cut off to 1.                                                 *)
Quantized(range, bits, score) ==
  IF range.max = range.min THEN 1
  ELSE ((2^bits - 2) * (score - range.min)) \div (range.max - range.min) + 1

-----------------------------------------------------------------------------
(* What a traversal answers a query with, as the query tools see it: k     *)
(* best of the documents that score (see MCRetrieval and TopK).  Which     *)
(* ones, of several with the same score, is open here.                     *)

(* The sum of a document's scores over the lists of a query.               *)
Accumulated(rows, Score(_, _), document) ==
  Total([j \in DOMAIN rows |->
    Total([i \in DOMAIN rows[j] |->
      IF rows[j][i].document = document THEN Score(j, rows[j][i]) ELSE 0])])

Precomputed(j, posting) == posting.score

(* Documents that score 0 are not accepted by the accumulator.             *)
Accepted(candidates) == { r \in candidates : r.score # 0 }

(* The sets of k results of which none left out scores more.               *)
BestOf(candidates) ==
  { best \in kSubset(Min({K, Cardinality(candidates)}), candidates) :
      \A kept \in best, out \in candidates \ best : out.score <= kept.score }

(* The orders in which results may be printed.                             *)
Ranked(results) ==
  { ranking \in SetToSeqs(results) :
      \A i \in 2..Len(ranking) : ranking[i].score <= ranking[i - 1].score }
=============================================================================
