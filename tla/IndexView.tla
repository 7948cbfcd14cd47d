------------------------------ MODULE IndexView ------------------------------
(***************************************************************************)
(* irk::inverted_index_view (index.hpp): an index read from its files.     *)
(* The lists of a term are found by its number, through the lexicon, and   *)
(* by offsets, through compact tables; nothing in a list says whose it is. *)
(*                                                                         *)
(* Terms, documents and bytes of a file count from 0, sequences from 1.    *)
(***************************************************************************)
EXTENDS Lexicon

CONSTANTS
  Indexes,    (* the indexes that may have been written                    *)
  Strings,    (* the strings that are looked up                            *)
  Queries,    (* the queries that lists are asked for: sequences of them   *)
  Orderings,  (* what irk-reorder may be given: sequences of lines         *)
  ScoreNames  (* for each index, the scores it is opened with: names       *)

IsIndex(index) ==
  /\ Ascending(index.terms) /\ index.terms # << >>
  /\ IsInjective(index.titles) /\ index.titles # << >>
  /\ Len(index.sizes) = Len(index.titles)
  /\ DOMAIN index.documents = DOMAIN index.terms
  /\ \A t \in DOMAIN index.terms :
       /\ index.documents[t] # << >> /\ Len(index.counts[t]) = Len(index.documents[t])
       /\ \A name \in DOMAIN index.scores : Len(index.scores[name][t]) = Len(index.documents[t])

ASSUME IndexesAssumption == \A index \in Indexes : IsIndex(index)

VARIABLES
  index,   (* history: the index that was written                          *)
  files,   (* its files                                                    *)
  view,    (* the open view: << >>, or its lexicons and vector of sizes    *)
  cursor,  (* << >>, or an iterator over the terms                         *)
  steps,   (* history: how often it was incremented                        *)
  answer   (* history: the last operation, its argument and its result     *)

vars == <<index, files, view, cursor, steps, answer>>

-----------------------------------------------------------------------------
(* Standard_Block_List_Builder::write() has the length of the list first,  *)
(* which counts the bytes it is written with itself.                       *)

(* A slip that ListsSelected catches: a length that just does not fit.     *)
expanded_size_off_by_one(size) ==
  size + Min({ n \in 1..(size + 2) : size + n <= maxv^n })

expanded_size(size) == size + Min({ n \in 1..(size + 2) : size + n < maxv^n })

ListBytes(body) == EncodedValue(expanded_size(Len(body))) \o body

(* Of the rest, the last document comes before the values.                 *)
DocumentBytes(list) == ListBytes(<<Last(list)>> \o list)
CountBytes(list)    == ListBytes(list)

(* A list file and its offset table.                                       *)
Offsets(lists) == [t \in DOMAIN lists |-> Len(FlattenSeq(SubSeq(lists, 1, t - 1)))]

Written(image) ==
  LET documents == [t \in DOMAIN image.terms |-> DocumentBytes(image.documents[t])]
      counts    == [t \in DOMAIN image.terms |-> CountBytes(image.counts[t])]
      scores    == [name \in DOMAIN image.scores |->
                      [t \in DOMAIN image.terms |-> CountBytes(image.scores[name][t])]]
  IN  [ documents        |-> FlattenSeq(documents),
        document_offsets |-> build_compact_table(Offsets(documents), TRUE),
        counts           |-> FlattenSeq(counts),
        count_offsets    |-> build_compact_table(Offsets(counts), TRUE),
        scores           |-> [name \in DOMAIN scores |->
                               [ postings |-> FlattenSeq(scores[name]),
                                 offsets  |-> build_compact_table(Offsets(scores[name]), TRUE) ]],
        frequencies      |-> build_compact_table([t \in DOMAIN image.terms |->
                                                    Len(image.documents[t])], FALSE),
        sizes            |-> build_compact_table(image.sizes, FALSE),
        term_map         |-> serialize(build_lexicon(image.terms)),
        title_map        |-> serialize(build_lexicon(image.titles)) ]

NoAnswer == [op |-> "none"]

Init ==
  /\ index \in Indexes
  /\ files = Written(index)
  /\ view = << >> /\ cursor = << >> /\ steps = 0
  /\ answer = NoAnswer

(* Inverted_Index_Source::from() refuses scores that are not there.  The   *)
(* first of those asked for is the default.  Then the view's constructor.  *)
open ==
  /\ view = << >> /\ answer = NoAnswer
  /\ LET names == ScoreNames[index]
     IN  IF ToSet(names) \subseteq DOMAIN files.scores
         THEN /\ view' = << [ term_map       |-> load_lexicon(files.term_map),
                              title_map      |-> load_lexicon(files.title_map),
                              document_sizes |-> to_vector(files.sizes),
                              score_names    |-> names ] >>
              /\ UNCHANGED answer
         ELSE answer' = [op |-> "invalid_scores"] /\ UNCHANGED view
  /\ UNCHANGED <<index, files, cursor, steps>>

-----------------------------------------------------------------------------
IsOpen == view # << >>
term_map   == view[1].term_map
title_map  == view[1].title_map
term_count == files.frequencies.count

Answer(op, arg, result) == answer' = [op |-> op, arg |-> arg, result |-> result]

RememberTerm(prev)  == view' = << [view[1] EXCEPT !.term_map.prev = prev] >>

(* select(): from the offset of the term to that of the next.              *)
select(id, offsets, memory) ==
  SubSeq(memory, read_compact_value(offsets, id) + 1,
         IF id + 1 < term_count THEN read_compact_value(offsets, id + 1) ELSE Len(memory))

(* A list of the given length over a memory: its constructor panics if the *)
(* memory is not the length that the list begins with.                     *)
OpenList(memory, length) ==
  LET size == DecodedValue(memory, 1)
  IN  IF size.value = Len(memory)
      THEN [panic |-> FALSE, values |-> SubSeq(memory, Len(memory) - length + 1, Len(memory))]
      ELSE [panic |-> TRUE, values |-> << >>]

(* documents(), frequencies() and scores() of a term number.  The scores   *)
(* are those of the default name.                                          *)
length(id) == read_compact_value(files.frequencies, id)

document_list(id)  == OpenList(select(id, files.document_offsets, files.documents), length(id))
frequency_list(id) == OpenList(select(id, files.count_offsets, files.counts), length(id))
score_list(id) ==
  LET scores == files.scores[Head(view[1].score_names)]
  IN  OpenList(select(id, scores.offsets, scores.postings), length(id))

PostingsOf(id)       == [documents |-> document_list(id), payloads |-> frequency_list(id)]
ScoredPostingsOf(id) == [documents |-> document_list(id), payloads |-> score_list(id)]

(* index_at() for one string after the other, on one codec.                *)
FindAll(map, strings) ==
  FoldLeft(LAMBDA found, string :
             LET id == index_at(found.map, string)
             IN  [ids |-> Append(found.ids, id.result), map |-> [found.map EXCEPT !.prev = id.prev]],
           [ids |-> << >>, map |-> map], strings)

RememberTerms(map) == view' = << [view[1] EXCEPT !.term_map = map] >>

(* Lists for the terms of a query, in its order: no list for an unknown    *)
(* one.                                                                    *)
query_postings(query) ==
  /\ IsOpen
  /\ LET found == FindAll(term_map, query)
     IN  /\ Answer("postings", query,
              [j \in DOMAIN query |-> [i \in DOMAIN found.ids[j] |-> PostingsOf(found.ids[j][i])]])
         /\ RememberTerms(found.map)
  /\ UNCHANGED <<index, files, cursor, steps>>

(* Scores must have been loaded, if any of the terms is known.             *)
query_scored_postings(query) ==
  /\ IsOpen
  /\ LET found == FindAll(term_map, query)
     IN  /\ IF view[1].score_names = << >> /\ FlattenSeq(found.ids) # << >>
            THEN answer' = [op |-> "not_loaded"]
            ELSE Answer("scored", query,
                   [j \in DOMAIN query |->
                      [i \in DOMAIN found.ids[j] |-> ScoredPostingsOf(found.ids[j][i])]])
         /\ RememberTerms(found.map)
  /\ UNCHANGED <<index, files, cursor, steps>>

(* copy_document_list(), copy_frequency_list(): as many bytes, from where  *)
(* the list starts, as its first number says.                              *)
CopiedList(offset, memory) ==
  SubSeq(memory, offset + 1, offset + DecodedValue(memory, offset + 1).value)

copy_lists(id) ==
  /\ IsOpen /\ id < term_count
  /\ Answer("copy", id,
       [ documents |-> CopiedList(read_compact_value(files.document_offsets, id), files.documents),
         counts    |-> CopiedList(read_compact_value(files.count_offsets, id), files.counts) ])
  /\ UNCHANGED <<index, files, view, cursor, steps>>

term_id(string) ==
  /\ IsOpen
  /\ LET id == index_at(term_map, string)
     IN  Answer("term_id", string, id.result) /\ RememberTerm(id.prev)
  /\ UNCHANGED <<index, files, cursor, steps>>

term(id) ==
  /\ IsOpen /\ id < term_map.count
  /\ LET key == key_at(term_map, id)
     IN  Answer("term", id, key.result) /\ RememberTerm(key.prev)
  /\ UNCHANGED <<index, files, cursor, steps>>

(* An iteration over the terms, between whose steps anything may be asked. *)
begin_terms ==
  /\ IsOpen
  /\ LET first == begin(term_map)
     IN  cursor' = <<first.result>> /\ RememberTerm(first.prev)
  /\ steps' = 0
  /\ UNCHANGED <<index, files, answer>>

next_term ==
  /\ cursor # << >> /\ ~AtEnd(term_map, cursor[1])
  /\ LET next == increment(term_map, cursor[1])
     IN  cursor' = <<next.result>> /\ RememberTerm(next.prev)
  /\ steps' = steps + 1
  /\ UNCHANGED <<index, files, answer>>

(* compute_permutation() of irk-reorder: the numbers of those titles that  *)
(* are found.                                                              *)
compute_permutation(ordering) ==
  /\ IsOpen
  /\ LET found == FindAll(title_map, ordering)
     IN  /\ Answer("permutation", ordering, FlattenSeq(found.ids))
         /\ view' = << [view[1] EXCEPT !.title_map = found.map] >>
  /\ UNCHANGED <<index, files, cursor, steps>>

Next ==
  \/ open
  \/ \E string \in Strings : term_id(string)
  \/ \E query \in Queries : query_postings(query) \/ query_scored_postings(query)
  \/ \E id \in 0..(term_count - 1) : term(id) \/ copy_lists(id)
  \/ begin_terms \/ next_term
  \/ \E ordering \in Orderings : compute_permutation(ordering)

Spec == Init /\ [][Next]_vars

-----------------------------------------------------------------------------
Positions(keys, key) == { i - 1 : i \in { i \in DOMAIN keys : keys[i] = key } }

(* The lexicon's two directions are each other's inverse, for any string   *)
(* and number, in blocks that are full and not, whatever was asked before  *)
(* and is left in the codec.  Of titles, which are not sorted, at least    *)
(* what is found is there, in the order of the lines.  An iteration shows  *)
(* every term once, in order, and then ends, although lookups between its  *)
(* steps use the same codec.                                               *)
LookupsExact ==
  /\ answer.op = "term_id" => ToSet(answer.result) = Positions(index.terms, answer.arg)
  /\ answer.op = "term" => answer.result = index.terms[answer.arg + 1]
  /\ answer.op = "permutation" =>
       LET names == [i \in DOMAIN answer.result |-> index.titles[answer.result[i] + 1]]
       IN  /\ \A i \in DOMAIN names : names[i] \in ToSet(answer.arg)
           /\ Ascending(index.titles) =>
                names = SelectSeq(answer.arg, LAMBDA line : line \in ToSet(index.titles))
  /\ cursor # << >> =>
       IF AtEnd(term_map, cursor[1]) THEN steps = Len(index.terms)
       ELSE steps < Len(index.terms) /\ dereference(cursor[1]) = index.terms[steps + 1]

(* The lists of the terms of a query are those that were written for them, *)
(* in the query's order, from the first byte to the last, and the scores   *)
(* are those of the default name: no list panics, no term that is unknown  *)
(* shifts the lists of others, and a copied list is a list.                *)
WrittenFor(name, t) ==
  LET payloads == IF name = "counts" THEN index.counts ELSE index.scores[name]
  IN  << [ documents |-> [panic |-> FALSE, values |-> index.documents[t]],
           payloads  |-> [panic |-> FALSE, values |-> payloads[t]] ] >>
HasLists(name) ==
  \A j \in DOMAIN answer.arg :
    IF answer.arg[j] \notin ToSet(index.terms) THEN answer.result[j] = << >>
    ELSE \A t \in DOMAIN index.terms :
           index.terms[t] = answer.arg[j] => answer.result[j] = WrittenFor(name, t)
ListsSelected ==
  /\ answer.op = "postings" => Len(answer.result) = Len(answer.arg) /\ HasLists("counts")
  /\ answer.op = "scored" /\ FlattenSeq(answer.result) # << >> =>
       HasLists(Head(view[1].score_names))
  /\ answer.op = "copy" =>
       /\ answer.result.documents = DocumentBytes(index.documents[answer.arg + 1])
       /\ answer.result.counts = CountBytes(index.counts[answer.arg + 1])

(* Both ways of reading a table, at a key and from begin to end, give the  *)
(* numbers it was built of, whether the last block is full or not, and     *)
(* whether the numbers are stored as differences or not: also of numbers   *)
(* that decrease, whose differences wrap.                                  *)
TableHolds(table, values) ==
  /\ to_vector(table) = values
  /\ \A key \in 0..(Len(values) - 1) : read_compact_value(table, key) = values[key + 1]
TablesRead ==
  IsOpen /\ answer = NoAnswer =>
    /\ view[1].document_sizes = index.sizes
    /\ TableHolds(files.sizes, index.sizes)
    /\ TableHolds(build_compact_table(index.sizes, TRUE), index.sizes)
    /\ TableHolds(files.frequencies, [t \in DOMAIN index.terms |-> Len(index.documents[t])])
    /\ TableHolds(files.document_offsets,
                  Offsets([t \in DOMAIN index.terms |-> DocumentBytes(index.documents[t])]))

(* The help of irk-reorder's --ordering: "Absent documents will be removed *)
(* from the output index."  Those that are named are not.                  *)
NamedAreKept ==
  answer.op = "permutation" =>
    \A line \in ToSet(answer.arg) \cap ToSet(index.titles) :
      \E i \in DOMAIN answer.result : index.titles[answer.result[i] + 1] = line
=============================================================================
