--------------------------- MODULE MCStoredFiles ---------------------------
(***************************************************************************)
(* The files that are read and the formats beside them, on small           *)
(* instances: the view of an index of one to five terms and three          *)
(* documents, whose strings share no, one and two symbols and whose titles *)
(* come in every order; the iterator over the posting lists that the view  *)
(* finds, on every list over the documents 0..5 in blocks of one to three  *)
(* postings; the alphabetic codes of every alphabet of up to six symbols;  *)
(* the prefix maps of every subset of eight words; irk-warc on archives    *)
(* cut anywhere; and views of a file that is rewritten.                    *)
(*                                                                         *)
(* Each reader works alone: reads says which of them a behaviour is of.    *)
(***************************************************************************)
EXTENDS IndexView, PostingIterator, PrefixMap, MemoryView

CONSTANTS MaxFrequency, Lowered

VARIABLES
  reads,
  frequencies,
  archive, in, warc_fields, http_fields, content, lines, line_open, reading,
  expected   \* what irk-warc is to print, and whether the archive is cut in a field

W == INSTANCE WarcReader

warc == <<archive, in, warc_fields, http_fields, content, lines, line_open, reading>>
mcvars == <<reads, vars, iterator_vars, map_vars, view_vars, warc, frequencies, expected>>

-----------------------------------------------------------------------------
MCTerms   == { <<1>>, <<1, 1>>, <<1, 2>>, <<2>>, <<2, 1>> }
MCStrings == MCTerms \cup { EmptyString, <<2, 2>> }

(* One term, and several, of which some are unknown and one is asked for   *)
(* twice.                                                                  *)
MCQueries ==
  { << <<1, 1>> >>, << <<2>>, <<1>> >>, << <<1, 2>>, EmptyString, <<2, 1>>, <<1, 2>> >> }

Titles == SetToSeqs({ <<1>>, <<1, 2>>, <<2>> })
MCOrderings ==
  { << >>, << <<2>>, <<1>> >>, << <<1>>, <<2, 1>>, <<1, 2>> >> }

(* Longer and longer lists.                                                 *)
DocumentsOf(t) == [i \in 1..(((2 * t) % 3) + 1) |-> i - 1]

Index(strings, names) ==
  [ terms     |-> SetToSortSeq(strings, Before),
    titles    |-> names,
    sizes     |-> <<5, 1, 17>>,
    documents |-> [t \in 1..Cardinality(strings) |-> DocumentsOf(t)],
    counts    |-> [t \in 1..Cardinality(strings) |-> [i \in DOMAIN DocumentsOf(t) |-> i + t]],
    scores    |-> [name \in {"bm25-8", "ql-8"} |->
                     [t \in 1..Cardinality(strings) |->
                        [i \in DOMAIN DocumentsOf(t) |-> IF name = "ql-8" THEN 3 ELSE i + 9 * t]]] ]

(* Every order of the titles with two terms, and one with others.           *)
MCIndexes ==
  { Index(strings, names) : strings \in { {<<1>>, <<1, 2>>}, {<<1>>, <<2>>} },
                            names \in Titles }
  \cup { Index(strings, CHOOSE names \in Titles : Ascending(names)) :
           strings \in SUBSET MCTerms \ {{}} }

(* No scores, two with one of them the default, one, some not there.        *)
MCScoreNames ==
  [i \in MCIndexes |->
     CASE i.terms = << <<2>> >> -> <<"bm25-4">> [] Len(i.terms) \in {2, 5} -> <<"ql-8", "bm25-8">>
       [] Len(i.terms) = 3 -> << >>        [] OTHER -> <<"bm25-8">>]

(* Payloads tell postings apart.                                            *)
MCLists ==
  { [i \in DOMAIN s |-> [document |-> s[i], payload |-> 10 + s[i]]] :
      s \in { SetToSortSeq(S, <) : S \in SUBSET (0..5) } }
SameSizes == { <<n, n>> : n \in 1..3 }

-----------------------------------------------------------------------------
(* Words over three symbols, one of them negative as a char.               *)

WordsInOrder == <<<<0, 0, -1, 1, -1, 1, 0, -1>>, <<0, 1, -1>>, <<1>>, <<1, 1, 1>>, <<1, -1, 1, 0>>,
                  <<-1>>, <<-1, 0, -1, 1>>, <<-1, 1, 1, -1, -1, 0, 1, 1, 0>>>>
Words == {WordsInOrder[i] : i \in DOMAIN WordsInOrder}
Keys == Words \cup {<<0, 0>>, <<0, 1>>, <<1, 1>>, <<1, 1, -1>>, <<-1, -1>>}

WordLists ==
  {SelectSeq(WordsInOrder, LAMBDA word : word \in words) :
     words \in {w \in SUBSET Words : Cardinality(UNION {ToSet(word) : word \in w}) >= 2}}

-----------------------------------------------------------------------------
Newline == W!Newline
Field(name, value) == <<<<"field", name, value>>, Newline>>
Version == <<<<"version">>, Newline>>

Info == Version \o Field("WARC-Type", "warcinfo") \o <<Newline>>
        \o Field("Content-Length", 9) \o <<Newline>>

(* A record with a content of pages; its fields tell the length of header  *)
(* and content, its header that of the content.                            *)
Record(type, id, pages) ==
  Version \o Field("WARC-Type", type) \o Field("WARC-TREC-ID", id) \o Field("WARC-Target-URI", id)
  \o Field("Content-Length", Len(pages) + 1) \o <<Newline>>
  \o <<<<"status">>, Newline>> \o Field("Content-Length", Len(pages)) \o <<Newline>>
  \o pages \o <<Newline, Newline>>

Page(words) ==
  <<"page", <<"element", "html", <<<<"element", "script", <<<<"text", <<"code">>>>>>>>,
                                   <<"text", words>>>>>>>>

Rows == {[type |-> "response", id |-> "d1", pages |-> <<Page(<<"Cat", "dog">>)>>],
         [type |-> "response", id |-> "d2", pages |-> <<Page(<<>>)>>],
         [type |-> "response", id |-> "d3", pages |-> <<Page(<<"dog">>), Newline, Page(<<"Cat">>)>>],
         [type |-> "request", id |-> "d4", pages |-> <<Newline>>]}

RecordOf(row) == Record(row.type, row.id, row.pages)

Printed(row) ==
  [trecid |-> row.id, url |-> row.id, size |-> Len(row.pages), body |-> W!write_body(row.pages)]

(* The start of an archive of two records, cut behind some token or whole. *)
StartOfArchive(prefix, a, b) ==
  LET whole == prefix \o RecordOf(a) \o RecordOf(b)
      Complete(n) == SelectSeq((IF n >= Len(prefix \o RecordOf(a)) THEN <<a>> ELSE <<>>)
                               \o (IF n = Len(whole) THEN <<b>> ELSE <<>>),
                               LAMBDA row : row.type = "response")
  IN  \E n \in 0..Len(whole) :
        /\ W!Start(SubSeq(whole, 1, n))
        /\ expected = [rows |-> [i \in DOMAIN Complete(n) |-> Printed(Complete(n)[i])],
                       cut_in_field |-> n > 0 /\ whole[n][1] = "field"]

-----------------------------------------------------------------------------
MCContents == {<<1, 2, 3>>, <<4, 5>>}
MCLowered == ("Cat" :> "cat")

-----------------------------------------------------------------------------
NoIndex ==
  /\ index = <<>> /\ files = <<>> /\ view = <<>> /\ cursor = <<>> /\ steps = 0
  /\ answer = NoAnswer
NoPostings ==
  /\ written = <<>>
  /\ documents = Write(<<>>, 1, TRUE) /\ payloads = Write(<<>>, 1, FALSE)
  /\ document_position = Begin /\ payload_position = Begin
NoMap ==
  /\ codec = <<>> /\ items = <<>> /\ from_file = TRUE /\ added = 0 /\ blocks = <<>>
  /\ block_count = 0 /\ leaders = {} /\ builder = <<>> /\ outcome = "thrown"
NoArchive ==
  /\ archive = <<>> /\ in = <<>> /\ warc_fields = <<>> /\ http_fields = <<>> /\ content = <<>>
  /\ lines = <<>> /\ line_open = <<>> /\ reading = "end"
  /\ expected = [rows |-> <<>>, cut_in_field |-> FALSE]
NoViews == file = <<>> /\ memory = <<>> /\ views = <<>> /\ shown = <<>>

MCInit ==
  /\ reads \in {"files", "postings", "codes", "map", "archive", "views"}
  /\ IF reads = "files" THEN Init ELSE NoIndex
  /\ IF reads = "postings" THEN IteratorInit ELSE NoPostings
  /\ IF reads = "codes" THEN frequencies \in [Bytes -> 0..MaxFrequency] ELSE frequencies = <<>>
  /\ IF reads = "map" THEN \E words \in WordLists, saved \in BOOLEAN : Start(words, saved)
     ELSE NoMap
  /\ IF reads = "archive"
     THEN \E prefix \in {<<>>, Info}, a \in Rows, b \in Rows : StartOfArchive(prefix, a, b)
     ELSE NoArchive
  /\ IF reads = "views" THEN InitViews ELSE NoViews

(* There is nothing more to read, or the program was left by an exception. *)
Ended ==
  /\ \/ reads = "files" /\ answer.op = "invalid_scores"
     \/ reads = "codes"
     \/ reads = "map" /\ outcome \in {"loaded", "thrown"}
     \/ reads = "archive" /\ reading \in {"end", "thrown"}
  /\ UNCHANGED mcvars

MCNext ==
  \/ /\ reads = "files" /\ Next
     /\ UNCHANGED <<reads, iterator_vars, map_vars, view_vars, warc, frequencies, expected>>
  \/ /\ reads = "postings" /\ IteratorNext
     /\ UNCHANGED <<reads, vars, map_vars, view_vars, warc, frequencies, expected>>
  \/ /\ reads = "map" /\ MapNext
     /\ UNCHANGED <<reads, vars, iterator_vars, view_vars, warc, frequencies, expected>>
  \/ /\ reads = "archive" /\ W!Next
     /\ UNCHANGED <<reads, vars, iterator_vars, map_vars, view_vars, frequencies, expected>>
  \/ /\ reads = "views" /\ NextView
     /\ UNCHANGED <<reads, vars, iterator_vars, map_vars, warc, frequencies, expected>>
  \/ Ended

MCSpec == MCInit /\ [][MCNext]_mcvars /\ WF_warc(W!Next)

-----------------------------------------------------------------------------
(* The least number of bits for a text that an alphabetic tree can reach,  *)
(* from the weights of its leaves: what Hu and Tucker's algorithm is to    *)
(* find.                                                                   *)
LeastBits(weights) ==
  LET n == Len(weights)
      Weight(i, j) == MapThenSumSet(LAMBDA k : weights[k], i..j)
      least[p \in (1..n) \X (1..n)] ==
        IF p[1] = p[2] THEN 0
        ELSE Weight(p[1], p[2])
             + Min({least[<<p[1], k>>] + least[<<k + 1, p[2]>>] : k \in p[1]..p[2] - 1})
  IN  least[<<1, n>>]

InOrder(symbols) ==
  SelectSeq([i \in 1..SymbolBound |-> i - 1 - SymbolBound \div 2], LAMBDA s : s \in symbols)

Used == {Signed(byte) : byte \in {b \in DOMAIN frequencies : frequencies[b] > 0}}

(* Whatever the frequencies of at least two symbols are, the tree of the   *)
(* first phase can be put in order (reconstruct does not throw), and no    *)
(* alphabetic code is shorter than that of the compact tree.  Codes are in *)
(* the order of their symbols, none begins another, and a text written to  *)
(* a stream of bits and flushed is read back from it.                      *)
CodesExact ==
  Cardinality(Used) > 1 =>
    /\ hutucker_tree(frequencies) # <<>>
    /\ \E abst \in {hutucker_codec(frequencies)}, used \in {InOrder(Used)} :
         /\ MapThenSumSet(LAMBDA s : frequencies[Unsigned(s)] * Len(encode_symbol(abst, s)), Used)
              = LeastBits([i \in DOMAIN used |-> frequencies[Unsigned(used[i])]])
         /\ \A a, b \in Used :
              a < b => LET c == encode_symbol(abst, a)
                           d == encode_symbol(abst, b)
                       IN  \E n \in DOMAIN c \cap DOMAIN d :
                             c[n] < d[n] /\ \A m \in 1..n - 1 : c[m] = d[m]
         /\ \E text \in {Reverse(used) \o used} :
              LET bits == read_bits(write_bits(hutucker_encode(abst, text)))
              IN  hutucker_decode(abst, bits, 0, Len(text)).word = text

(* Wherever a word follows another in a block, the code of that one is so  *)
(* short that the shift of a bit pointer holds it.                         *)
ShiftsHold ==
  LET IsLeader(word) == \E leader \in leaders : leader.word = word
      Coded(i) == IF IsLeader(items[i]) THEN items[i]
                  ELSE SubSeq(items[i], SharedPrefix(items[i - 1], items[i]) + 1, Len(items[i]))
  IN  \A i \in 1..Len(items) - 1 :
        IsLeader(items[i + 1]) \/ Len(hutucker_encode(codec, Coded(i))) <= ShiftRange - ByteBits

NothingExpanded == Cardinality(leaders) = block_count

(* A prefix map finds the index of every word that is in it and of no      *)
(* other; and when no block had to be expanded it also has the words at    *)
(* their indices, and shows them all in order.                             *)
PrefixMapExact ==
  outcome \in {"built", "loaded"} /\ ShiftsHold =>
    /\ \A key \in Keys : index_of(key) = {i - 1 : i \in {n \in DOMAIN items : items[n] = key}}
    /\ NothingExpanded =>
         /\ \A i \in DOMAIN items : word_at(i - 1) = items[i]
         /\ ShownFrom(<<0, 0>>) = items

-----------------------------------------------------------------------------
(* irk-warc prints the responses that the archive holds to the last        *)
(* newline, each with its own fields and words and in their order, whatever *)
(* follows them; a response with words ends its line.                      *)
ShowsResponses ==
  LET printed == FlattenSeq(lines) \o line_open
  IN  /\ IsPrefix(printed, expected.rows)
      /\ reading \in {"end", "thrown"} => printed = expected.rows
      /\ \A i \in DOMAIN lines :
           \A k \in DOMAIN lines[i] : lines[i][k].body # <<>> <=> k = Len(lines[i])

(* Every archive is read to its end, but for one that is cut within a     *)
(* field: read_fields then sees the same line for ever.                    *)
ReadingEnds == ~expected.cut_in_field ~> reading \in {"end", "thrown"}
=============================================================================
