----------------------------- MODULE WarcReader -----------------------------
(***************************************************************************)
(* irk-warc: reads the records of a web archive (io/warc.hpp) and prints a *)
(* line for every response: its TREC id, URL, length and the words of its  *)
(* page (irk-warc.cpp, parsing/html.hpp).                                  *)
(*                                                                         *)
(* The archive is a stream of tokens: a version, a field with its value, a *)
(* line that is no field, a page (a tree), a newline.  The length of a     *)
(* content counts tokens where the code counts characters.                 *)
(***************************************************************************)
EXTENDS Integers, Sequences, SequencesExt, FiniteSetsExt, TLC

CONSTANT Lowered   \* words to their lower case, which --lowercase asks for

VARIABLES
  archive,      \* the whole stream
  in,           \* what is left of it, eof and fail, and the line read last
  warc_fields, http_fields, content,   \* the record, used again and again
  lines, line_open,   \* rows printed on finished lines, and on the last one
  reading       \* the step the reader is at

vars == <<archive, in, warc_fields, http_fields, content, lines, line_open, reading>>

Newline == <<"newline">>

-----------------------------------------------------------------------------
(* std::istream: a stream that met its end stays there, and a line that    *)
(* cannot be read leaves the string as it was.                             *)

getline(stream) ==
  LET newlines == {i \in DOMAIN stream.rest : stream.rest[i] = Newline}
  IN  CASE stream.eof \/ stream.fail -> [stream EXCEPT !.fail = TRUE]
        [] OTHER ->
             IF newlines = {}
             THEN [rest |-> <<>>, line |-> stream.rest, eof |-> TRUE, fail |-> stream.rest = <<>>]
             ELSE [stream EXCEPT !.line = SubSeq(stream.rest, 1, Min(newlines) - 1),
                                 !.rest = SubSeq(@, Min(newlines) + 1, Len(@))]

(* The same for a string that has just been declared.                      *)
getline_fresh(stream) == getline([stream EXCEPT !.line = <<>>])

read(stream, length) ==
  IF stream.eof \/ stream.fail \/ Len(stream.rest) < length
  THEN [stream EXCEPT !.rest = <<>>, !.eof = TRUE, !.fail = TRUE]
  ELSE [stream EXCEPT !.rest = SubSeq(@, length + 1, Len(@))]

-----------------------------------------------------------------------------
(* The text of a page: what scripts and styles hold is left out.           *)
RECURSIVE cleantext(_)
cleantext(node) ==
  CASE node[1] = "text" -> node[2]
    [] node[1] = "element" /\ node[2] \notin {"script", "style"} ->
         FlattenSeq([i \in DOMAIN node[3] |-> cleantext(node[3][i])])
    [] OTHER -> <<>>

Words(pages) ==
  FlattenSeq([i \in DOMAIN pages |-> IF pages[i][1] = "page" THEN cleantext(pages[i][2]) ELSE <<>>])

(* write_term, for each term that body_writer finds.                       *)
write_term(word) == IF word \in DOMAIN Lowered THEN Lowered[word] ELSE word

write_body(pages) ==
  LET words == Words(pages) IN [i \in DOMAIN words |-> write_term(words[i])]

-----------------------------------------------------------------------------
Start(stream) ==
  /\ archive = stream
  /\ in = [rest |-> stream, line |-> <<>>, eof |-> FALSE, fail |-> FALSE]
  /\ warc_fields = <<>> /\ http_fields = <<>> /\ content = <<>>
  /\ lines = <<>> /\ line_open = <<>>
  /\ reading = "version"

(* A slip that ReadingEnds catches: empty lines are skipped until there is *)
(* a version, without a look at the stream.                                *)
read_version_patient ==
  /\ reading = "version"
  /\ \E first \in {getline_fresh(in)} :
     \E next \in {IF first.line = <<>> THEN getline(first) ELSE first} :
       CASE first.line = <<>> /\ next.fail ->
              in' = next /\ reading' = "version"
         [] next.line # <<>> /\ next.line[1] = <<"version">> ->
              in' = getline_fresh(next) /\ reading' = "warc_fields"
         [] OTHER -> in' = next /\ reading' = "thrown"
  /\ UNCHANGED <<archive, warc_fields, http_fields, content, lines, line_open>>

(* read_version: an empty line may stand before it.                        *)
read_version ==
  /\ reading = "version"
  /\ \E first \in {getline_fresh(in)} :
     \E next \in {IF first.line = <<>> THEN getline(first) ELSE first} :
       CASE first.line = <<>> /\ next.fail ->
              in' = next /\ reading' = "end"
         [] next.line # <<>> /\ next.line[1] = <<"version">> ->
              in' = getline_fresh(next) /\ reading' = "warc_fields"
         [] OTHER -> in' = next /\ reading' = "thrown"
  /\ UNCHANGED <<archive, warc_fields, http_fields, content, lines, line_open>>

Added(fields) ==
  IF in.line[1][1] = "field" THEN (in.line[1][2] :> in.line[1][3]) @@ fields ELSE fields

(* One round of read_fields, for the fields before and behind the status   *)
(* line.                                                                   *)
read_warc_field ==
  /\ reading = "warc_fields"
  /\ in.line # <<>>
  /\ warc_fields' = Added(warc_fields)
  /\ in' = getline(in)
  /\ UNCHANGED <<archive, http_fields, content, lines, line_open, reading>>

read_http_field ==
  /\ reading = "http_fields"
  /\ in.line # <<>>
  /\ http_fields' = Added(http_fields)
  /\ in' = getline(in)
  /\ UNCHANGED <<archive, warc_fields, content, lines, line_open, reading>>

IsInfo == warc_fields["WARC-Type"] = "warcinfo"

(* Between them: the status line, which warcinfo has not.                  *)
read_status ==
  /\ reading = "warc_fields"
  /\ in.line = <<>>
  /\ IF "WARC-Type" \notin DOMAIN warc_fields
     THEN reading' = "thrown" /\ in' = in
     ELSE /\ in' = getline_fresh(IF IsInfo THEN in ELSE getline_fresh(in))
          /\ reading' = "http_fields"
  /\ UNCHANGED <<archive, warc_fields, http_fields, content, lines, line_open>>

(* A slip that ShowsResponses catches: the length of the content is taken  *)
(* from the archive's fields, where it counts the header too.              *)
Length_of_record == warc_fields["Content-Length"]

Length == http_fields["Content-Length"]

BehindContent(stream) == getline(getline(stream))

(* The content, and the two lines behind it; without them the stream has   *)
(* failed and the loop of process() ends.                                  *)
read_content ==
  /\ reading = "http_fields"
  /\ in.line = <<>>
  /\ IF IsInfo THEN reading' = (IF in.fail THEN "end" ELSE "version") /\ UNCHANGED <<in, content>>
     ELSE IF "Content-Length" \notin DOMAIN http_fields
     THEN reading' = "thrown" /\ UNCHANGED <<in, content>>
     ELSE \E next \in {BehindContent(read(in, Length))} :
            /\ content' = IF Len(in.rest) < Length THEN content ELSE SubSeq(in.rest, 1, Length)
            /\ in' = next
            /\ reading' = CASE next.fail -> "end"
                            [] warc_fields["WARC-Type"] = "response" -> "print"
                            [] OTHER -> "version"
  /\ UNCHANGED <<archive, warc_fields, http_fields, lines, line_open>>

(* print_field for t, u, s and b.  The line ends with the words: without   *)
(* one it goes on with the next response.                                  *)
print_fields ==
  /\ reading = "print"
  /\ IF {"WARC-TREC-ID", "WARC-Target-URI"} \subseteq DOMAIN warc_fields
     THEN LET words == write_body(content)
              row == [trecid |-> warc_fields["WARC-TREC-ID"], url |-> warc_fields["WARC-Target-URI"],
                      size |-> http_fields["Content-Length"], body |-> words]
          IN  /\ reading' = "version"
              /\ IF words = <<>> THEN line_open' = Append(line_open, row) /\ lines' = lines
                 ELSE lines' = Append(lines, Append(line_open, row)) /\ line_open' = <<>>
     ELSE reading' = "thrown" /\ UNCHANGED <<lines, line_open>>
  /\ UNCHANGED <<archive, in, warc_fields, http_fields, content>>

Next ==
  \/ read_version \/ read_warc_field \/ read_status \/ read_http_field \/ read_content
  \/ print_fields

=============================================================================
