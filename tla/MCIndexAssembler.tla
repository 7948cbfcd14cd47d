--------------------------- MODULE MCIndexAssembler ---------------------------
(* Checks IndexAssembler on every input of at most MaxLines of three lines:  *)
(* two documents and one to ignore.                                          *)
EXTENDS IndexAssembler

CONSTANT MaxLines

Line(name, text) == [title |-> name, words |-> text]
Lines == { Line(1, <<2, 1>>), Line(2, <<2, 2>>), Line(3, <<1>>) }
MCCollections == UNION { [1..n -> Lines] : n \in 0..MaxLines }
MCDocs == 0..(MaxLines - 1)
=============================================================================
