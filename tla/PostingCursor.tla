---------------------------- MODULE PostingCursor ----------------------------
(***************************************************************************)
(* What an iterator of a posting list promises query processing: it walks  *)
(* through increasing documents, jumps to the first that is not before a   *)
(* given one, never goes back, and shows the payload of its document.      *)
(* PostingIterator, with its blocks, is shown to implement it.             *)
(***************************************************************************)
EXTENDS Integers, Sequences

CONSTANT Lists   (* sequences of [document, payload] by increasing document *)

VARIABLES
  list,   (* the posting list                                              *)
  behind, (* idx(): how many postings are behind; the length is the end    *)
  shown   (* << >> at the end, else the posting it shows, with its payload *)

vars == <<list, behind, shown>>

AtEnd == behind = Len(list)

Current == IF AtEnd THEN << >> ELSE <<list[behind + 1]>>

Init == list \in Lists /\ behind = 0 /\ shown = Current

Increment ==
  /\ ~AtEnd
  /\ behind' = behind + 1
  /\ shown' = Current'
  /\ UNCHANGED list

(* The first posting from here on whose document is not before doc.        *)
AdvanceTo(doc) ==
  /\ behind' \in behind..Len(list)
  /\ \A i \in (behind + 1)..behind' : list[i].document < doc
  /\ behind' < Len(list) => list[behind' + 1].document >= doc
  /\ shown' = Current'
  /\ UNCHANGED list

Next == Increment \/ \E doc \in Nat : AdvanceTo(doc)

Spec == Init /\ [][Next]_vars
=============================================================================
