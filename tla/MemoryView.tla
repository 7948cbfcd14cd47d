----------------------------- MODULE MemoryView -----------------------------
(***************************************************************************)
(* irk::memory_view (memoryview.hpp): bytes of a file, wherever they are.  *)
(* Views are cut out of views; one of a file on disk reads its bytes when  *)
(* they are first asked for, and the file may have been rewritten by then. *)
(* Ranges are within the view they are cut from, as with every caller.     *)
(***************************************************************************)
EXTENDS Integers, Sequences

CONSTANTS
  Contents,   (* what may be in the file: sequences of bytes               *)
  MaxViews    (* bounds how many views there are                           *)

VARIABLES
  file,    (* the bytes in the file                                        *)
  memory,  (* those that were loaded or mapped                             *)
  views,   (* [kind, first, size, buffer], and history: positions, those   *)
           (* of the file that are to be shown; read, what the file had    *)
           (* when the buffer was filled; failed, whether there was less   *)
  shown    (* << >>, or the view whose data() was called last              *)

view_vars == <<file, memory, views, shown>>

Kinds == {"pointer", "span", "mapped", "disk"}

NewView(kind, first, size, positions) ==
  [ kind |-> kind, first |-> first, size |-> size, buffer |-> << >>,
    positions |-> positions, read |-> << >>, failed |-> FALSE ]

InitViews ==
  /\ file \in Contents /\ memory = file
  /\ views = << >> /\ shown = << >>

(* make_memory_view(), and the sources' constructors.                      *)
make_memory_view(kind) ==
  LET bytes == IF kind = "disk" THEN file ELSE memory
  IN  /\ Len(views) < MaxViews
      /\ views' = Append(views, NewView(kind, 0, Len(bytes), [i \in DOMAIN bytes |-> i]))
      /\ shown' = << >>
      /\ UNCHANGED <<file, memory>>

(* A slip that ViewsShowFile catches: a range of a range starts from the   *)
(* beginning of the file.                                                  *)
range_from_beginning(view, first, size, positions) ==
  NewView(IF view.kind = "mapped" THEN "pointer" ELSE view.kind, first, size, positions)

(* range() of a source: of a mapped one, a pointer; on disk, bytes that    *)
(* have not been read.                                                     *)
range(view, first, size, positions) ==
  NewView(IF view.kind = "mapped" THEN "pointer" ELSE view.kind,
          view.first + first, size, positions)

Cut(view, first, size, positions) ==
  /\ Len(views) < MaxViews
  /\ views' = Append(views, range(view, first, size, positions))
  /\ shown' = << >>
  /\ UNCHANGED <<file, memory>>

(* operator[] with a slice, whose ends may be left out: a pair of a        *)
(* position, or << >>, each.  The right end is included, so that no slice  *)
(* is empty.                                                               *)
slice(view, ends) ==
  LET left  == IF ends[1] = << >> THEN 0 ELSE ends[1][1]
      right == IF ends[2] = << >> THEN view.size - 1 ELSE ends[2][1]
  IN  /\ left <= right
      /\ Cut(view, left, right - left + 1, SubSeq(view.positions, left + 1, right + 1))

(* operator() with a half-open range.                                      *)
half_open(view, lo, hi) ==
  lo <= hi /\ Cut(view, lo, hi - lo, SubSeq(view.positions, lo + 1, hi))

(* operator() with a cut: the first bytes, or, if it is negative, as many  *)
(* of the last.                                                            *)
cut(view, n) ==
  IF n < 0
  THEN Cut(view, view.size + n, -n,
           SubSeq(view.positions, Len(view.positions) + n + 1, Len(view.positions)))
  ELSE Cut(view, 0, n, SubSeq(view.positions, 1, n))

(* ensure_loaded() of a source on disk.  Has the file become too short, it *)
(* throws, but the buffer has its size by then: what was not read is 0.    *)
ensure_loaded(view) ==
  IF view.kind # "disk" \/ view.buffer # << >> THEN view
  ELSE [view EXCEPT
          !.buffer = [i \in 1..view.size |->
                        IF view.first + i <= Len(file) THEN file[view.first + i] ELSE 0],
          !.read   = file,
          !.failed = view.first + view.size > Len(file)]

data(v) ==
  /\ views[v].size > 0
  /\ views' = [views EXCEPT ![v] = ensure_loaded(@)]
  /\ shown' = << v >>
  /\ UNCHANGED <<file, memory>>

(* The file is written anew by another program.                            *)
rewrite ==
  /\ file' \in Contents \ {file}
  /\ shown' = << >>
  /\ UNCHANGED <<memory, views>>

Ends(view) == {<< >>} \cup { <<i>> : i \in 0..(view.size - 1) }

NextView ==
  \/ \E kind \in Kinds : make_memory_view(kind)
  \/ \E v \in DOMAIN views :
       \/ \E left, right \in Ends(views[v]) : slice(views[v], <<left, right>>)
       \/ \E lo, hi \in 0..views[v].size : half_open(views[v], lo, hi)
       \/ \E n \in -views[v].size..views[v].size : cut(views[v], n)
       \/ data(v)
  \/ rewrite

ViewSpec == InitViews /\ [][NextView]_view_vars

-----------------------------------------------------------------------------
(* However a view was cut out of others, it shows the bytes it is to show: *)
(* of what was loaded or mapped, or, on disk, all of one content that the  *)
(* file has had, unless its first data() threw.                            *)
BytesShown(view) ==
  IF view.kind = "disk" THEN view.buffer ELSE SubSeq(memory, view.first + 1, view.first + view.size)

ViewsShowFile ==
  shown # << >> /\ ~views[shown[1]].failed =>
    LET view   == views[shown[1]]
        source == IF view.kind = "disk" THEN view.read ELSE memory
    IN  BytesShown(view) = [i \in DOMAIN view.positions |-> source[view.positions[i]]]
=============================================================================
