-------------------------- MODULE MemoryView_proofs --------------------------
(***************************************************************************)
(* Proof that every view shows the bytes it is to show (ViewsShowFile of   *)
(* MemoryView), for all contents of the file, any number of views and any  *)
(* depth of ranges of ranges.                                              *)
(*                                                                         *)
(* What has to be carried along is where a view stands: its positions are  *)
(* those from first on, and, if it is not on disk, they are in memory.     *)
(* And a buffer that is filled has the bytes of what was read.             *)
(***************************************************************************)
EXTENDS MemoryView, TLAPS

ContentsAreBytes == Contents \subseteq Seq(Int)

View == [ kind : Kinds, first : Nat, size : Nat, buffer : Seq(Int),
          positions : Seq(Nat), read : Seq(Int), failed : BOOLEAN ]

(* The bytes that are read from a content at the place of a view.          *)
BytesAt(view, content) ==
  [i \in 1..view.size |-> IF view.first + i <= Len(content) THEN content[view.first + i] ELSE 0]

Loaded(view) ==
  /\ view.buffer = BytesAt(view, view.read)
  /\ ~view.failed => view.first + view.size <= Len(view.read)

InMemory(view) == view.first + view.size <= Len(memory) /\ ~view.failed

Placed(view) ==
  /\ view.positions = [i \in 1..view.size |-> view.first + i]
  /\ view.kind # "disk" => InMemory(view)
  /\ view.kind = "disk" /\ view.buffer # << >> => Loaded(view)

ShownIsReady ==
  shown = << >> \/ \E v \in DOMAIN views :
    shown = << v >> /\ (views[v].kind = "disk" => views[v].buffer # << >>)

Inv ==
  /\ file \in Seq(Int) /\ memory \in Seq(Int)
  /\ views \in Seq(View)
  /\ \A v \in DOMAIN views : Placed(views[v])
  /\ ShownIsReady

LEMMA AppendElement ==
  ASSUME NEW S, NEW s \in Seq(S), NEW e \in S
  PROVE  /\ Append(s, e) \in Seq(S)
         /\ \A i \in DOMAIN Append(s, e) :
              \/ Append(s, e)[i] = e
              \/ i \in DOMAIN s /\ Append(s, e)[i] = s[i]
  <1> DEFINE longer == Append(s, e)
  <1>1. longer \in Seq(S) /\ Len(longer) = Len(s) + 1 /\ longer[Len(s) + 1] = e
    OBVIOUS
  <1>2. \A i \in 1..Len(s) : longer[i] = s[i]
    OBVIOUS
  <1>3. /\ Len(s) \in Nat /\ DOMAIN s = 1..Len(s)
        /\ DOMAIN longer = 1..(Len(s) + 1)
    BY <1>1
  <1> HIDE DEF longer
  <1>4. ASSUME NEW i \in DOMAIN longer
        PROVE  longer[i] = e \/ (i \in DOMAIN s /\ longer[i] = s[i])
    <2>1. i = Len(s) + 1 \/ i \in 1..Len(s)
      BY <1>3
    <2> QED BY <1>1, <1>2, <1>3, <2>1
  <1> QED BY <1>1, <1>4 DEF longer

(* The elements of a sequence after the first ones.                        *)
LEMMA Subsequence ==
  ASSUME NEW S, NEW s \in Seq(S), NEW first \in Nat, NEW size \in Nat, first + size <= Len(s)
  PROVE  /\ SubSeq(s, first + 1, first + size) \in Seq(S)
         /\ SubSeq(s, first + 1, first + size) = [i \in 1..size |-> s[first + i]]
  <1> DEFINE part == SubSeq(s, first + 1, first + size)
  <1>1. part \in Seq(S) /\ Len(part) = size
    OBVIOUS
  <1>2. \A i \in 1..size : part[i] = s[first + i]
    OBVIOUS
  <1>3. part = [i \in 1..Len(part) |-> part[i]]
    BY <1>1
  <1> QED BY <1>1, <1>2, <1>3

(* What is known of each view.                                             *)
LEMMA Fields ==
  ASSUME NEW view \in View, Placed(view)
  PROVE  /\ view.kind \in Kinds /\ view.first \in Nat /\ view.size \in Nat
         /\ view.buffer \in Seq(Int) /\ view.read \in Seq(Int) /\ view.failed \in BOOLEAN
         /\ view.positions \in Seq(Nat) /\ Len(view.positions) = view.size
         /\ DOMAIN view.positions = 1..view.size
         /\ \A i \in 1..view.size : view.positions[i] = view.first + i
  <1>1. /\ view.kind \in Kinds /\ view.first \in Nat /\ view.size \in Nat
        /\ view.buffer \in Seq(Int) /\ view.read \in Seq(Int) /\ view.failed \in BOOLEAN
        /\ view.positions \in Seq(Nat)
    BY DEF View
  <1>2. view.positions = [i \in 1..view.size |-> view.first + i]
    BY DEF Placed
  <1>3. DOMAIN view.positions = 1..view.size
    BY <1>2
  <1>4. \A i \in 1..view.size : view.positions[i] = view.first + i
    BY <1>2
  <1>5. Len(view.positions) = view.size
    BY <1>1, <1>3
  <1> QED BY <1>1, <1>3, <1>4, <1>5

LEMMA EachView ==
  ASSUME Inv, NEW v \in DOMAIN views
  PROVE  views[v] \in View /\ Placed(views[v])
  <1>1. views \in Seq(View)
    BY DEF Inv
  <1>2. views[v] \in View
    BY <1>1
  <1> QED BY <1>2 DEF Inv

LEMMA InitInv ==
  ASSUME ContentsAreBytes PROVE InitViews => Inv
  BY DEF ContentsAreBytes, InitViews, Inv, ShownIsReady, Placed

(* One view more, and none shown.                                          *)
LEMMA AppendInv ==
  ASSUME Inv, NEW view \in View, Placed(view),
         views' = Append(views, view), shown' = << >>, UNCHANGED <<file, memory>>
  PROVE  Inv'
  <1>1. /\ views' \in Seq(View)
        /\ \A v \in DOMAIN views' :
             views'[v] = view \/ (v \in DOMAIN views /\ views'[v] = views[v])
    <2>1. views \in Seq(View)
      BY DEF Inv
    <2> QED BY <2>1, AppendElement
  <1>2. \A v \in DOMAIN views' : Placed(views'[v])
    BY <1>1 DEF Inv
  <1>3. \A v \in DOMAIN views' : Placed(views[v])'
    BY <1>2 DEF Placed, InMemory, Loaded, BytesAt
  <1> QED BY <1>1, <1>3 DEF Inv, ShownIsReady

(* A view of the whole file, or of what was loaded.                        *)
LEMMA MakeInv ==
  ASSUME Inv, NEW kind \in Kinds, make_memory_view(kind)
  PROVE  Inv'
  <1> DEFINE bytes == IF kind = "disk" THEN file ELSE memory
             view  == NewView(kind, 0, Len(bytes), [i \in DOMAIN bytes |-> i])
  <1>1. bytes \in Seq(Int)
    BY DEF Inv
  <1>2. view \in View
    <2>1. [i \in DOMAIN bytes |-> i] \in Seq(Nat)
      BY <1>1
    <2> QED BY <1>1, <2>1 DEF NewView, View
  <1>3. Placed(view)
    <2>1. DOMAIN bytes = 1..Len(bytes)
      BY <1>1
    <2>2. kind # "disk" => InMemory(view)
      BY <1>1 DEF NewView, InMemory
    <2> QED BY <1>1, <2>1, <2>2 DEF NewView, Placed
  <1>4. views' = Append(views, view) /\ shown' = << >> /\ UNCHANGED <<file, memory>>
    BY DEF make_memory_view
  <1> HIDE DEF view
  <1> QED BY <1>2, <1>3, <1>4, AppendInv

(* Every cut of a view is a range within it, with the positions that are   *)
(* there.                                                                  *)
LEMMA CutInv ==
  ASSUME Inv, NEW v \in DOMAIN views, NEW first \in Nat, NEW size \in Nat,
         first + size <= views[v].size,
         Cut(views[v], first, size, SubSeq(views[v].positions, first + 1, first + size))
  PROVE  Inv'
  <1> DEFINE whole == views[v]
             positions == SubSeq(whole.positions, first + 1, first + size)
             part == range(whole, first, size, positions)
  <1>1. whole \in View /\ Placed(whole)
    BY EachView
  <1>2. /\ whole.first \in Nat /\ whole.size \in Nat /\ whole.kind \in Kinds
        /\ whole.positions \in Seq(Nat) /\ Len(whole.positions) = whole.size
        /\ \A i \in 1..whole.size : whole.positions[i] = whole.first + i
    BY <1>1, Fields
  <1>3. /\ positions = [i \in 1..size |-> whole.positions[first + i]]
        /\ positions \in Seq(Nat)
    <2> DEFINE all == whole.positions
    <2>1. /\ all \in Seq(Nat) /\ first \in Nat /\ size \in Nat
          /\ first + size <= Len(all)
      BY <1>2
    <2> HIDE DEF all
    <2>2. SubSeq(all, first + 1, first + size) = [i \in 1..size |-> all[first + i]]
      BY <2>1, Subsequence, SMTT(40)
    <2>3. SubSeq(all, first + 1, first + size) \in Seq(Nat)
      BY <2>1, SMTT(40)
    <2> QED BY <2>2, <2>3 DEF all
  <1>4. positions = [i \in 1..size |-> whole.first + first + i]
    <2>1. \A i \in 1..size : first + i \in 1..whole.size
      BY <1>2
    <2>2. ASSUME NEW i \in 1..size
          PROVE  whole.positions[first + i] = whole.first + first + i
      <3>1. whole.positions[first + i] = whole.first + (first + i)
        BY <1>2, <2>1
      <3>2. whole.first + (first + i) = whole.first + first + i
        BY <1>2
      <3> QED BY <3>1, <3>2
    <2> QED BY <1>3, <2>2
  <1>5. part \in View
    BY <1>2, <1>3 DEF range, NewView, View, Kinds
  <1>6. Placed(part)
    <2>1. part.kind # "disk" => whole.kind # "disk"
      BY DEF range, NewView
    <2>2. part.kind # "disk" => InMemory(part)
      BY <1>1, <1>2, <2>1, SMTT(30) DEF range, NewView, InMemory, Placed, Inv
    <2>3. part.positions = [i \in 1..part.size |-> part.first + i]
      BY <1>2, <1>4 DEF range, NewView
    <2>4. part.buffer = << >>
      BY DEF range, NewView
    <2> QED BY <2>2, <2>3, <2>4 DEF Placed
  <1>7. views' = Append(views, part) /\ shown' = << >> /\ UNCHANGED <<file, memory>>
    BY DEF Cut
  <1> HIDE DEF part
  <1> QED BY <1>5, <1>6, <1>7, AppendInv

LEMMA SliceInv ==
  ASSUME Inv, NEW v \in DOMAIN views, NEW left \in Ends(views[v]), NEW right \in Ends(views[v]),
         slice(views[v], <<left, right>>)
  PROVE  Inv'
  <1> DEFINE from == IF left = << >> THEN 0 ELSE left[1]
             to   == IF right = << >> THEN views[v].size - 1 ELSE right[1]
  <1>1. views[v].size \in Nat
    BY EachView, Fields
  <1>2. /\ left = << >> \/ left[1] \in 0..(views[v].size - 1)
        /\ right = << >> \/ right[1] \in 0..(views[v].size - 1)
    BY DEF Ends
  <1>3. /\ from <= to
        /\ Cut(views[v], from, to - from + 1, SubSeq(views[v].positions, from + 1, to + 1))
    BY DEF slice
  <1>4. from \in Nat /\ to \in Nat /\ to < views[v].size
    BY <1>1, <1>2, <1>3
  <1>5. to - from + 1 \in Nat /\ from + (to - from + 1) = to + 1 /\ to + 1 <= views[v].size
    BY <1>1, <1>3, <1>4, SMTT(30)
  <1> HIDE DEF from, to
  <1> QED BY <1>3, <1>4, <1>5, CutInv

LEMMA HalfOpenInv ==
  ASSUME Inv, NEW v \in DOMAIN views, NEW lo \in 0..views[v].size, NEW hi \in 0..views[v].size,
         half_open(views[v], lo, hi)
  PROVE  Inv'
  <1>1. views[v].size \in Nat
    BY EachView, Fields
  <1>2. lo \in Nat /\ hi - lo \in Nat /\ lo + (hi - lo) = hi /\ hi <= views[v].size
    BY <1>1 DEF half_open
  <1> QED BY <1>2, CutInv DEF half_open

LEMMA CutEndInv ==
  ASSUME Inv, NEW v \in DOMAIN views, NEW n \in -views[v].size..views[v].size, cut(views[v], n)
  PROVE  Inv'
  <1>1. views[v].size \in Nat /\ Len(views[v].positions) = views[v].size
    BY EachView, Fields
  <1>2. CASE n < 0
    <2>1. /\ views[v].size + n \in Nat /\ -n \in Nat
          /\ views[v].size + n + (-n) = Len(views[v].positions)
          /\ Len(views[v].positions) + n + 1 = views[v].size + n + 1
      BY <1>1, <1>2, SMTT(30)
    <2>2. Cut(views[v], views[v].size + n, -n,
              SubSeq(views[v].positions, views[v].size + n + 1, views[v].size + n + (-n)))
      BY <1>2, <2>1 DEF cut
    <2> QED BY <1>1, <2>1, <2>2, CutInv, SMTT(30)
  <1>3. CASE ~(n < 0)
    <2>1. n \in Nat /\ 0 + n = n /\ 0 + 1 = 1 /\ n <= views[v].size
      BY <1>1, <1>3
    <2>2. Cut(views[v], 0, n, SubSeq(views[v].positions, 0 + 1, 0 + n))
      BY <1>3, <2>1 DEF cut
    <2> QED BY <2>1, <2>2, CutInv
  <1> QED BY <1>2, <1>3

(* A view that is used for the first time is filled with what the file has *)
(* then, and stays where it is.                                            *)
LEMMA LoadedPlaced ==
  ASSUME Inv, NEW v \in DOMAIN views, views[v].size > 0
  PROVE  /\ ensure_loaded(views[v]) \in View
         /\ Placed(ensure_loaded(views[v]))
         /\ views[v].kind = "disk" => ensure_loaded(views[v]).buffer # << >>
         /\ ensure_loaded(views[v]).kind = views[v].kind
  <1> DEFINE view == views[v]
  <1>1. view \in View /\ Placed(view) /\ file \in Seq(Int)
    BY EachView DEF Inv
  <1>2. CASE view.kind # "disk" \/ view.buffer # << >>
    BY <1>1, <1>2 DEF ensure_loaded
  <1>3. CASE view.kind = "disk" /\ view.buffer = << >>
    <2> DEFINE bytes == BytesAt(view, file)
               full  == ensure_loaded(view)
    <2>1. view.size \in Nat /\ view.first \in Nat
      BY <1>1, Fields
    <2>2. bytes \in Seq(Int) /\ Len(bytes) = view.size
      <3>1. \A i \in 1..view.size :
              (IF view.first + i <= Len(file) THEN file[view.first + i] ELSE 0) \in Int
        BY <1>1, <2>1
      <3>2. bytes \in [1..view.size -> Int]
        BY <3>1 DEF BytesAt
      <3> HIDE DEF bytes
      <3> QED BY <2>1, <3>2
    <2>3. full = [view EXCEPT !.buffer = bytes, !.read = file,
                              !.failed = view.first + view.size > Len(file)]
      BY <1>3 DEF ensure_loaded, BytesAt
    <2>4. /\ full.kind = view.kind /\ full.first = view.first /\ full.size = view.size
          /\ full.positions = view.positions
          /\ full.buffer = bytes /\ full.read = file
          /\ full.failed = (view.first + view.size > Len(file))
      BY <1>1, <2>3 DEF View
    <2>5. full \in View
      <3>1. (view.first + view.size > Len(file)) \in BOOLEAN
        OBVIOUS
      <3> HIDE DEF bytes, full
      <3> QED BY <1>1, <2>2, <2>3, <3>1 DEF View
    <2>6. full.buffer # << >>
      BY <2>2, <2>4
    <2> HIDE DEF full
    <2>7. full.buffer = BytesAt(full, full.read)
      BY <2>4 DEF BytesAt
    <2>8. ~full.failed => full.first + full.size <= Len(full.read)
      <3>1. Len(file) \in Nat
        BY <1>1
      <3>2. ~(view.first + view.size > Len(file)) => view.first + view.size <= Len(file)
        BY <2>1, <3>1
      <3> QED BY <2>4, <3>2
    <2>9. Placed(full)
      BY <1>1, <1>3, <2>4, <2>7, <2>8 DEF Placed, Loaded
    <2> QED BY <2>4, <2>5, <2>6, <2>9 DEF full
  <1> QED BY <1>2, <1>3

LEMMA DataInv ==
  ASSUME Inv, NEW v \in DOMAIN views, data(v)
  PROVE  Inv'
  <1> DEFINE full == ensure_loaded(views[v])
  <1>1. /\ full \in View /\ Placed(full) /\ full.kind = views[v].kind
        /\ views[v].kind = "disk" => full.buffer # << >>
    BY LoadedPlaced DEF data
  <1>2. /\ views' = [views EXCEPT ![v] = full] /\ shown' = << v >>
        /\ file' = file /\ memory' = memory
    BY DEF data
  <1> HIDE DEF full
  <1>3. views \in Seq(View)
    BY DEF Inv
  <1>4. views' \in Seq(View) /\ DOMAIN views' = DOMAIN views /\ views'[v] = full
    BY <1>1, <1>2, <1>3
  <1>5. \A w \in DOMAIN views' : Placed(views'[w])
    BY <1>1, <1>2, <1>3, <1>4 DEF Inv
  <1>6. \A w \in DOMAIN views' : Placed(views[w])'
    BY <1>2, <1>5 DEF Placed, InMemory, Loaded, BytesAt
  <1>7. ShownIsReady'
    BY <1>1, <1>2, <1>4 DEF ShownIsReady
  <1> QED BY <1>2, <1>4, <1>6, <1>7 DEF Inv

LEMMA RewriteInv ==
  ASSUME ContentsAreBytes, Inv, rewrite
  PROVE  Inv'
  <1>1. /\ file' \in Seq(Int) /\ memory' = memory /\ views' = views /\ shown' = << >>
    BY DEF rewrite, ContentsAreBytes
  <1>2. \A v \in DOMAIN views : Placed(views[v])'
    BY <1>1 DEF Inv, Placed, InMemory, Loaded, BytesAt
  <1> QED BY <1>1, <1>2 DEF Inv, ShownIsReady

LEMMA NextInv ==
  ASSUME ContentsAreBytes, Inv, [NextView]_view_vars
  PROVE  Inv'
  <1>1. ASSUME NEW kind \in Kinds, make_memory_view(kind) PROVE Inv'
    BY <1>1, MakeInv
  <1>2. ASSUME NEW v \in DOMAIN views, NEW left \in Ends(views[v]), NEW right \in Ends(views[v]),
               slice(views[v], <<left, right>>)
        PROVE  Inv'
    BY <1>2, SliceInv
  <1>3. ASSUME NEW v \in DOMAIN views, NEW lo \in 0..views[v].size, NEW hi \in 0..views[v].size,
               half_open(views[v], lo, hi)
        PROVE  Inv'
    BY <1>3, HalfOpenInv
  <1>4. ASSUME NEW v \in DOMAIN views, NEW n \in -views[v].size..views[v].size, cut(views[v], n)
        PROVE  Inv'
    BY <1>4, CutEndInv
  <1>5. ASSUME NEW v \in DOMAIN views, data(v) PROVE Inv'
    BY <1>5, DataInv
  <1>6. CASE rewrite
    BY <1>6, RewriteInv
  <1>7. CASE UNCHANGED view_vars
    BY <1>7 DEF view_vars, Inv, ShownIsReady, Placed, InMemory, Loaded, BytesAt
  <1> QED BY <1>1, <1>2, <1>3, <1>4, <1>5, <1>6, <1>7 DEF NextView

(* A view that is placed and ready shows its positions of the source.      *)
LEMMA PlacedShows == Inv => ViewsShowFile
  <1> SUFFICES ASSUME Inv, shown # << >>, ~views[shown[1]].failed
               PROVE  LET view   == views[shown[1]]
                          source == IF view.kind = "disk" THEN view.read ELSE memory
                      IN  BytesShown(view) = [i \in DOMAIN view.positions |-> source[view.positions[i]]]
    BY DEF ViewsShowFile
  <1>1. PICK v \in DOMAIN views :
          shown = << v >> /\ (views[v].kind = "disk" => views[v].buffer # << >>)
    BY DEF Inv, ShownIsReady
  <1> DEFINE view == views[v]
             source == IF view.kind = "disk" THEN view.read ELSE memory
  <1>2. shown[1] = v /\ view \in View /\ Placed(view) /\ ~view.failed
    BY <1>1, EachView
  <1>3. view.first \in Nat /\ view.size \in Nat /\ view.read \in Seq(Int) /\ memory \in Seq(Int)
    BY <1>2, Fields DEF Inv
  <1>4. /\ DOMAIN view.positions = 1..view.size
        /\ \A i \in 1..view.size : view.positions[i] = view.first + i
    BY <1>2, Fields
  <1>5. [i \in DOMAIN view.positions |-> source[view.positions[i]]]
          = [i \in 1..view.size |-> source[view.first + i]]
    BY <1>4
  <1>6. CASE view.kind = "disk"
    <2>1. Loaded(view)
      BY <1>1, <1>2, <1>6 DEF Placed
    <2>2. view.first + view.size <= Len(view.read)
      BY <1>2, <2>1 DEF Loaded
    <2>3. view.buffer = [i \in 1..view.size |-> view.read[view.first + i]]
      BY <1>3, <2>1, <2>2 DEF Loaded, BytesAt
    <2> QED BY <1>2, <1>5, <1>6, <2>3 DEF BytesShown
  <1>7. CASE view.kind # "disk"
    <2>1. view.first + view.size <= Len(memory)
      BY <1>2, <1>7 DEF Placed, InMemory
    <2>2. SubSeq(memory, view.first + 1, view.first + view.size)
            = [i \in 1..view.size |-> memory[view.first + i]]
      <3> DEFINE first == view.first
                 size  == view.size
                 bytes == memory
      <3>1. first \in Nat /\ size \in Nat /\ bytes \in Seq(Int) /\ first + size <= Len(bytes)
        BY <1>3, <2>1
      <3> HIDE DEF first, size, bytes
      <3>2. SubSeq(bytes, first + 1, first + size) = [i \in 1..size |-> bytes[first + i]]
        BY <3>1, Subsequence, SMTT(40)
      <3> QED BY <3>2 DEF first, size, bytes
    <2> QED BY <1>2, <1>5, <1>7, <2>2 DEF BytesShown
  <1> QED BY <1>2, <1>6, <1>7

(* Every view shows the bytes it is to show: of what was mapped or loaded, *)
(* or of one content of the file (memory_view and its sources).            *)
THEOREM ViewsCorrect ==
  ASSUME ContentsAreBytes PROVE ViewSpec => []ViewsShowFile
  <1>1. InitViews => Inv
    BY InitInv
  <1>2. Inv /\ [NextView]_view_vars => Inv'
    BY NextInv
  <1>3. Inv => ViewsShowFile
    BY PlacedShows
  <1> QED BY <1>1, <1>2, <1>3, PTL DEF ViewSpec
=============================================================================
