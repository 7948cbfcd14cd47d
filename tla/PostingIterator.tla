--------------------------- MODULE PostingIterator ---------------------------
(***************************************************************************)
(* The iterator of irk::posting_list_view (index/posting_list.hpp): a      *)
(* block iterator over the documents and one over the payloads, counts or  *)
(* scores, of the same postings.                                           *)
(***************************************************************************)
EXTENDS Integers, Sequences, SequencesExt

CONSTANTS
  Lists,       (* the posting lists: sequences of [document, payload]      *)
  BlockSizes,  (* the block sizes of the two lists: pairs of numbers       *)
  MaxDocument  (* the greatest document asked for                          *)

(* A list is written by increasing document.  Its documents and payloads   *)
(* are written with the one block size of the index.                       *)
ASSUME ListsAssumption ==
  /\ Lists \subseteq Seq([document : Nat, payload : Int])
  /\ \A list \in Lists : \A i, j \in DOMAIN list :
       i < j => list[i].document < list[j].document
ASSUME SizesAssumption ==
  \A sizes \in BlockSizes :
    sizes \in (Nat \ {0}) \X (Nat \ {0}) /\ sizes[1] = sizes[2]
ASSUME MaxDocumentAssumption == MaxDocument \in Nat

VARIABLES
  written,           (* history: the postings that were written            *)
  documents,         (* documents_, as a block list                        *)
  payloads,          (* payloads_, as a block list                         *)
  document_position, (* the position of document_iterator_                 *)
  payload_position   (* the position of payload_iterator_                  *)

iterator_vars == <<written, documents, payloads, document_position, payload_position>>

-----------------------------------------------------------------------------
(* ir::Standard_Block_List and its builder (list/standard_block_list.hpp): *)
(* a list of integers is cut into blocks of block_size values.  The blocks *)
(* of a document list hold differences of successive documents, the first  *)
(* one to the last document of the block before, which the header lists.   *)
(* Blocks and offsets count from 0, as in the code; a block is a sequence. *)
NumberOfBlocks(length, block_size) == (length + block_size - 1) \div block_size

Smaller(a, b) == IF a < b THEN a ELSE b

(* The values of block n as the builder cuts them.                         *)
BlockValues(values, block_size, n) ==
  SubSeq(values, block_size * n + 1, Smaller(block_size * (n + 1), Len(values)))

(* delta_encode() of a block after the value preceding, and delta_decode().*)
Differences(block, preceding) ==
  [i \in DOMAIN block |-> block[i] - (IF i = 1 THEN preceding ELSE block[i - 1])]
Sums(block, preceding) ==
  [i \in DOMAIN block |-> preceding + FoldLeft(+, 0, SubSeq(block, 1, i))]

(* write() of the builder, and the length that the reader knows from the   *)
(* table of frequencies.                                                   *)
Write(values, block_size, delta_encoded) ==
  LET blocks == 0..(NumberOfBlocks(Len(values), block_size) - 1)
      last   == [n \in blocks |-> Last(BlockValues(values, block_size, n))]
  IN  [ length       |-> Len(values),
        block_size   |-> block_size,
        upper_bounds |-> IF delta_encoded THEN last ELSE << >>,
        blocks       |->
          [n \in blocks |->
             IF delta_encoded
             THEN Differences(BlockValues(values, block_size, n), IF n = 0 THEN 0 ELSE last[n - 1])
             ELSE BlockValues(values, block_size, n)] ]

(* block_count(), and block_size(n).                                       *)
Blocks(list) == NumberOfBlocks(list.length, list.block_size)
SizeOf(list, n) ==
  IF n < Blocks(list) - 1 THEN list.block_size
                          ELSE list.length - (Blocks(list) - 1) * list.block_size

(* block(n) of a document list, and of a payload list, whose buffer always *)
(* has the size of a whole block: the rest of it is zeros.                 *)
DocumentBlock(list, n) ==
  Sums(SubSeq(list.blocks[n], 1, SizeOf(list, n)),
       IF n > 0 THEN list.upper_bounds[n - 1] ELSE 0)
PayloadBlock(list, n) ==
  [i \in 1..list.block_size |-> IF i <= SizeOf(list, n) THEN list.blocks[n][i] ELSE 0]

-----------------------------------------------------------------------------
(* ir::Block_Iterator (iterator/block_iterator.hpp).  A position is a      *)
(* block and an offset into it.                                            *)
Position(block, offset) == [block |-> block, offset |-> offset]
Begin == Position(0, 0)

End(list) ==
  Position(list.length \div list.block_size,
           (list.length - (Blocks(list) - 1) * list.block_size) % list.block_size)

idx(list, pos) == list.block_size * pos.block + pos.offset

Increment(list, pos) ==
  Position(pos.block + (pos.offset + 1) \div list.block_size,
           (pos.offset + 1) % list.block_size)

(* std::lower_bound on f[from..to], to when there is none.                 *)
LowerBound(f, from, to, val) ==
  CHOOSE i \in from..to : /\ \A j \in from..(i - 1) : f[j] < val
                          /\ i < to => f[i] >= val

(* A slip that ImplementsCursor catches: always from the start of the      *)
(* block.                                                                  *)
NextGeqPosition_rewinding(list, pos, val) ==
  Position(LowerBound(list.upper_bounds, pos.block, Blocks(list), val), 0)

(* nextgeq_position(): the block to look in, and where to start in it.     *)
NextGeqPosition(list, pos, val) ==
  LET block == LowerBound(list.upper_bounds, pos.block, Blocks(list), val)
  IN  Position(block, IF block = pos.block THEN pos.offset ELSE 0)

AdvanceTo(list, pos, val) ==
  LET start == NextGeqPosition(list, pos, val)
      block == DocumentBlock(list, start.block)
  IN  IF start.block >= Blocks(list) THEN End(list)
      ELSE Position(start.block, LowerBound(block, start.offset + 1, Len(block) + 1, val) - 1)

-----------------------------------------------------------------------------
(* The iterator over postings.                                             *)
IteratorInit ==
  /\ written \in Lists
  /\ \E sizes \in BlockSizes :
       /\ documents = Write([i \in DOMAIN written |-> written[i].document], sizes[1], TRUE)
       /\ payloads = Write([i \in DOMAIN written |-> written[i].payload], sizes[2], FALSE)
  /\ document_position = Begin
  /\ payload_position = Begin

(* operator==: the iterator is at the end when its documents are.          *)
IteratorAtEnd == document_position = End(documents)

(* increment(), of an iterator that is not at the end.                     *)
increment_both ==
  /\ ~IteratorAtEnd
  /\ document_position' = Increment(documents, document_position)
  /\ payload_position' = Increment(payloads, payload_position)
  /\ UNCHANGED <<written, documents, payloads>>

(* advance_to(): align() copies the position of the documents' iterator.   *)
advance_to(doc) ==
  /\ document_position' = AdvanceTo(documents, document_position, doc)
  /\ payload_position' = document_position'
  /\ UNCHANGED <<written, documents, payloads>>

IteratorNext == increment_both \/ \E doc \in 0..MaxDocument : advance_to(doc)

IteratorSpec == IteratorInit /\ [][IteratorNext]_iterator_vars

(* What the iterator shows, when it is not at the end.                     *)
document == DocumentBlock(documents, document_position.block)[document_position.offset + 1]
payload  == PayloadBlock(payloads, payload_position.block)[payload_position.offset + 1]

-----------------------------------------------------------------------------
(* The iterator implements PostingCursor: blocks are never seen through    *)
(* it, every jump finds the first posting that is not before doc, and what *)
(* it shows after any mix of steps and jumps is a posting that was written *)
(* with the payload of its document.  The payload is looked up at the      *)
(* position of the document: the two lists need the same block size.       *)
Cursor ==
  INSTANCE PostingCursor WITH
    list   <- written,
    behind <- idx(documents, document_position),
    shown  <- IF IteratorAtEnd THEN << >> ELSE << [document |-> document, payload |-> payload] >>
ImplementsCursor ==
  Cursor!Init /\ [][Cursor!Increment \/ \E doc \in 0..MaxDocument : Cursor!AdvanceTo(doc)]_iterator_vars
=============================================================================
