----------------------------- MODULE PrefixMap -----------------------------
(***************************************************************************)
(* The prefix map (prefixmap.hpp): sorted words in blocks of bits.  A      *)
(* block is its first index, its count, and for every word the length of   *)
(* the prefix shared with the word before, the length of the rest, both in *)
(* unary, and the rest in Hu and Tucker's code.  The first word of every   *)
(* block is in a radix tree.  A word that no block can hold gets a block   *)
(* that is expanded over several.                                          *)
(*                                                                         *)
(* Bits are written through bitptr (bitptr.hpp): a pointer to a byte and a *)
(* shift, an unsigned char.  ByteBits is 8 and ShiftRange 256 in the code. *)
(***************************************************************************)
EXTENDS HuTucker, TLC

CONSTANTS BlockBits,   \* bits of a block
          NumberBits,  \* bits of an Index and of a Counter
          ByteBits,    \* bits that a bit pointer's byte has
          ShiftRange   \* how many values a bit pointer's shift has

ASSUME BitsAssumption ==
  /\ ByteBits \in 1..ShiftRange - 1 /\ ShiftRange % ByteBits = 0
  /\ BlockBits % ByteBits = 0
  /\ 2 * NumberBits < BlockBits

VARIABLES
  codec,        \* codec_, of the symbols of the words
  items,        \* the words, sorted
  from_file,    \* read from a file, or from a range in memory
  added,        \* how many words are in the map
  blocks,       \* blocks_, bit by bit
  block_count,  \* block_count_
  leaders,      \* block_leaders_: the first words of blocks
  builder,      \* the block that is being built
  outcome       \* "building", "built", "loaded", or "thrown"

map_vars == <<codec, items, from_file, added, blocks, block_count, leaders, builder, outcome>>

block_data_offset == 2 * NumberBits

(* std::string's order: symbols compare as unsigned chars.                 *)
WordBefore(a, b) ==
  \E n \in 0..Len(a) :
     /\ n < Len(b)
     /\ \A i \in 1..n : a[i] = b[i]
     /\ n = Len(a) \/ Unsigned(a[n + 1]) < Unsigned(b[n + 1])

SharedPrefix(a, b) ==
  Max({n \in 0..Len(a) : n <= Len(b) /\ \A i \in 1..n : a[i] = b[i]})

-----------------------------------------------------------------------------
(* Bit pointers are positions in blocks.                                   *)

(* operator+=: what the shift cannot hold is lost.                         *)
advance(at, n) ==
  LET shift == ((at % ByteBits) + n) % ShiftRange
  IN  (at \div ByteBits) * ByteBits + shift

bitcpy(bits, at, source) ==
  [i \in DOMAIN bits |-> IF i \in at + 1..at + Len(source) THEN source[i - at] ELSE bits[i]]

Unary(n) == [i \in 1..n + 1 |-> IF i <= n THEN 1 ELSE 0]

(* The low bits of a number, and the number that bits are.                 *)
Number(n) == [i \in 1..NumberBits |-> (n \div 2 ^ (i - 1)) % 2]
ReadNumber(bits, at) == MapThenSumSet(LAMBDA i : bits[at + i] * 2 ^ (i - 1), 1..NumberBits)

-----------------------------------------------------------------------------
(* Building a block.                                                       *)

can_encode(b, length) == b.pos + length <= b.size

(* block_builder::add                                                      *)
Rest(b, value) == SubSeq(value, SharedPrefix(b.last, value) + 1, Len(value))
Fits(b, value) == can_encode(b, Len(value) + 2 + Len(hutucker_encode(codec, Rest(b, value))))

add(bits, b, value) ==
  LET common == SharedPrefix(b.last, value)
      code == hutucker_encode(codec, Rest(b, value))
      lengths == Unary(common) \o Unary(Len(value) - common)
      after == b.at + Len(lengths)
  IN  [blocks |-> bitcpy(bitcpy(bits, b.at, lengths), after, code),
       builder |-> [b EXCEPT !.at = advance(after, Len(code)),
                             !.pos = @ + Len(lengths) + Len(code),
                             !.count = @ + 1,
                             !.last = value]]

write_count(bits, b) == bitcpy(bits, b.begin + NumberBits, Number(b.count))

NewBuilder(index, begin) ==
  [first |-> index, count |-> 0, pos |-> block_data_offset, last |-> <<>>, size |-> BlockBits,
   begin |-> begin, at |-> begin + block_data_offset]

EmptyBlock == [i \in 1..BlockBits |-> 0]

(* append_block: the count of the old block, and room for a new one.       *)
append_block(bits, index) ==
  bitcpy(bits \o EmptyBlock, Len(bits), Number(index))

(* expand_block, as often as the word needs.                               *)
Expansions(b, value) ==
  Min({n \in 0..Len(value) * BlockBits : Fits([b EXCEPT !.size = @ + n * BlockBits], value)})

expand_block(bits, n) == bits \o FlattenSeq([i \in 1..n |-> EmptyBlock])

-----------------------------------------------------------------------------
Inserted(tree, word, block) ==
  {leader \in tree : leader.word # word} \cup {[word |-> word, block |-> block]}

(* The constructors up to their loops.  The one that reads a file adds the *)
(* first word there, and gives up when it does not fit.                    *)
Start(words, saved) ==
  LET first == NewBuilder(0, 0)
      bits == append_block(<<>>, 0)
  IN  /\ items = words
      /\ codec \in {hutucker_codec(symbol_frequencies(words))}
      /\ from_file = saved
      /\ block_count = 1
      /\ leaders = {[word |-> words[1], block |-> 0]}
      /\ IF ~saved
         THEN blocks = bits /\ builder = first /\ added = 0 /\ outcome = "building"
         ELSE IF Fits(first, words[1])
         THEN /\ blocks = add(bits, first, words[1]).blocks
              /\ builder = add(bits, first, words[1]).builder
              /\ added = 1
              /\ outcome = "building"
         ELSE blocks = bits /\ builder = first /\ added = 0 /\ outcome = "thrown"

(* The word goes to the block at hand.                                     *)
AddToBlock ==
  /\ outcome = "building"
  /\ added < Len(items)
  /\ Fits(builder, items[added + 1])
  /\ \E done \in {add(blocks, builder, items[added + 1])} :
       blocks' = done.blocks /\ builder' = done.builder
  /\ added' = added + 1
  /\ UNCHANGED <<codec, items, from_file, block_count, leaders, outcome>>

(* A slip that PrefixMapExact catches: the first word of a new block is    *)
(* not put into the radix tree.                                            *)
Leader_missing(word) == leaders

Leader(word) == Inserted(leaders, word, block_count)

(* The word goes to a new block, which is closed if it had to be expanded. *)
AddToNewBlock ==
  /\ outcome = "building"
  /\ added < Len(items)
  /\ ~Fits(builder, items[added + 1])
  /\ leaders' = Leader(items[added + 1])
  /\ \E fresh \in {NewBuilder(added, Len(blocks))},
        bits \in {append_block(write_count(blocks, builder), added)},
        n \in {Expansions(NewBuilder(added, Len(blocks)), items[added + 1])} :
       \E done \in {add(expand_block(bits, n), [fresh EXCEPT !.size = @ + n * BlockBits],
                        items[added + 1])} :
         /\ blocks' = done.blocks
         /\ builder' = IF n = 0 THEN done.builder ELSE [done.builder EXCEPT !.pos = done.builder.size]
         /\ block_count' = block_count + 1 + n
  /\ added' = added + 1
  /\ UNCHANGED <<codec, items, from_file, outcome>>

Finish ==
  /\ outcome = "building"
  /\ added = Len(items)
  /\ blocks' = write_count(blocks, builder)
  /\ outcome' = "built"
  /\ UNCHANGED <<codec, items, from_file, added, block_count, leaders, builder>>

(* dump and load_prefix_map: the fields one after the other, the leaders   *)
(* in the order of the radix tree, a line each.                            *)
dump_leaders ==
  [n \in 1..Cardinality(leaders) |->
     CHOOSE leader \in leaders :
       Cardinality({other \in leaders : WordBefore(other.word, leader.word)}) = n - 1]

dump == [size |-> added, block_count |-> block_count, tree |-> codec,
         leaders |-> dump_leaders, blocks |-> blocks]

load_radix_tree(stored) ==
  FoldLeft(LAMBDA tree, leader : Inserted(tree, leader.word, leader.block), {}, stored)

Load ==
  /\ outcome = "built"
  /\ \E stored \in {dump} :
       /\ added' = stored.size
       /\ block_count' = stored.block_count
       /\ codec' = stored.tree
       /\ leaders' = load_radix_tree(stored.leaders)
       /\ blocks' = stored.blocks
  /\ outcome' = "loaded"
  /\ UNCHANGED <<items, from_file, builder>>

MapNext == AddToBlock \/ AddToNewBlock \/ Finish \/ Load

-----------------------------------------------------------------------------
(* Reading.  A block that is read is where it begins, where its next word  *)
(* is, and the word read last.                                             *)

block_ptr(block) ==
  [begin |-> block * BlockBits, at |-> block * BlockBits + block_data_offset, last |-> <<>>]

first_index(block) == ReadNumber(blocks, block.begin)
count(block) == ReadNumber(blocks, block.begin + NumberBits)

read_unary(at) == Min({n \in 0..Len(blocks) - at : at + n = Len(blocks) \/ blocks[at + n + 1] = 0})

next(block) ==
  LET common == read_unary(block.at)
      rest == read_unary(block.at + common + 1)
      code == block.at + common + rest + 2
      decoded == hutucker_decode(codec, blocks, code, rest)
  IN  [block EXCEPT !.last = SubSeq(@, 1, common) \o decoded.word, !.at = decoded.position]

(* next(), as often as n.                                                  *)
RECURSIVE Nexts(_, _)
Nexts(block, n) == IF n = 0 THEN block ELSE next(Nexts(block, n - 1))

(* operator[] for a word: {its index}, or {}.                              *)
index_of(key) ==
  LET below == {leader \in leaders : leader.word = key \/ WordBefore(leader.word, key)}
      leader == CHOOSE l \in below : \A other \in below : other.word = l.word \/ WordBefore(other.word, l.word)
      block == block_ptr(leader.block)
      steps == {c \in 1..Max({1, count(block)}) :
                  c >= count(block) \/ ~WordBefore(Nexts(block, c).last, key)}
      c == Min(steps)
  IN  IF below = {} THEN {}
      ELSE IF Nexts(block, c).last = key THEN {first_index(block) + c - 1} ELSE {}

(* init_reverse_lookup and the search in it: prev(upper_bound) among the   *)
(* numbers where the blocks' first indices should be.                      *)
BlockOf(index) ==
  Cardinality({n \in 0..block_count - 1 : first_index(block_ptr(n)) <= index}) - 1

(* operator[] for an index.                                                *)
word_at(index) ==
  LET block == block_ptr(BlockOf(index))
      c == 1 + Min({count(block) - 1, index - first_index(block)})
  IN  Nexts(block, c).last

(* begin(), end() and the iterator: <<block, position in it>>.             *)
increment_iterator(at) ==
  IF at[2] + 1 = count(block_ptr(at[1])) THEN <<at[1] + 1, 0>> ELSE <<at[1], at[2] + 1>>

end ==
  LET last_block == block_ptr(block_count - 1)
      position == (added - first_index(last_block)) % count(last_block)
  IN  IF position = 0 THEN <<block_count, 0>> ELSE <<block_count - 1, position>>

(* The words that an iteration shows.                                      *)
RECURSIVE ShownFrom(_)
ShownFrom(at) ==
  IF at = end THEN <<>>
  ELSE <<Nexts(block_ptr(at[1]), at[2] + 1).last>> \o ShownFrom(increment_iterator(at))

=============================================================================
