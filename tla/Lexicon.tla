------------------------------- MODULE Lexicon -------------------------------
(***************************************************************************)
(* irk::lexicon (lexicon.hpp): strings by number and numbers by string,    *)
(* from blocks of keys_per_block strings in which each is written as what  *)
(* it has in common with the one before it, and the rest.                  *)
(*                                                                         *)
(* A string is a sequence of symbols; the bits that a symbol is written    *)
(* with are left out.  A lexicon is a record; prev is what its codec       *)
(* remembers, which every operation, const ones too, reads and changes.    *)
(* Blocks count from 1, strings from 0.                                    *)
(***************************************************************************)
EXTENDS CompactTable

CONSTANT keys_per_block

ASSUME KeysAssumption == keys_per_block \in Nat \ {0}

EmptyString == << >>

CommonPrefix(s, t) ==
  Max({ n \in 0..Len(s) : n <= Len(t) /\ SubSeq(s, 1, n) = SubSeq(t, 1, n) })

(* std::string::operator<                                                  *)
Before(s, t) ==
  LET n == CommonPrefix(s, t)
  IN  n < Len(t) /\ (n < Len(s) => s[n + 1] < t[n + 1])

Ascending(keys) == \A i, j \in DOMAIN keys : i < j => Before(keys[i], keys[j])

-----------------------------------------------------------------------------
(* irk::prefix_codec.                                                      *)

(* A slip that LookupsExact catches: the codec goes on from what it        *)
(* remembers.                                                              *)
reset_missing(prev) == prev

reset(prev) == EmptyString

encode(prev, key) ==
  LET n == CommonPrefix(prev, key)
  IN  [prefix |-> n, suffix |-> SubSeq(key, n + 1, Len(key))]

(* What substr() gives is no longer than the string.                       *)
decode(prev, code) ==
  SubSeq(prev, 1, IF code.prefix < Len(prev) THEN code.prefix ELSE Len(prev)) \o code.suffix

EncodedKeys(prev, keys) ==
  [i \in DOMAIN keys |-> encode(IF i = 1 THEN prev ELSE keys[i - 1], keys[i])]

(* The first n strings of a block.  After the last one there are zeros, or *)
(* nothing, to read: either way no prefix and no suffix.                   *)
DecodedKeys(prev, codes, n) ==
  LET code(i) == IF i \in DOMAIN codes THEN codes[i] ELSE [prefix |-> 0, suffix |-> EmptyString]
      key[i \in 0..n] == IF i = 0 THEN prev ELSE decode(key[i - 1], code(i))
  IN  [i \in 1..n |-> key[i]]

DecodedBlock(lexicon, b) ==
  DecodedKeys(reset(lexicon.prev), lexicon.blocks[b], keys_per_block)

-----------------------------------------------------------------------------
(* A radix tree from the first key of a block to the block: of several     *)
(* blocks with one first key the last is kept.                             *)
radix_tree(leaders) ==
  [key \in ToSet(leaders) |-> Max({ b \in DOMAIN leaders : leaders[b] = key })]

seek_le(tree, key) ==
  LET below == { k \in DOMAIN tree : k = key \/ Before(k, key) }
  IN  { tree[k] : k \in { k \in below : \A j \in below : j = k \/ Before(j, k) } }

build_lexicon(keys) ==
  LET lo(b)  == (b - 1) * keys_per_block
      hi(b)  == IF b * keys_per_block < Len(keys) THEN b * keys_per_block ELSE Len(keys)
      blocks == 1..((Len(keys) + keys_per_block - 1) \div keys_per_block)
  IN  [ blocks          |-> [b \in blocks |->
                               EncodedKeys(reset(IF b = 1 THEN EmptyString ELSE keys[lo(b)]),
                                           SubSeq(keys, lo(b) + 1, hi(b)))],
        leading_indices |-> [b \in blocks |-> lo(b)],
        leading_keys    |-> radix_tree([b \in blocks |-> keys[lo(b) + 1]]),
        count           |-> Len(keys),
        prev            |-> EmptyString ]

(* serialize(): the header's numbers in vbyte, the first keys of the       *)
(* blocks, written by a codec of their own, and the blocks.                *)
serialize(lexicon) ==
  LET leaders == [b \in DOMAIN lexicon.blocks |-> DecodedBlock(lexicon, b)[1]]
  IN  [ header  |-> Encoded(<<lexicon.count, Len(lexicon.blocks), keys_per_block>>
                              \o lexicon.leading_indices, FALSE),
        leaders |-> EncodedKeys(EmptyString, leaders),
        blocks  |-> lexicon.blocks ]

(* load_lexicon(): the codec has read the first keys when it becomes that  *)
(* of the lexicon.                                                         *)
load_lexicon(file) ==
  LET block_count == Decoded(file.header, 1, 3, FALSE)[2]
      header      == Decoded(file.header, 1, 3 + block_count, FALSE)
      leaders     == DecodedKeys(EmptyString, file.leaders, block_count)
  IN  [ blocks          |-> file.blocks,
        leading_indices |-> SubSeq(header, 4, 3 + block_count),
        leading_keys    |-> radix_tree(leaders),
        count           |-> header[1],
        prev            |-> Last(leaders) ]

-----------------------------------------------------------------------------
(* What an operation returns, and what the codec remembers after it.       *)

index_at(lexicon, key) ==
  IF seek_le(lexicon.leading_keys, key) = {}
  THEN [result |-> << >>, prev |-> lexicon.prev]
  ELSE LET b    == CHOOSE b \in seek_le(lexicon.leading_keys, key) : TRUE
           keys == DecodedBlock(lexicon, b)
           pos  == Min({ i \in 1..keys_per_block : i = keys_per_block \/ ~Before(keys[i], key) })
       IN  [ result |-> IF keys[pos] = key THEN <<lexicon.leading_indices[b] + pos - 1>> ELSE << >>,
             prev   |-> keys[pos] ]

key_at(lexicon, index) ==
  LET b   == Len(SelectSeq(lexicon.leading_indices, LAMBDA i : i <= index))
      key == DecodedBlock(lexicon, b)[index - lexicon.leading_indices[b] + 1]
  IN  [result |-> key, prev |-> key]

(* An iterator decodes a whole block when it comes to it.                  *)
EnterBlock(lexicon, b) ==
  IF b \in DOMAIN lexicon.blocks
  THEN LET keys == DecodedBlock(lexicon, b)
       IN  [ result |-> [block |-> b, pos |-> 0, decoded |-> keys], prev |-> Last(keys) ]
  ELSE [result |-> [block |-> b, pos |-> 0, decoded |-> << >>], prev |-> lexicon.prev]

begin(lexicon) == EnterBlock(lexicon, 1)

increment(lexicon, iterator) ==
  IF iterator.pos + 1 = keys_per_block
  THEN EnterBlock(lexicon, iterator.block + 1)
  ELSE [result |-> [iterator EXCEPT !.pos = @ + 1], prev |-> lexicon.prev]

dereference(iterator) == iterator.decoded[iterator.pos + 1]

(* The comparison with end(), which is a position in the last block, or    *)
(* after it when it is full.                                               *)
AtEnd(lexicon, iterator) ==
  /\ iterator.pos = (lexicon.count - Last(lexicon.leading_indices)) % keys_per_block
  /\ iterator.block = Len(lexicon.blocks) + (IF iterator.pos = 0 THEN 1 ELSE 0)
=============================================================================
