----------------------------- MODULE CompactTable -----------------------------
(***************************************************************************)
(* irk::compact_table (compacttable.hpp): an array of numbers, encoded in  *)
(* blocks, with a leader for each block.  An offset table is one that      *)
(* stores differences.  Keys count from 0.  Numbers are written as bytes   *)
(* by irk::vbyte_codec (coding/vbyte.hpp).                                 *)
(***************************************************************************)
EXTENDS Integers, Sequences, SequencesExt, FiniteSetsExt

CONSTANTS
  maxv,        (* what a byte can hold without the mark: 128               *)
  Modulus,     (* of std::size_t: 2^64                                     *)
  table_block  (* block_size, 256 everywhere                               *)

ASSUME WidthAssumption == maxv \in Nat \ {0, 1} /\ Modulus \in Nat \ {0, 1}
ASSUME TableAssumption == table_block \in Nat \ {0}

-----------------------------------------------------------------------------
(* irk::vbyte_codec: a value is written from its lowest digit up, a digit  *)
(* a byte, and the last byte is marked.                                    *)
EncodedValue(v) ==
  LET size == CHOOSE n \in 1..(v + 1) : v < maxv^n /\ \A m \in 1..(n - 1) : v >= maxv^m
  IN  [i \in 1..size |-> ((v \div maxv^(i - 1)) % maxv) + (IF i = size THEN maxv ELSE 0)]

(* The value at a position, and the position after it.                     *)
DecodedValue(bytes, pos) ==
  LET last == CHOOSE e \in pos..Len(bytes) :
                bytes[e] >= maxv /\ \A i \in pos..(e - 1) : bytes[i] < maxv
  IN  [ value |-> FoldLeft(+, 0, [i \in 1..(last - pos + 1) |->
                                    (bytes[pos + i - 1] % maxv) * maxv^(i - 1)]) % Modulus,
        next  |-> last + 1 ]

(* encode(), or delta_encode() from an initial value of 0.                 *)
Encoded(values, delta) ==
  FlattenSeq([i \in DOMAIN values |->
    EncodedValue(IF delta /\ i > 1 THEN (values[i] - values[i - 1]) % Modulus ELSE values[i])])

(* decode(), or delta_decode(), of the n values at a position.             *)
Decoded(bytes, pos, n, delta) ==
  LET read[i \in 0..n] ==
        IF i = 0 THEN [value |-> 0, next |-> pos]
        ELSE LET byte == DecodedValue(bytes, read[i - 1].next)
             IN  IF delta
                 THEN [byte EXCEPT !.value = (@ + read[i - 1].value) % Modulus]
                 ELSE byte
  IN  [i \in 1..n |-> read[i].value]

-----------------------------------------------------------------------------
Least(a, b) == IF a < b THEN a ELSE b

BlockCount(count) == (count + table_block - 1) \div table_block

(* A slip that TablesRead catches: the first value of a block is written   *)
(* as a difference, too.                                                   *)
EncodedBlock_continued(values, delta, b) ==
  LET lo    == (b - 1) * table_block
      block == SubSeq(values, lo + 1, Least(b * table_block, Len(values)))
      initial == IF delta /\ b > 1 THEN values[lo] ELSE 0
  IN  Encoded([i \in DOMAIN block |-> block[i] - initial], delta)

EncodedBlock(values, delta, b) ==
  Encoded(SubSeq(values, (b - 1) * table_block + 1, Least(b * table_block, Len(values))), delta)

build_compact_table(values, delta) ==
  LET blocks == [b \in 1..BlockCount(Len(values)) |-> EncodedBlock(values, delta, b)]
  IN  [ count   |-> Len(values),
        delta   |-> delta,
        leaders |-> [b \in DOMAIN blocks |->
                       [ key |-> (b - 1) * table_block,
                         ptr |-> Len(FlattenSeq(SubSeq(blocks, 1, b - 1))) + 1 ]],
        blocks  |-> FlattenSeq(blocks) ]

(* operator[]: the first leader that is not below the key, or the one      *)
(* before it.                                                              *)
read_compact_value(table, key) ==
  LET lower_bound == 1 + Len(SelectSeq(table.leaders, LAMBDA l : l.key < key))
      leader == IF lower_bound > Len(table.leaders) \/ table.leaders[lower_bound].key > key
                THEN table.leaders[lower_bound - 1] ELSE table.leaders[lower_bound]
  IN  Last(Decoded(table.blocks, leader.ptr, key - leader.key + 1, table.delta))

(* iterator::next_buffer(): the last block has what is left over, or, when *)
(* nothing is, a whole block.                                              *)
next_buffer(table, b) ==
  LET left == table.count % table_block
      size == IF b < Len(table.leaders) \/ left = 0 THEN table_block ELSE left
  IN  Decoded(table.blocks, table.leaders[b].ptr, size, table.delta)

(* to_vector(): from begin() to end(), a block at a time.                  *)
to_vector(table) == FlattenSeq([b \in DOMAIN table.leaders |-> next_buffer(table, b)])
=============================================================================
