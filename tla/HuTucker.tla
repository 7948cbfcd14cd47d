------------------------------ MODULE HuTucker ------------------------------
(***************************************************************************)
(* The alphabetic codes of irkit: from the frequencies of the symbols to   *)
(* Hu and Tucker's tree (coding/huffman.hpp, coding/hutucker.hpp), from    *)
(* the tree to the array that is stored (alphabetical_bst.hpp), and        *)
(* encoding and decoding along that array, bit by bit (bitstream.hpp).     *)
(*                                                                         *)
(* A symbol is a char: the code keeps frequencies by its unsigned value    *)
(* and compares symbols as signed ones.  SymbolBound is 256 there.         *)
(***************************************************************************)
EXTENDS Integers, Sequences, FiniteSets, SequencesExt, FiniteSetsExt

CONSTANT SymbolBound

ASSUME SymbolBoundAssumption == SymbolBound \in {2 * n : n \in 1..128}

Bytes == 0..SymbolBound - 1

Signed(byte) == IF byte < SymbolBound \div 2 THEN byte ELSE byte - SymbolBound
Unsigned(symbol) == symbol % SymbolBound
Symbols == {Signed(byte) : byte \in Bytes}

-----------------------------------------------------------------------------
(* Trees: a leaf has no children.                                          *)

make_terminal(symbol, frequency) ==
  [frequency |-> frequency, symbol |-> {symbol}, children |-> <<>>]

join_nodes(left, right) ==
  [frequency |-> left.frequency + right.frequency, symbol |-> {}, children |-> <<left, right>>]

join_nodes_with_symbol(left, right, symbol) ==
  [join_nodes(left, right) EXCEPT !.symbol = {symbol}]

SymbolOf(node) == CHOOSE symbol \in node.symbol : TRUE

(* How often each byte occurs in words, as build_prefix_map_from_file()    *)
(* counts it.  build_prefix_map() of a range counts outside the vector for *)
(* a symbol that is negative; words with those need a codec from elsewhere.*)
symbol_frequencies(words) ==
  LET text == FlattenSeq(words)
  IN  [byte \in Bytes |-> Len(SelectSeq(text, LAMBDA symbol : Unsigned(symbol) = byte))]

Terminals(frequencies) ==
  {make_terminal(Signed(byte), frequencies[byte]) : byte \in {b \in Bytes : frequencies[b] > 0}}

init_nodes(frequencies) ==
  SetToSortSeq(Terminals(frequencies), LAMBDA a, b : SymbolOf(a) < SymbolOf(b))

-----------------------------------------------------------------------------
(* First phase: join the two lightest trees between which no leaf stands.  *)

(* A slip that CodesExact catches: only neighbours are joined.             *)
ValidPairs_neighbours(forest) == {p \in (1..Len(forest)) \X (1..Len(forest)) : p[2] = p[1] + 1}

ValidPairs(forest) ==
  {p \in (1..Len(forest)) \X (1..Len(forest)) :
     p[1] < p[2] /\ \A between \in p[1] + 1..p[2] - 1 : forest[between].symbol = {}}

(* The first pair, in the order of the two loops, of the least frequency.  *)
Selected(forest) ==
  LET Weight(p) == forest[p[1]].frequency + forest[p[2]].frequency
      pairs == ValidPairs(forest)
      least == Min({Weight(p) : p \in pairs})
      lightest == {p \in pairs : Weight(p) = least}
      first == Min({p[1] : p \in lightest})
  IN  <<first, Min({p[2] : p \in {q \in lightest : q[1] = first}})>>

join_next_valid(forest) ==
  LET s == Selected(forest)
  IN  RemoveAt([forest EXCEPT ![s[1]] = join_nodes(forest[s[1]], forest[s[2]])], s[2])

RECURSIVE build_tree(_)
build_tree(forest) ==
  IF Len(forest) = 1 THEN forest[1] ELSE build_tree(join_next_valid(forest))

-----------------------------------------------------------------------------
(* Second phase: only the levels of the leaves are kept, and the tree with *)
(* these levels in the order of the symbols is built with a stack.         *)

RECURSIVE LeavesBelow(_, _)
LeavesBelow(node, level) ==
  IF node.children = <<>> THEN {[level |-> level, node |-> node]}
  ELSE UNION {LeavesBelow(node.children[i], level + 1) : i \in {1, 2}}

tag_leaves(root) ==
  SetToSortSeq(LeavesBelow(root, 0), LAMBDA a, b : SymbolOf(a.node) < SymbolOf(b.node))

(* The node of two trees keeps the greatest symbol of the left one; the    *)
(* greatest symbol of the right one is handed on.                          *)
Joined(state) ==
  LET n == Len(state.stack)
      left == state.stack[n - 1]
      right == state.stack[n]
      symbols == state.propagated
  IN  [state EXCEPT
         !.stack = Append(SubSeq(@, 1, n - 2),
                          [level |-> left.level - 1,
                           node |-> join_nodes_with_symbol(left.node, right.node, symbols[n - 1])]),
         !.propagated = Append(SubSeq(@, 1, n - 2), symbols[n])]

(* One round of the loop; a state without change is the exception "wrong   *)
(* level alignment", or the tree at level 0 that is returned.              *)
Reconstructed(state) ==
  LET n == Len(state.stack)
      done == n = 1 /\ state.stack[1].level = 0
      equal == n > 1 /\ state.stack[n].level = state.stack[n - 1].level
  IN  CASE done -> state
        [] ~done /\ equal -> Joined(state)
        [] ~done /\ ~equal /\ state.nodes # <<>> ->
             [stack |-> Append(state.stack, Head(state.nodes)),
              propagated |-> Append(state.propagated, SymbolOf(Head(state.nodes).node)),
              nodes |-> Tail(state.nodes)]
        [] OTHER -> state

RECURSIVE Rounds(_, _)
Rounds(state, n) == IF n = 0 THEN state ELSE Rounds(Reconstructed(state), n - 1)

(* <<the tree>>, or <<>> for the exception.                                *)
reconstruct(leaves) ==
  LET last == Rounds([stack |-> <<>>, propagated |-> <<>>, nodes |-> leaves], 2 * Len(leaves) - 1)
  IN  IF Len(last.stack) = 1 /\ last.stack[1].level = 0 THEN <<last.stack[1].node>> ELSE <<>>

-----------------------------------------------------------------------------
(* The tree as an array of nodes, breadth first.  A pointer below          *)
(* SymbolBound is a symbol, another one a node.                            *)

node_size == 5

Compacted(state) ==
  LET node == Head(state.queue)
      inner == SelectSeq(node.children, LAMBDA c : c.children # <<>>)
      Pointer(i) ==
        IF node.children[i].children = <<>> THEN Unsigned(SymbolOf(node.children[i]))
        ELSE SymbolBound + (Len(state.nodes) + Len(state.queue)
                            + Cardinality({j \in 1..i - 1 : node.children[j].children # <<>>})) * node_size
  IN  [nodes |-> Append(state.nodes, [symbol |-> SymbolOf(node), left |-> Pointer(1), right |-> Pointer(2)]),
       queue |-> Tail(state.queue) \o inner]

RECURSIVE CompactedAll(_)
CompactedAll(state) == IF state.queue = <<>> THEN state.nodes ELSE CompactedAll(Compacted(state))

compact(root) == CompactedAll([nodes |-> <<>>, queue |-> <<root>>])

(* The constructor of the codec: it aborts without two symbols, and throws *)
(* when the levels do not fit.                                             *)
hutucker_tree(frequencies) == reconstruct(tag_leaves(build_tree(init_nodes(frequencies))))
hutucker_codec(frequencies) == compact(Head(hutucker_tree(frequencies)))

-----------------------------------------------------------------------------
(* The codec: an array of nodes.                                           *)

node_at(abst, pointer) == abst[(pointer - SymbolBound) \div node_size + 1]

RECURSIVE CodeFrom(_, _, _)
CodeFrom(abst, pointer, symbol) ==
  LET node == node_at(abst, pointer)
      goright == symbol > node.symbol
      next == IF goright THEN node.right ELSE node.left
      bit == IF goright THEN <<1>> ELSE <<0>>
  IN  IF next < SymbolBound THEN bit ELSE bit \o CodeFrom(abst, next, symbol)

(* The bits of a symbol, and of a word.                                    *)
encode_symbol(abst, symbol) == CodeFrom(abst, SymbolBound, symbol)
hutucker_encode(abst, word) == FlattenSeq([i \in DOMAIN word |-> encode_symbol(abst, word[i])])

(* Decodes one symbol from the bits that follow `position': the symbol and *)
(* the position behind it, or no symbol when the bits end.                 *)
RECURSIVE DecodeFrom(_, _, _, _)
DecodeFrom(abst, bits, position, pointer) ==
  IF pointer < SymbolBound THEN [symbol |-> {Signed(pointer)}, position |-> position]
  ELSE IF position = Len(bits) THEN [symbol |-> {}, position |-> position]
  ELSE LET node == node_at(abst, pointer)
       IN  DecodeFrom(abst, bits, position + 1,
                      IF bits[position + 1] = 1 THEN node.right ELSE node.left)

decode_symbol(abst, bits, position) == DecodeFrom(abst, bits, position, SymbolBound)

(* Decodes a word of n symbols.                                            *)
hutucker_decode(abst, bits, position, n) ==
  FoldLeft(LAMBDA d, i : LET one == decode_symbol(abst, bits, d.position)
                         IN  [word |-> d.word \o SetToSeq(one.symbol), position |-> one.position],
           [word |-> <<>>, position |-> position], [i \in 1..n |-> i])

-----------------------------------------------------------------------------
(* Bits in bytes, the first bit lowest.  A stream that is flushed ends     *)
(* with a full byte.                                                       *)

BitsPerByte == 8

write_bits(bits) ==
  [i \in 1..(Len(bits) + BitsPerByte - 1) \div BitsPerByte |->
     MapThenSumSet(LAMBDA k : bits[(i - 1) * BitsPerByte + k + 1] * 2 ^ k,
                   {k \in 0..BitsPerByte - 1 : (i - 1) * BitsPerByte + k < Len(bits)})]

read_bits(bytes) ==
  [i \in 1..Len(bytes) * BitsPerByte |->
     (bytes[(i - 1) \div BitsPerByte + 1] \div 2 ^ ((i - 1) % BitsPerByte)) % 2]

=============================================================================
