------------------------------ MODULE ConstArray ------------------------------
(***************************************************************************)
(* A read-only compressed array: const_array1 to const_array4, with their  *)
(* block store (store.hpp, store1.hpp to store4.hpp) and any block index.  *)
(*                                                                         *)
(* A program resizes the array, chooses how it is compressed, sets its     *)
(* elements, which encodes the blocks one after the other into a buffer    *)
(* and builds the index, and reads elements through the cache.  The        *)
(* operations may come in any order.  An exception in the middle of one    *)
(* leaves what had been done.                                              *)
(*                                                                         *)
(* The buffer is a function from its bits to what they hold: Zero, or bit  *)
(* j of the s bits of block b of data set v.  How many bits a block takes  *)
(* at a variable rate is any choice within the codec's limits.             *)
(***************************************************************************)
EXTENDS BlockIndex, StoreShape, FiniteSets

CONSTANTS
  Kinds,          \* the index classes considered
  Shapes(_),      \* the sizes considered, for a dimensionality
  Dims,           \* the dimensionalities considered
  Rates,          \* sizes of blocks at a fixed rate
  Ranges,         \* <<minbits, maxbits>> of the expert mode
  ExpertFixed,    \* index classes given expert parameters of a fixed rate
  SizesOf(_, _),  \* sizes of the blocks at a variable rate, for a number of
                  \* blocks and <<minbits, maxbits>>
  DataSets,       \* the contents that the program sets
  WordBits,       \* bits per word of the stream
  HeaderBits      \* bits that the conservative buffer size adds

VARIABLES
  array,          \* the array: see NewArray
  wanted          \* what its elements should be: "nothing" known, "zero", or a
                  \* member of DataSets

vars == <<array, wanted>>

Zero == <<>>
RoundUp(m) == WordBits * ((m + WordBits - 1) \div WordBits)

\* line is the block in the cache, if any, and what was decoded from it;
\* overrun is whether anything was written past the end of the buffer.
NewArray(kind, D) ==
  [n |-> [d \in 1 .. D |-> 0], index |-> NewIndex(kind, D),
   bits |-> <<1, ZFP_MAX_BITS>>, buffer |-> <<>>, line |-> <<>>, overrun |-> FALSE]

FixedRate(a) == a.bits[1] = a.bits[2]

\* A conservative size for the codec's parameters (zfp_base::buffer_size).
\* Mutant: at a fixed rate it is not rounded up to words.
buffer_sizeUnrounded(a) ==
  IF Blocks(a.n) = 0 THEN 0
  ELSE IF ~ FixedRate(a) THEN RoundUp(HeaderBits + Blocks(a.n) * a.bits[2])
  ELSE Blocks(a.n) * a.bits[2]
buffer_size(a) ==
  IF Blocks(a.n) = 0 THEN 0
  ELSE IF ~ FixedRate(a) THEN RoundUp(HeaderBits + Blocks(a.n) * a.bits[2])
  ELSE RoundUp(Blocks(a.n) * a.bits[2])

alloc(a) == [a EXCEPT !.buffer = [i \in 0 .. (buffer_size(a) - 1) |-> Zero]]

\* BlockStore::clear.
Cleared(a) == alloc([a EXCEPT !.index = clear(@)])

\* Shrink the buffer to the words that the blocks end in.
compact(a) ==
  LET size == RoundUp(range(a.index))
  IN  IF Cardinality(DOMAIN a.buffer) > size
      THEN [a EXCEPT !.buffer = [i \in 0 .. (size - 1) |-> a.buffer[i]]]
      ELSE a

-----------------------------------------------------------------------------
\* encode_block: bits are written from the offset, and flushed with zeros to
\* the end of the word.
Encoded(buffer, o, v, b, size) ==
  [i \in DOMAIN buffer |->
     IF i < o \/ i >= RoundUp(o + size) THEN buffer[i]
     ELSE IF i >= o + size \/ v = "zero" THEN Zero
     ELSE [set |-> v, block |-> b, bit |-> i - o, size |-> size]]

\* BlockStore::encode.
encode(a, v, b, size) ==
  LET o == block_offset(a.index, b)
  IN  IF a.index.thrown THEN a
      ELSE [a EXCEPT !.buffer = Encoded(@, o, v, b, size),
                     !.index = set_block_size(@, b, size),
                     !.overrun = @ \/ RoundUp(o + size) > Cardinality(DOMAIN a.buffer)]

\* What is decoded as block b: an empty block from a zero bit; what was encoded
\* there if all of its bits are there; anything otherwise.
decode(a, b) ==
  LET o == block_offset(a.index, b)
      Read(i) == IF i \in DOMAIN a.buffer THEN a.buffer[i] ELSE Junk
      first == Read(o)
  IN  IF o = Junk \/ o \notin DOMAIN a.buffer THEN "garbage"
      ELSE IF first = Zero THEN "zero"
      ELSE IF /\ first.block = b /\ first.bit = 0
              /\ \A j \in 1 .. (first.size - 1) :
                   o + j \in DOMAIN a.buffer /\ Read(o + j) = [first EXCEPT !.bit = j]
      THEN first.set
      ELSE "garbage"

\* BlockCache::get, of an element of block b.
Value(a, b) == IF a.line # <<>> /\ a.line[1] = b THEN a.line[2] ELSE decode(a, b)

-----------------------------------------------------------------------------
\* An exception is the caller's to handle: the flag is for the operation only.
Outcome(a) == [a EXCEPT !.index.thrown = FALSE]

\* cache.clear(): no block is cached.
ClearedCache(a) == [a EXCEPT !.line = <<>>]

\* set_variable_rate throws for the implicit index, with nothing changed.
Variable(a, bits) ==
  IF a.index.kind = "implicit" THEN [a EXCEPT !.index = Throw(@)]
  ELSE Cleared([a EXCEPT !.bits = bits])

set_reversible(a) == Variable(a, <<1, ZFP_MAX_BITS>>)
set_precision(a) == Variable(a, <<1, ZFP_MAX_BITS>>)
set_accuracy(a) == Variable(a, <<1, ZFP_MAX_BITS>>)

set_rate(a, size) ==
  LET ix == set_all_block_sizes(a.index, size)
      b == [a EXCEPT !.bits = <<size, size>>, !.index = ix]
  IN  IF ix.thrown THEN b ELSE alloc(b)

set_params(a, bits) ==
  IF bits[1] # bits[2] THEN Variable(a, bits) ELSE Cleared([a EXCEPT !.bits = bits])

\* set_config: the member function for the configuration's mode.
set_config(a, c) ==
  CASE c.mode = "reversible" -> set_reversible(a)
    [] c.mode = "rate" -> set_rate(a, c.bits[2])
    [] c.mode = "precision" -> set_precision(a)
    [] c.mode = "accuracy" -> set_accuracy(a)
    [] c.mode = "expert" -> set_params(a, c.bits)

Configs ==
  [mode : {"rate"}, bits : {<<r, r>> : r \in Rates}]
    \cup [mode : {"reversible", "precision", "accuracy"}, bits : {<<1, ZFP_MAX_BITS>>}]
    \cup [mode : {"expert"}, bits : Ranges]
    \cup (IF array.index.kind \in ExpertFixed
          THEN [mode : {"expert"}, bits : {<<r, r>> : r \in Rates}] ELSE {})

Init ==
  /\ \E kind \in Kinds, D \in Dims : array = NewArray(kind, D)
  /\ wanted = "nothing"

\* set_rate, set_precision, set_accuracy, set_reversible, set_params and
\* set_config.  The buffer is all zeros; where its blocks begin is known only
\* at a fixed rate.
SetConfig(c) ==
  LET a == set_config(ClearedCache(array), c)
  IN  /\ array' = Outcome(a)
      /\ wanted' = CASE a.index.thrown /\ c.mode # "rate" -> wanted
                     [] ~ a.index.thrown /\ c.mode = "rate" -> "zero"
                     [] OTHER -> "nothing"

\* The blocks of the implicit index are where the rate puts them.
Resize(n) ==
  /\ array' = LET a == [ClearedCache(array) EXCEPT !.n = IF Blocks(n) = 0
                                                       THEN [d \in DOMAIN n |-> 0] ELSE n,
                                                   !.index = resize(@, Blocks(n))]
              IN  alloc(a)
  /\ wanted' = IF array.index.kind = "implicit" /\ FixedRate(array) THEN "zero" ELSE "nothing"

\* set: every block in order, then the index is flushed and the buffer shrunk.
set(a, v, sizes, shrink) ==
  LET begun == Cleared(ClearedCache(a))
      done == FoldLeft(LAMBDA r, k : encode(r, v, k - 1, sizes[k]), begun,
                       [k \in 1 .. Blocks(a.n) |-> k])
      flushed == [done EXCEPT !.index = IF @.thrown THEN @ ELSE flush(@)]
  IN  IF flushed.index.thrown \/ ~ shrink THEN flushed ELSE compact(flushed)

\* At a fixed rate blocks have that size; empty blocks have the least one.
BlockSizes(v) ==
  LET n == Blocks(array.n)
  IN  IF FixedRate(array) \/ v = "zero" THEN {[k \in 1 .. n |-> array.bits[1]]}
      ELSE SizesOf(n, array.bits)

Set(v, shrink) ==
  /\ array.index.kind = "implicit" => FixedRate(array)
  /\ \E sizes \in BlockSizes(v) :
       LET a == set(array, v, sizes, shrink)
       IN  /\ array' = Outcome(a)
           /\ wanted' = IF a.index.thrown THEN "nothing" ELSE v

\* An element of block b is read; the block remains in the cache.
Read(b) ==
  /\ b \in 0 .. (Blocks(array.n) - 1)
  /\ array' = [array EXCEPT !.line = <<b, Value(array, b)>>]
  /\ UNCHANGED wanted

\* clear_cache, and set_cache_size with its empty new lines.
DropCache ==
  /\ array' = ClearedCache(array)
  /\ UNCHANGED wanted

\* The array is copied and the copy is used from here on.  The cache is copied
\* with the store, and so is the stage that the index is in.
Copy ==
  /\ array' = [n |-> array.n, bits |-> array.bits, buffer |-> array.buffer,
               index |-> [array.index EXCEPT !.thrown = FALSE],
               line |-> array.line, overrun |-> array.overrun]
  /\ UNCHANGED wanted

Next ==
  \/ \E c \in Configs : SetConfig(c)
  \/ \E n \in Shapes(Len(array.n)) : Resize(n)
  \/ \E v \in DataSets \cup {"zero"}, shrink \in BOOLEAN : Set(v, shrink)
  \/ \E b \in 0 .. (Blocks(array.n) - 1) : Read(b)
  \/ DropCache
  \/ Copy

Spec == Init /\ [][Next]_vars

-----------------------------------------------------------------------------
(***************************************************************************)
(* Every element of every block reads as what was last set, or as zero     *)
(* where the array was cleared, from the cache or from the buffer: after   *)
(* any sequence of operations each block is decoded where it was encoded,  *)
(* no block was encoded over another, and the shrunk buffer holds all.     *)
(***************************************************************************)
ReadsLastSet ==
  wanted # "nothing" =>
    \A b \in 0 .. (Blocks(array.n) - 1) : Value(array, b) = wanted

(***************************************************************************)
(* The "conservative buffer size" (store2.hpp:56) suffices: no block, with *)
(* the zeros that end its last word, is written past the end of the buffer.*)
(***************************************************************************)
BufferSuffices == ~ array.overrun

\* The flat offset of an element, and of a position within a block of n.
Flat(n, x) ==
  CASE Len(n) = 1 -> x[1]
    [] Len(n) = 2 -> x[1] + n[1] * x[2]
    [] Len(n) = 3 -> x[1] + n[1] * (x[2] + n[2] * x[3])
    [] Len(n) = 4 -> x[1] + n[1] * (x[2] + n[2] * (x[3] + n[3] * x[4]))

(***************************************************************************)
(* Element p of the flat array given to set is encoded in the block, and   *)
(* at the place within it, where the accessors look for element p, within  *)
(* the width that the codec takes of a partial block; get puts it back at  *)
(* p, from the store or from the place that it has in a cache line.  No    *)
(* block has other elements.                                               *)
(***************************************************************************)
ElementsInPlace ==
  LET n == array.n
      copies == [b \in 0 .. (Blocks(n) - 1) |-> LineCopies(n, b)]
      widths == [b \in 0 .. (Blocks(n) - 1) |-> Widths(n, b)]
      count == IF Blocks(n) = 0 THEN 0 ELSE Flat(n, [d \in DOMAIN n |-> n[d] - 1]) + 1
  IN  /\ Total([b \in DOMAIN copies |-> Cardinality(copies[b])], DOMAIN copies) = count
      /\ \A p \in 0 .. (count - 1) :
           LET x == FlatIndex(n, p)
               b == block_index(n, x)
               q == [d \in DOMAIN x |-> x[d] % 4]
           IN  /\ \A d \in DOMAIN x : q[d] < widths[b][d]
               /\ SetPointer(n, b) + Flat(n, q) = p
               /\ GetPointer(n, b) + Flat(n, q) = p
               /\ <<p - GetPointer(n, b), LineIndex(x)>> \in copies[b]
=============================================================================
