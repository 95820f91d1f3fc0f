------------------------------ MODULE BlockIndex ------------------------------
(***************************************************************************)
(* Where the blocks of a compressed array begin: the four index classes of *)
(* index.hpp, with their bit widths as parameters.                         *)
(*                                                                         *)
(*   implicit   block b begins at b times the size that all blocks have;   *)
(*   verbatim   an offset for each block;                                  *)
(*   hybrid4    a base for 4 blocks, of which the Shift low bits are       *)
(*              dropped, and LoBits of distance from it for each;          *)
(*   hybrid8    a base for 8 blocks and the sizes of 7, packed as digits   *)
(*              of LBits and of Hbits bits in two words.                   *)
(*                                                                         *)
(* All but the first are built block by block: block is the next one.  An  *)
(* operation that throws leaves what it changed before, and thrown set.    *)
(***************************************************************************)
EXTENDS Integers, Sequences, Functions, SequencesExt

CONSTANTS
  ZFP_MAX_BITS,   \* no block is larger
  Shift,          \* hybrid4: 12
  HiBits,         \* hybrid4: 32
  LoBits,         \* hybrid4: 16
  LBits,          \* hybrid8: 8
  HbitsPerDim     \* hybrid8: 2

ASSUME WidthsAssumption ==
  /\ {ZFP_MAX_BITS, Shift, HiBits, LoBits, LBits, HbitsPerDim} \subseteq Nat
  /\ 2 ^ Shift - 1 + 3 * ZFP_MAX_BITS < 2 ^ LoBits

\* What is read from memory that was allocated and not written.
Junk == -1

Total(f, S) == FoldFunctionOnSet(LAMBDA m, n : m + n, 0, f, S)

\* Bits per word of hybrid8, bits of its high digits.
Word8 == 8 * LBits
Hbits(D) == HbitsPerDim * (D - 1)

-----------------------------------------------------------------------------
\* The offset of block b.
verbatim_block_offset(ix, b) == ix.data[b]

hybrid4_block_offset(ix, b) ==
  LET r == ix.data[b \div 4]
  IN  IF b = ix.block THEN ix.end
      ELSE IF r.hi = Junk THEN Junk
      ELSE r.hi * 2 ^ Shift + r.lo[b % 4]

\* The sum of eight packed digits of n bits.
sum8(x, n) == Total([k \in 0 .. 7 |-> (x \div 2 ^ (k * n)) % 2 ^ n], 0 .. 7)

\* The offset of block k of the chunk with words h and l.
hybrid8_offset(D, h, l, k) ==
  LET base == h \div 2 ^ (8 * Hbits(D))
      high == h - base * 2 ^ (8 * Hbits(D))
  IN  (base * 2 ^ Hbits(D) + sum8(high \div 2 ^ ((7 - k) * Hbits(D)), Hbits(D))) * 2 ^ LBits
      + sum8(l \div 2 ^ ((7 - k) * LBits), LBits)

hybrid8_block_offset(ix, b) ==
  LET r == ix.data[b \div 8]
  IN  IF b = ix.block THEN ix.end
      ELSE IF r.hi = Junk THEN Junk
      ELSE hybrid8_offset(ix.dims, r.hi, r.lo, b % 8)

block_offset(ix, b) ==
  CASE ix.kind = "implicit" -> b * ix.bits
    [] ix.kind = "verbatim" -> verbatim_block_offset(ix, b)
    [] ix.kind = "hybrid4" -> hybrid4_block_offset(ix, b)
    [] ix.kind = "hybrid8" -> hybrid8_block_offset(ix, b)

\* The size of all blocks together.
range(ix) ==
  IF ix.kind \in {"implicit", "verbatim"} THEN block_offset(ix, ix.blocks) ELSE ix.end

\* Mutant: the end of the blocks is kept.
clearKeepsEnd(ix) == [ix EXCEPT !.block = 0, !.ptr = 0]
clear(ix) == [ix EXCEPT !.block = 0, !.ptr = 0, !.end = 0]

\* The data are allocated; of the verbatim index, the first is set.
resize(ix, blocks) ==
  LET chunks == IF ix.kind = "hybrid4" THEN (blocks + 3) \div 4 ELSE (blocks + 7) \div 8
      data == CASE ix.kind = "implicit" -> <<>>
                [] ix.kind = "verbatim" -> [b \in 0 .. blocks |-> IF b = 0 THEN 0 ELSE Junk]
                [] OTHER -> [c \in 0 .. (chunks - 1) |-> [hi |-> Junk, lo |-> Junk]]
  IN  clear([ix EXCEPT !.blocks = blocks, !.data = data])

NewIndex(kind, D) ==
  resize([kind |-> kind, dims |-> D, blocks |-> 0, bits |-> 0, data |-> <<>>,
          block |-> 0, ptr |-> 0, end |-> 0, buffer |-> [k \in 0 .. 7 |-> 0],
          thrown |-> FALSE], 0)

-----------------------------------------------------------------------------
\* set_block_size(b, size): the blocks in order.
Throw(ix) == [ix EXCEPT !.thrown = TRUE]

verbatim_set_block_size(ix, b, size) ==
  IF b # ix.block \/ ix.block = ix.blocks THEN Throw(ix)
  ELSE [ix EXCEPT !.data[b + 1] = ix.data[b] + size, !.block = @ + 1]

hybrid4_set_block_size(ix, b, size) ==
  LET next == [ix EXCEPT !.end = @ + size, !.buffer[b % 4] = size]
      at == [k \in 0 .. 4 |-> ix.ptr + Total(next.buffer, 0 .. (k - 1))]
      hi == (ix.ptr \div 2 ^ Shift) % 2 ^ HiBits
      chunk == [hi |-> hi, lo |-> [k \in 0 .. 3 |-> (at[k] - hi * 2 ^ Shift) % 2 ^ LoBits]]
  IN  IF b # ix.block \/ (ix.block >= ix.blocks /\ size > 0) \/ size > ZFP_MAX_BITS
      THEN Throw(ix)
      ELSE IF b % 4 < 3 THEN [next EXCEPT !.block = @ + 1]
      ELSE IF ix.ptr \div 2 ^ (HiBits + Shift) > 0 THEN Throw(next)
      ELSE [next EXCEPT !.data[b \div 4] = chunk, !.ptr = at[4], !.block = @ + 1]

hybrid8_set_block_size(ix, b, size) ==
  LET H == Hbits(ix.dims)
      next == [ix EXCEPT !.end = @ + size, !.buffer[b % 8] = size]
      s == next.buffer
      h == ix.ptr \div 2 ^ LBits
      hi == (h * 2 ^ (7 * H)) % 2 ^ Word8
      lo == (ix.ptr % 2 ^ LBits) * 2 ^ (7 * LBits)
      chunk == [hi |-> hi + Total([k \in 0 .. 6 |-> (s[k] \div 2 ^ LBits) * 2 ^ ((6 - k) * H)], 0 .. 6),
                lo |-> lo + Total([k \in 0 .. 6 |-> (s[k] % 2 ^ LBits) * 2 ^ ((6 - k) * LBits)], 0 .. 6)]
  IN  IF b # ix.block \/ (ix.block >= ix.blocks /\ size > 0) \/ size \div 2 ^ (H + LBits) > 0
      THEN Throw(ix)
      ELSE IF b % 8 < 7 THEN [next EXCEPT !.block = @ + 1]
      ELSE IF hi \div 2 ^ (7 * H) # h THEN Throw(next)
      ELSE [next EXCEPT !.data[b \div 8] = chunk, !.ptr = @ + Total(s, 0 .. 7), !.block = @ + 1]

set_block_size(ix, b, size) ==
  CASE ix.thrown \/ ix.kind = "implicit" -> ix
    [] ~ ix.thrown /\ ix.kind = "verbatim" -> verbatim_set_block_size(ix, b, size)
    [] ~ ix.thrown /\ ix.kind = "hybrid4" -> hybrid4_set_block_size(ix, b, size)
    [] ~ ix.thrown /\ ix.kind = "hybrid8" -> hybrid8_set_block_size(ix, b, size)

\* Blocks without size up to the end of the chunk.
flush(ix) ==
  LET n == CASE ix.kind = "hybrid4" -> 4 [] ix.kind = "hybrid8" -> 8 [] OTHER -> 1
  IN  FoldLeft(LAMBDA i, k : set_block_size(i, i.block, 0), ix,
               [k \in 1 .. ((n - (ix.block % n)) % n) |-> k])

\* set_block_size(size): the same size for all blocks.
set_all_block_sizes(ix, size) ==
  LET built == FoldLeft(LAMBDA i, b : set_block_size(i, b, size), clear(ix),
                        [k \in 1 .. ix.blocks |-> k - 1])
      flushed == flush(built)
  IN  IF ix.kind = "implicit" THEN [ix EXCEPT !.bits = size]
      ELSE IF flushed.thrown THEN flushed ELSE clear(flushed)
=============================================================================
