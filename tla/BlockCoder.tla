----------------------------- MODULE BlockCoder -----------------------------
(***************************************************************************)
(* The coder of one-dimensional blocks: block floating point, lifting,     *)
(* negabinary coefficients and embedded coding of bit planes, lossy and    *)
(* reversible, in its four variants (at most 64 coefficients or more, with *)
(* a budget of bits or without), and its decoder.  Blocks are written one  *)
(* after the other to a bit stream, without marks between them, and read   *)
(* back: the decoder must know from the bits alone where a block ends.     *)
(*                                                                         *)
(* A stream is a sequence of bits.  Scalars have few bits: an integer has  *)
(* IntPrec of them; a float, a sign, EBITS of exponent and the rest of     *)
(* mantissa, its magnitude counted in units of the least subnormal.        *)
(***************************************************************************)
EXTENDS Lift, SequencesExt, Bitwise

CONSTANTS
  EBITS, PBITS,   \* bits of an exponent and of a reversible precision
  Few,            \* the number of coefficients from which bit planes do not fit a word: 64
  Jobs,           \* kinds of scalars and compression parameters
  IntBlocks, FloatBlocks,   \* first blocks of a stream
  MoreInts, MoreFloats,     \* blocks that follow
  MaxBlocks       \* bound on the blocks of a stream

ASSUME CoderAssumption ==
  /\ IntPrec \in Nat \ {0} /\ IntPrec % 2 = 0
  /\ EBITS \in 1 .. (IntPrec - 2) /\ 2 ^ PBITS = IntPrec
  /\ IntBlocks \cup MoreInts \subseteq
       [1 .. 4 -> (-(2 ^ (IntPrec - 1))) .. (2 ^ (IntPrec - 1) - 1)]
  /\ FloatBlocks \cup MoreFloats \subseteq [1 .. 4 -> [neg : BOOLEAN, mag : Nat]]
  \* floats reach the exponent, and integers the precision, within the budget
  /\ \A j \in Jobs : j.minbits <= j.maxbits
                     /\ (j.kind = "float" => j.maxbits >= 2 + EBITS + PBITS)

Size == 4
Lesser(m, n) == IF m < n THEN m ELSE n
Greater(m, n) == IF m > n THEN m ELSE n
Bits(x, n) == [i \in 1 .. n |-> (x \div 2 ^ (i - 1)) % 2]
Number(bits) == FoldLeft(LAMBDA sum, i : sum + bits[i] * 2 ^ (i - 1), 0, [i \in DOMAIN bits |-> i])
Zeros(n) == [i \in 1 .. n |-> 0]

-----------------------------------------------------------------------------
\* Bit planes.

Plane(data, k) == [i \in 1 .. Size |-> (data[i] \div 2 ^ k) % 2]
kmin(maxprec) == IF IntPrec > maxprec THEN IntPrec - maxprec ELSE 0
PlaneNumbers(maxprec) == [j \in 1 .. (IntPrec - kmin(maxprec)) |-> IntPrec - j]
with_maxbits(maxbits, maxprec) == (maxprec + 1) * Size - 1 > maxbits

\* The encoder has written out and may write bits more; n coefficients are significant.
Put(s, b) == [s EXCEPT !.bits = @ - 1, !.out = Append(@, b)]

\* At most Few coefficients: x is what is left of a bit plane.
Shift(s) == [s EXCEPT !.x = Tail(@), !.n = @ + 1]
RECURSIVE FewScan(_)
FewScan(s) ==
  IF s.bits = 0 \/ s.n >= Size - 1 THEN s
  ELSE IF s.x[1] = 1 THEN Put(s, 1) ELSE FewScan(Shift(Put(s, 0)))
RECURSIVE FewGroups(_)
FewGroups(s) ==
  IF s.bits = 0 \/ s.n >= Size THEN s
  ELSE IF \A i \in DOMAIN s.x : s.x[i] = 0 THEN Put(s, 0)
  ELSE FewGroups(Shift(FewScan(Put(s, 1))))
FewPlane(s, x) ==
  LET m == Lesser(s.n, s.bits)
  IN  FewGroups([s EXCEPT !.bits = @ - m, !.out = @ \o SubSeq(x, 1, m), !.x = SubSeq(x, m + 1, Size)])
encode_few_ints(maxbits, maxprec, data) ==
  FoldLeft(LAMBDA s, k : IF s.bits = 0 THEN s ELSE FewPlane(s, Plane(data, k)),
           [bits |-> maxbits, n |-> 0, x |-> <<>>, out |-> <<>>], PlaneNumbers(maxprec)).out

\* More coefficients: c one-bits of plane x are left.
RECURSIVE ManyScan(_, _)
ManyScan(s, x) ==
  IF s.bits = 0 \/ s.n >= Size - 1 THEN s
  ELSE IF x[s.n + 1] = 1 THEN Put(s, 1) ELSE ManyScan([Put(s, 0) EXCEPT !.n = @ + 1], x)
RECURSIVE ManyGroups(_, _)
ManyGroups(s, x) ==
  IF s.bits = 0 \/ s.n >= Size THEN s
  ELSE IF s.c = 0 THEN Put(s, 0)
  ELSE LET t == ManyScan([Put(s, 1) EXCEPT !.c = @ - 1], x) IN ManyGroups([t EXCEPT !.n = @ + 1], x)
\* Mutant: counts the ones of the whole plane.
ManyPlaneAll(s, x) ==
  LET m == Lesser(s.n, s.bits)
      ones == FoldLeft(LAMBDA sum, b : sum + b, 0, x)
  IN  ManyGroups([s EXCEPT !.bits = @ - m, !.out = @ \o SubSeq(x, 1, m), !.c = ones], x)
ManyPlane(s, x) ==
  LET m == Lesser(s.n, s.bits)
      ones == FoldLeft(LAMBDA sum, b : sum + b, 0, SubSeq(x, m + 1, Size))
  IN  ManyGroups([s EXCEPT !.bits = @ - m, !.out = @ \o SubSeq(x, 1, m), !.c = ones], x)
encode_many_ints(maxbits, maxprec, data) ==
  FoldLeft(LAMBDA s, k : IF s.bits = 0 THEN s ELSE ManyPlane(s, Plane(data, k)),
           [bits |-> maxbits, n |-> 0, c |-> 0, out |-> <<>>], PlaneNumbers(maxprec)).out

\* Without a budget.
RECURSIVE FewPrecGroups(_, _, _)
FewPrecGroups(n, x, out) ==
  LET Scanned == CHOOSE i \in 1 .. (Size - n) :     \* coefficients up to the next one-bit
                   /\ \A j \in 1 .. (i - 1) : x[j] = 0
                   /\ x[i] = 1 \/ i = Size - n
      code == SubSeq(x, 1, Lesser(Scanned, Size - n - 1))
  IN  IF n >= Size THEN [n |-> n, out |-> out]
      ELSE IF \A i \in DOMAIN x : x[i] = 0 THEN [n |-> n, out |-> Append(out, 0)]
      ELSE FewPrecGroups(n + Scanned, SubSeq(x, Scanned + 1, Size - n), Append(out, 1) \o code)
encode_few_ints_prec(maxprec, data) ==
  FoldLeft(LAMBDA s, k : LET x == Plane(data, k)
                         IN  FewPrecGroups(s.n, SubSeq(x, s.n + 1, Size), s.out \o SubSeq(x, 1, s.n)),
           [n |-> 0, out |-> <<>>], PlaneNumbers(maxprec)).out
RECURSIVE ManyPrecGroups(_, _, _, _)
ManyPrecGroups(n, c, x, out) ==
  LET Next1 == CHOOSE i \in n .. (Size - 1) :
                 (\A j \in n .. (i - 1) : x[j + 1] = 0) /\ (x[i + 1] = 1 \/ i = Size - 1)
  IN  IF n >= Size THEN [n |-> n, out |-> out]
      ELSE IF c = 0 THEN [n |-> n, out |-> Append(out, 0)]
      ELSE ManyPrecGroups(Next1 + 1, c - 1, x,
                          Append(out, 1) \o SubSeq(x, n + 1, Lesser(Next1 + 1, Size - 1)))
encode_many_ints_prec(maxprec, data) ==
  FoldLeft(LAMBDA s, k : LET x == Plane(data, k)
                         IN  ManyPrecGroups(s.n, FoldLeft(LAMBDA a, b : a + b, 0, SubSeq(x, s.n + 1, Size)),
                                            x, s.out \o SubSeq(x, 1, s.n)),
           [n |-> 0, out |-> <<>>], PlaneNumbers(maxprec)).out

encode_ints(maxbits, maxprec, data) ==
  IF with_maxbits(maxbits, maxprec)
  THEN IF Size <= Few THEN encode_few_ints(maxbits, maxprec, data)
       ELSE encode_many_ints(maxbits, maxprec, data)
  ELSE IF Size <= Few THEN encode_few_ints_prec(maxprec, data)
       ELSE encode_many_ints_prec(maxprec, data)

-----------------------------------------------------------------------------
\* Decoding: from the bits in, r of them read, bits more allowed.

Bit(s, in) == in[s.r + 1]
Took(s) == [s EXCEPT !.bits = @ - 1, !.r = @ + 1]
RECURSIVE DecodeScan(_, _)
DecodeScan(s, in) ==
  IF s.bits = 0 \/ s.n >= Size - 1 THEN s
  ELSE IF Bit(s, in) = 1 THEN Took(s) ELSE DecodeScan([Took(s) EXCEPT !.n = @ + 1], in)
RECURSIVE DecodeGroups(_, _, _)
DecodeGroups(s, in, unit) ==
  IF s.bits = 0 \/ s.n >= Size THEN s
  ELSE IF Bit(s, in) = 0 THEN Took(s)
  ELSE LET t == DecodeScan(Took(s), in)
       IN  DecodeGroups([t EXCEPT !.n = @ + 1, !.data[t.n + 1] = @ + unit], in, unit)
DecodePlane(s, in, unit) ==
  LET m == Lesser(s.n, s.bits)
  IN  DecodeGroups([s EXCEPT !.bits = @ - m, !.r = @ + m,
        !.data = [i \in 1 .. Size |-> IF i <= m THEN @[i] + in[s.r + i] * unit ELSE @[i]]], in, unit)
\* Add the bit plane x to the data.
Deposit(data, x, k) == [i \in 1 .. Size |-> data[i] + x[i] * 2 ^ k]
DecodeInts(in, r, maxbits, maxprec, Step(_, _)) ==
  LET end == FoldLeft(LAMBDA s, k : IF s.bits = 0 THEN s ELSE Step(s, k),
                      [bits |-> maxbits, n |-> 0, r |-> r, data |-> Zeros(Size)], PlaneNumbers(maxprec))
  IN  [bits |-> maxbits - end.bits, data |-> end.data]
decode_few_ints(in, r, maxbits, maxprec) ==
  LET Step(s, k) == LET t == DecodePlane([s EXCEPT !.data = Zeros(Size)], in, 1)
                    IN  [t EXCEPT !.data = Deposit(s.data, @, k)]
  IN  DecodeInts(in, r, maxbits, maxprec, Step)
decode_many_ints(in, r, maxbits, maxprec) ==
  DecodeInts(in, r, maxbits, maxprec, LAMBDA s, k : DecodePlane(s, in, 2 ^ k))

\* Without a budget.
RECURSIVE DecodePrecScan(_, _)
DecodePrecScan(s, in) ==
  IF s.n >= Size - 1 THEN s
  ELSE IF Bit(s, in) = 1 THEN [s EXCEPT !.r = @ + 1]
  ELSE DecodePrecScan([s EXCEPT !.r = @ + 1, !.n = @ + 1], in)
RECURSIVE DecodePrecGroups(_, _, _)
DecodePrecGroups(s, in, unit) ==
  IF s.n >= Size THEN s
  ELSE IF Bit(s, in) = 0 THEN [s EXCEPT !.r = @ + 1]
  ELSE LET t == DecodePrecScan([s EXCEPT !.r = @ + 1], in)
       IN  DecodePrecGroups([t EXCEPT !.n = @ + 1, !.data[t.n + 1] = @ + unit], in, unit)
\* Mutant: skips the bits of coefficients already significant.
DecodePrecPlaneSkips(s, in, unit) == DecodePrecGroups([s EXCEPT !.r = @ + s.n], in, unit)
DecodePrecPlane(s, in, unit) ==
  DecodePrecGroups([s EXCEPT !.r = @ + s.n,
    !.data = [i \in 1 .. Size |-> IF i <= s.n THEN @[i] + in[s.r + i] * unit ELSE @[i]]], in, unit)
DecodeIntsPrec(in, r, maxprec, Step(_, _)) ==
  LET end == FoldLeft(Step, [n |-> 0, r |-> r, data |-> Zeros(Size)], PlaneNumbers(maxprec))
  IN  [bits |-> end.r - r, data |-> end.data]
decode_few_ints_prec(in, r, maxprec) ==
  LET Step(s, k) == LET t == DecodePrecPlane([s EXCEPT !.data = Zeros(Size)], in, 1)
                    IN  [t EXCEPT !.data = Deposit(s.data, @, k)]
  IN  DecodeIntsPrec(in, r, maxprec, Step)
decode_many_ints_prec(in, r, maxprec) ==
  DecodeIntsPrec(in, r, maxprec, LAMBDA s, k : DecodePrecPlane(s, in, 2 ^ k))

decode_ints(in, r, maxbits, maxprec) ==
  IF with_maxbits(maxbits, maxprec)
  THEN IF Size <= Few THEN decode_few_ints(in, r, maxbits, maxprec)
       ELSE decode_many_ints(in, r, maxbits, maxprec)
  ELSE IF Size <= Few THEN decode_few_ints_prec(in, r, maxprec)
       ELSE decode_many_ints_prec(in, r, maxprec)

-----------------------------------------------------------------------------
\* Coefficients.

Unsigned(x) == x % 2 ^ IntPrec
NBMASK == 2 * ((2 ^ IntPrec - 1) \div 3)
int2uint(x) == Unsigned(x + NBMASK) ^^ NBMASK
uint2int(x) == Signed((x ^^ NBMASK) - NBMASK)
fwd_order(block) == [i \in 1 .. Size |-> int2uint(block[i])]
inv_order(data) == [i \in 1 .. Size |-> uint2int(data[i])]

\* Bits from the top to the lowest one-bit of any value, by binary search.
RECURSIVE PrecisionSearch(_, _, _)
PrecisionSearch(m, s, p) ==
  IF m = 0 THEN p
  ELSE IF Unsigned(m * 2 ^ (s - 1)) # 0
       THEN PrecisionSearch(Unsigned(m * 2 ^ s), s \div 2, p + s)
       ELSE PrecisionSearch(m, s \div 2, p)
rev_precision(data) ==
  PrecisionSearch(FoldLeft(LAMBDA m, x : m | x, 0, data), IntPrec, 0)

-----------------------------------------------------------------------------
\* Blocks of integers: the bits written, and the coefficients they stand for.

Padded(out, minbits) == out \o Zeros(Greater(minbits - Len(out), 0))
encode_block_int(minbits, maxbits, maxprec, block) ==
  LET data == fwd_order(fwd_lift(block))
  IN  [out |-> Padded(encode_ints(maxbits, maxprec, data), minbits),
       data |-> data, prec |-> maxprec]
\* Mutant: does not skip the padding.
decode_block_intBare(in, r, minbits, maxbits, maxprec) ==
  LET d == decode_ints(in, r, maxbits, maxprec)
  IN  [bits |-> d.bits, data |-> d.data, block |-> inv_lift(inv_order(d.data))]
decode_block_int(in, r, minbits, maxbits, maxprec) ==
  LET d == decode_ints(in, r, maxbits, maxprec)
  IN  [bits |-> Greater(d.bits, minbits), data |-> d.data, block |-> inv_lift(inv_order(d.data))]

rev_encode_block_int(minbits, maxbits, maxprec, block) ==
  LET data == fwd_order(rev_fwd_lift(block))
      prec == Greater(Lesser(rev_precision(data), maxprec), 1)
  IN  [out |-> Padded(Bits(prec - 1, PBITS) \o encode_ints(maxbits - PBITS, prec, data), minbits),
       data |-> data, prec |-> prec]
rev_decode_block_int(in, r, minbits, maxbits) ==
  LET prec == Number(SubSeq(in, r + 1, r + PBITS)) + 1
      d == decode_ints(in, r + PBITS, maxbits - PBITS, prec)
  IN  [bits |-> Greater(PBITS + d.bits, minbits), data |-> d.data,
       block |-> rev_inv_lift(inv_order(d.data))]

-----------------------------------------------------------------------------
(***************************************************************************)
(* Floats.  MBITS mantissa bits; the exponent e of frexp() is kept with    *)
(* EBIAS added, 0 for zero.  Infinities and NaNs are left out, and so are  *)
(* blocks whose largest magnitude is subnormal, for which the code says    *)
(* that the scale factor may overflow.                                     *)
(***************************************************************************)
MBITS == IntPrec - 1 - EBITS
RECURSIVE BitLength(_)
BitLength(x) == IF x = 0 THEN 0 ELSE 1 + BitLength(x \div 2)
exponent(mag) == IF mag = 0 THEN 0 ELSE Greater(BitLength(mag) - MBITS + 1, 1)
exponent_block(block) ==
  exponent(FoldLeft(LAMBDA max, f : Greater(max, f.mag), 0, block))
precision(e, maxprec, minexp) == Lesser(maxprec, Greater(0, e - minexp + 2 + 2))

\* s * x as an integer, and back; a power of two that is not integral truncates.
Scaled(x, e) == IF e >= 0 THEN x * 2 ^ e ELSE x \div 2 ^ (-e)
fwd_cast(block, e) ==
  [i \in 1 .. Size |-> LET y == Scaled(block[i].mag, EBITS - e) IN IF block[i].neg THEN -y ELSE y]
inv_cast(iblock, e) ==
  [i \in 1 .. Size |-> [neg |-> iblock[i] < 0,
                        mag |-> Scaled(IF iblock[i] < 0 THEN -iblock[i] ELSE iblock[i], e - EBITS)]]
rev_fwd_cast(block, e) == IF e = 0 THEN Zeros(Size) ELSE fwd_cast(block, e)
rev_inv_cast(iblock, e) ==
  IF e = 0 THEN [i \in 1 .. Size |-> [neg |-> FALSE, mag |-> 0]] ELSE inv_cast(iblock, e)
\* Mutant: compares values, to which zero and minus zero are equal.
rev_fwd_reversibleByValue(block, e) ==
  \A i \in 1 .. Size : rev_inv_cast(rev_fwd_cast(block, e), e)[i].mag = block[i].mag
rev_fwd_reversible(block, e) == rev_inv_cast(rev_fwd_cast(block, e), e) = block

\* The bits of a float as a sign-magnitude integer, made two's complement.
Pattern(f) ==
  LET e == IF f.mag < 2 ^ MBITS THEN 0 ELSE BitLength(f.mag) - MBITS
  IN  IF e = 0 THEN f.mag ELSE e * 2 ^ MBITS + f.mag \div 2 ^ (e - 1) - 2 ^ MBITS
Magnitude(pattern) ==
  LET e == pattern \div 2 ^ MBITS
  IN  IF e = 0 THEN pattern ELSE (2 ^ MBITS + (pattern % 2 ^ MBITS)) * 2 ^ (e - 1)
rev_fwd_reinterpret(block) ==
  [i \in 1 .. Size |-> IF block[i].neg THEN -1 - Pattern(block[i]) ELSE Pattern(block[i])]
rev_inv_reinterpret(iblock) ==
  [i \in 1 .. Size |-> [neg |-> iblock[i] < 0,
                        mag |-> Magnitude(IF iblock[i] < 0 THEN -1 - iblock[i] ELSE iblock[i])]]

\* A block whose biased exponent is zero, or has no bit plane to code, is one bit.
encode_block_float(j, block) ==
  LET emax == exponent_block(block)
      maxprec == precision(emax, j.maxprec, j.minexp)
      e == IF maxprec = 0 THEN 0 ELSE emax
      bits == 1 + EBITS
      rest == encode_block_int(j.minbits - Lesser(bits, j.minbits), j.maxbits - bits, maxprec,
                               fwd_cast(block, emax))
  IN  IF e = 0 THEN [out |-> Padded(<<0>>, j.minbits), data |-> Zeros(Size), prec |-> 0]
      ELSE [rest EXCEPT !.out = Bits(2 * e + 1, bits) \o @]
decode_block_float(j, in, r) ==
  LET emax == Number(SubSeq(in, r + 2, r + 1 + EBITS))
      bits == 1 + EBITS
      rest == decode_block_int(in, r + bits, j.minbits - Lesser(bits, j.minbits), j.maxbits - bits,
                               precision(emax, j.maxprec, j.minexp))
  IN  IF in[r + 1] = 0
      THEN [bits |-> Greater(1, j.minbits), data |-> Zeros(Size), block |-> Zeros(Size)]
      ELSE [rest EXCEPT !.bits = bits + @]

rev_encode_block_float(j, block) ==
  LET e == exponent_block(block)
      head == IF rev_fwd_reversible(block, e) THEN <<1, 0>> \o Bits(e, EBITS) ELSE <<1, 1>>
      ints == IF rev_fwd_reversible(block, e) THEN rev_fwd_cast(block, e) ELSE rev_fwd_reinterpret(block)
      bits == Len(head)
      rest == rev_encode_block_int(j.minbits - Lesser(bits, j.minbits), j.maxbits - bits, j.maxprec, ints)
  IN  IF rev_fwd_reversible(block, e) /\ e = 0 THEN [out |-> <<0>>, data |-> Zeros(Size), prec |-> 0]
      ELSE [rest EXCEPT !.out = head \o @]
rev_decode_block_float(j, in, r) ==
  LET e == Number(SubSeq(in, r + 3, r + 2 + EBITS))
      bits == IF in[r + 2] = 1 THEN 2 ELSE 2 + EBITS
      rest == rev_decode_block_int(in, r + bits, j.minbits - Lesser(bits, j.minbits), j.maxbits - bits)
  IN  IF in[r + 1] = 0
      THEN [bits |-> Greater(1, j.minbits), data |-> Zeros(Size),
            block |-> [i \in 1 .. Size |-> [neg |-> FALSE, mag |-> 0]]]
      ELSE [rest EXCEPT !.bits = bits + @,
              !.block = IF in[r + 2] = 1 THEN rev_inv_reinterpret(@) ELSE rev_inv_cast(@, e)]

-----------------------------------------------------------------------------
\* zfp_encode_block and zfp_decode_block for job j.
zfp_encode_block(j, block) ==
  CASE j.kind = "int" /\ ~ j.reversible -> encode_block_int(j.minbits, j.maxbits, j.maxprec, block)
    [] j.kind = "int" /\ j.reversible -> rev_encode_block_int(j.minbits, j.maxbits, j.maxprec, block)
    [] j.kind = "float" /\ ~ j.reversible -> encode_block_float(j, block)
    [] j.kind = "float" /\ j.reversible -> rev_encode_block_float(j, block)
zfp_decode_block(j, in, r) ==
  CASE j.kind = "int" /\ ~ j.reversible -> decode_block_int(in, r, j.minbits, j.maxbits, j.maxprec)
    [] j.kind = "int" /\ j.reversible -> rev_decode_block_int(in, r, j.minbits, j.maxbits)
    [] j.kind = "float" /\ ~ j.reversible -> decode_block_float(j, in, r)
    [] j.kind = "float" /\ j.reversible -> rev_decode_block_float(j, in, r)

VARIABLES
  job,            \* scalar type and parameters
  stream,         \* the bits
  written,        \* history: each block, its coefficients, its precision and its end
  pos,            \* bits read; -1 while the stream is written
  read            \* the blocks and coefficients decoded

vars == <<job, stream, written, pos, read>>

Init == job \in Jobs /\ stream = <<>> /\ written = <<>> /\ pos = -1 /\ read = <<>>

\* Integers to be transformed by lossy lifting have two bits to spare; without them
\* signed arithmetic would overflow.
InRange(block) ==
  job.kind = "int" /\ ~ job.reversible =>
    \A i \in 1 .. Size : block[i] \in (-(2 ^ (IntPrec - 2))) .. (2 ^ (IntPrec - 2) - 1)

Encode ==
  /\ pos = -1 /\ Len(written) < MaxBlocks
  /\ \E block \in CASE written = <<>> -> IF job.kind = "int" THEN IntBlocks ELSE FloatBlocks
                    [] OTHER -> IF job.kind = "int" THEN MoreInts ELSE MoreFloats :
       LET c == zfp_encode_block(job, block)
       IN  /\ InRange(block)
           /\ stream' = stream \o c.out
           /\ written' = Append(written, [block |-> block, data |-> c.data, prec |-> c.prec,
                                          bits |-> Len(c.out), end |-> Len(stream')])
  /\ UNCHANGED <<job, pos, read>>

Rewind ==
  /\ pos = -1 /\ Len(written) = MaxBlocks
  /\ pos' = 0
  /\ UNCHANGED <<job, stream, written, read>>

\* The words after a stream are zero here; nothing may depend on them.
Decode ==
  /\ pos >= 0 /\ Len(read) < Len(written)
  /\ LET d == zfp_decode_block(job, stream \o Zeros(64), pos)
     IN  /\ pos' = pos + d.bits
         /\ read' = Append(read, [block |-> d.block, data |-> d.data])
  /\ UNCHANGED <<job, stream, written>>

Finished == pos >= 0 /\ Len(read) = Len(written) /\ UNCHANGED vars

Next == Encode \/ Rewind \/ Decode \/ Finished
Spec == Init /\ [][Next]_vars

-----------------------------------------------------------------------------
\* In reversible mode a block of floating-point zeros is one bit, which the encoder does not pad
\* to minbits, though the decoder skips as many.
Unpadded(i) ==
  /\ job.kind = "float" /\ job.reversible /\ job.minbits > 1
  /\ \A c \in 1 .. Size : written[i].block[c] = [neg |-> FALSE, mag |-> 0]
\* No such block is among the first n.
AllPadded(n) == \A i \in 1 .. n : ~ Unpadded(i)

\* A block takes at least minbits and at most maxbits bits, and never more than the size
\* that with_maxbits and zfp_stream_maximum_size count with.
WithinBudget ==
  \A i \in 1 .. Len(written) :
    LET overhead == (IF job.kind = "float" THEN 1 + EBITS ELSE 0)
                      + (IF job.reversible THEN PBITS + (IF job.kind = "float" THEN 1 ELSE 0) ELSE 0)
    IN  /\ job.minbits <= written[i].bits \/ Unpadded(i)
        /\ written[i].bits <= job.maxbits
        /\ written[i].bits <= Greater(job.minbits,
             overhead + Size - 1 + Size * Lesser(job.maxprec, IntPrec))

(***************************************************************************)
(* Encoder and decoder count bits alike and keep to the budget: after a    *)
(* block is decoded the cursor is where the next one begins, also when the *)
(* budget cut a group short and when zeros were padded to minbits, and     *)
(* blocks are as long as callers count on.  Nothing is said of what        *)
(* follows a reversible block of zeros that is not padded.                 *)
(***************************************************************************)
InStep ==
  /\ WithinBudget
  /\ read # <<>> /\ AllPadded(Len(read)) => pos = written[Len(read)].end

\* Reversible mode gives back the very bits of every block that fits the budget:
\* minus zero, subnormals, and integers whose differences overflow.
Lossless ==
  job.reversible /\ job.maxbits >= 2 + EBITS + PBITS + (IntPrec + 1) * Size =>
    \A i \in 1 .. Len(read) : AllPadded(i - 1) => read[i].block = written[i].block

(***************************************************************************)
(* A block that the budget does not cut decodes to its coefficients with   *)
(* the bit planes below the precision cleared, and nothing else changed.   *)
(***************************************************************************)
TopPlanes ==
  \A i \in 1 .. Len(read) :
    LET w == written[i]
        kept == 2 ^ kmin(w.prec)
    IN  (job.maxbits >= 1 + EBITS + PBITS + 1 + (IntPrec + 1) * Size /\ w.prec > 0 /\ AllPadded(i - 1)) =>
          \A c \in 1 .. Size : read[i].data[c] = (w.data[c] \div kept) * kept

(***************************************************************************)
(* The four encoders write the same bits: those for more than 64           *)
(* coefficients as those for few; and with a budget, the first bits of the *)
(* stream without one ("embedded": a stream can be truncated anywhere).    *)
(* So do the decoders agree on what they read.                             *)
(***************************************************************************)
VariantsAgree ==
  written # <<>> =>
    LET w == written[Len(written)]
        whole == encode_few_ints_prec(w.prec, w.data)
    IN  w.prec > 0 =>
          /\ encode_many_ints_prec(w.prec, w.data) = whole
          /\ decode_many_ints_prec(whole, 0, w.prec) = decode_few_ints_prec(whole, 0, w.prec)
          /\ \A budget \in {0, 3, 6, 11, 2 * Len(whole)} :
               LET first == SubSeq(whole, 1, Lesser(budget, Len(whole)))
               IN  /\ encode_few_ints(budget, w.prec, w.data) = first
                   /\ encode_many_ints(budget, w.prec, w.data) = first
                   /\ decode_few_ints(first, 0, budget, w.prec) = decode_many_ints(first, 0, budget, w.prec)
=============================================================================
