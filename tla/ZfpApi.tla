------------------------------- MODULE ZfpApi -------------------------------
(***************************************************************************)
(* The structs zfp_field and zfp_stream and the functions of zfp.c that    *)
(* compute with them: extents and strides, the four compression            *)
(* parameters, the code words of a header, sizes, and the choice of a      *)
(* (de)compressor.  A function that changes a struct is an operator from   *)
(* structs to structs.  ZfpStream and ZfpTool call them.                   *)
(***************************************************************************)
EXTENDS Integers, Sequences

CONSTANTS
  DimBits,        \* DimBits[d]: bits of a header for an extent in d dimensions: 48, 24, 16, 12
  ReadBits,       \* ReadBits[d]: how many of them are read: 32, 24, 16, 12
  WordBits,       \* bits in a stream word: 64
  UintBits,       \* bits in a uint: 32
  WithOmp         \* is the build one with OpenMP?

ASSUME ApiAssumption ==
  /\ DimBits \in [1 .. 4 -> Nat \ {0}]
  /\ ReadBits \in [1 .. 4 -> Nat \ {0}]
  /\ \A d \in 1 .. 4 : ReadBits[d] <= DimBits[d]
  /\ WordBits \in Nat \ {0}
  /\ WithOmp \in BOOLEAN
\* The digits of all extents take no more bits than the one of a single extent.
ASSUME DigitAssumption ==
  /\ \A d \in 1 .. 4 : d * DimBits[d] <= DimBits[1]
  /\ UintBits \in 1 .. DimBits[1]
\* The provers know nothing of powers, TLC evaluates them.
ASSUME PowerAssumption == \A k \in 0 .. DimBits[1] : 2 ^ k \in Nat \ {0}

Lesser(m, n) == IF m < n THEN m ELSE n
Greater(m, n) == IF m > n THEN m ELSE n
RoundUp(size, unit) == ((size + unit - 1) \div unit) * unit

-----------------------------------------------------------------------------
\* Fields: a scalar type, four extents and four strides, 0 where unused.

ScalarTypes == {"int32", "int64", "float", "double"}
TypeSize(type) ==
  CASE type = "int32"  -> 4
    [] type = "int64"  -> 8
    [] type = "float"  -> 4
    [] type = "double" -> 8
    [] OTHER           -> 0

NoExtents == <<0, 0, 0, 0>>
zfp_field_alloc == [type |-> "none", n |-> NoExtents, s |-> NoExtents]
zfp_field(type, n) == [zfp_field_alloc EXCEPT !.type = type, !.n = n]
SetType(f, type) == IF type \in ScalarTypes THEN [f EXCEPT !.type = type] ELSE f
SetSize(f, n) == [f EXCEPT !.n = n]
SetStride(f, s) == [f EXCEPT !.s = s]

Dimensionality(f) ==
  IF f.n[1] = 0 THEN 0 ELSE IF f.n[2] = 0 THEN 1
  ELSE IF f.n[3] = 0 THEN 2 ELSE IF f.n[4] = 0 THEN 3 ELSE 4

FieldSize(f) ==
  Greater(f.n[1], 1) * Greater(f.n[2], 1) * Greater(f.n[3], 1) * Greater(f.n[4], 1)

\* The distance in memory between neighbours along each dimension.
Strides(f) ==
  << IF f.s[1] # 0 THEN f.s[1] ELSE 1,
     IF f.s[2] # 0 THEN f.s[2] ELSE f.n[1],
     IF f.s[3] # 0 THEN f.s[3] ELSE f.n[1] * f.n[2],
     IF f.s[4] # 0 THEN f.s[4] ELSE f.n[1] * f.n[2] * f.n[3] >>
IsStrided(f) == \E d \in 1 .. 4 : f.s[d] # 0

\* Lowest and highest offset of an element from the field's pointer.
IndexSpan(f) ==
  LET reach == [d \in 1 .. 4 |-> IF f.n[d] = 0 THEN 0 ELSE Strides(f)[d] * (f.n[d] - 1)]
      Low(d) == Lesser(reach[d], 0)
      High(d) == Greater(reach[d], 0)
  IN  [min |-> Low(1) + Low(2) + Low(3) + Low(4),
       max |-> High(1) + High(2) + High(3) + High(4)]
IsContiguous(f) == IndexSpan(f).max - IndexSpan(f).min + 1 = FieldSize(f)

Quarters(n) == (n + 3) \div 4
FieldBlocks(f) ==
  CASE Dimensionality(f) = 0 -> 0
    [] Dimensionality(f) = 1 -> Quarters(f.n[1])
    [] Dimensionality(f) = 2 -> Quarters(f.n[1]) * Quarters(f.n[2])
    [] Dimensionality(f) = 3 -> Quarters(f.n[1]) * Quarters(f.n[2]) * Quarters(f.n[3])
    [] Dimensionality(f) = 4 ->
         Quarters(f.n[1]) * Quarters(f.n[2]) * Quarters(f.n[3]) * Quarters(f.n[4])

(***************************************************************************)
(* Metadata: a word of digits, one per dimension in DimBits[d] bits each,  *)
(* two bits for the dimensionality and two for the type.  "null" is        *)
(* ZFP_META_NULL.  A one-dimensional extent has 48 bits, of which the      *)
(* reader keeps 32.                                                        *)
(*                                                                         *)
(* Extents that are too large are the only failure that is noticed.  The   *)
(* dimensionality and the type are stored less one, in unsigned            *)
(* arithmetic (an enum without negative members is unsigned with GCC and   *)
(* Clang): for a field without extents or without a type the difference is *)
(* 2^32 - 1, which carries into the digits above it, and the word is that  *)
(* of some other field.                                                    *)
(***************************************************************************)
MetaNull == [dims |-> 0]

IsSet(f) == f.type # "none" /\ Dimensionality(f) > 0
TypeCode(type) ==
  CASE type = "int32" -> 1 [] type = "int64" -> 2
    [] type = "float" -> 3 [] type = "double" -> 4 [] OTHER -> 0
LessOne(k) == IF k = 0 THEN 2 ^ UintBits - 1 ELSE k - 1

\* The place of the digit of extent i, and the digits of the extents of f together.
Place(i, d) == 2 ^ ((i - 1) * DimBits[d])
Packed(f) ==
  LET d == Dimensionality(f)
      Term(i) == IF i > d THEN 0 ELSE (f.n[i] - 1) * Place(i, d)
  IN  Term(1) + Term(2) + Term(3) + Term(4)
PackedWord(f) == (Packed(f) * 4 + LessOne(Dimensionality(f))) * 4 + LessOne(TypeCode(f.type))

\* The 52 bits of a word, taken apart.
Unpacked(word) ==
  LET d == ((word \div 4) % 4) + 1
      packed == (word \div 16) % 2 ^ DimBits[1]
  IN  [dims |-> d, type |-> <<"int32", "int64", "float", "double">>[(word % 4) + 1],
       digits |-> [i \in 1 .. d |-> (packed \div Place(i, d)) % 2 ^ DimBits[d]]]

FieldMetadata(f) ==
  LET d == Dimensionality(f)
  IN  IF \E i \in 1 .. d : f.n[i] - 1 >= 2 ^ DimBits[d] THEN MetaNull
      ELSE IF IsSet(f)
      THEN [dims |-> d, type |-> f.type, digits |-> [i \in 1 .. d |-> f.n[i] - 1]]
      ELSE Unpacked(PackedWord(f))

\* Mutant: the strides of the field survive.
SetMetadataKeepsStrides(f, meta) ==
  [type |-> meta.type, s |-> f.s,
   n |-> [i \in 1 .. 4 |-> IF i > meta.dims THEN 0
                           ELSE (meta.digits[i] % 2 ^ ReadBits[meta.dims]) + 1]]
SetMetadata(f, meta) ==
  [type |-> meta.type, s |-> NoExtents,
   n |-> [i \in 1 .. 4 |-> IF i > meta.dims THEN 0
                           ELSE (meta.digits[i] % 2 ^ ReadBits[meta.dims]) + 1]]

\* Can the reader of a header represent the extents?  "Currently dimensions are
\* limited to 2^32 - 1" (zfp.c, zfp_field_set_metadata); the writer accepts more.
Readable(f) ==
  \A i \in 1 .. Dimensionality(f) : f.n[i] <= 2 ^ ReadBits[Dimensionality(f)]

-----------------------------------------------------------------------------
\* Compression parameters.

MIN_BITS == 1
MAX_BITS == 16658
MAX_PREC == 64
MIN_EXP == -1074

Params == [minbits : Nat, maxbits : Nat, maxprec : Nat, minexp : Int]
Parameters(minbits, maxbits, maxprec, minexp) ==
  [minbits |-> minbits, maxbits |-> maxbits, maxprec |-> maxprec, minexp |-> minexp]

zfp_stream_open == Parameters(MIN_BITS, MAX_BITS, MAX_PREC, MIN_EXP)
SetReversible == Parameters(MIN_BITS, MAX_BITS, MAX_PREC, MIN_EXP - 1)
\* A rate is given as the number of bits it makes for a block.
SetRate(bits, type, align) ==
  LET least == CASE type = "float"  -> Greater(bits, 1 + 8)
                 [] type = "double" -> Greater(bits, 1 + 11)
                 [] OTHER           -> bits
      size == IF align THEN RoundUp(least, WordBits) ELSE least
  IN  Parameters(size, size, MAX_PREC, MIN_EXP)
SetPrecision(precision) ==
  Parameters(MIN_BITS, MAX_BITS,
             IF precision = 0 THEN MAX_PREC ELSE Lesser(precision, MAX_PREC), MIN_EXP)
\* A tolerance is given as the exponent of the greatest power of two below it.
SetAccuracy(emin) == Parameters(MIN_BITS, MAX_BITS, MAX_PREC, emin)

Valid(p) == p.minbits <= p.maxbits /\ 0 < p.maxprec /\ p.maxprec <= MAX_PREC
\* Mutant: parameters are stored before they are looked at.
SetParamsUnchecked(p, q) == q
SetParams(p, q) == IF Valid(q) THEN q ELSE p

IsReversible(p) == p.minexp < MIN_EXP

\* Are all blocks and bit planes coded in full?
Unlimited(p) == p.minbits <= MIN_BITS /\ p.maxbits >= MAX_BITS
CompressionMode(p) ==
  IF ~ Valid(p) THEN "null"
  ELSE IF p = zfp_stream_open THEN "expert"
  ELSE IF /\ p.minbits = p.maxbits /\ 1 <= p.maxbits /\ p.maxbits <= MAX_BITS
          /\ p.maxprec >= MAX_PREC /\ p.minexp = MIN_EXP THEN "fixed_rate"
  ELSE IF Unlimited(p) /\ p.maxprec >= 1 /\ p.minexp = MIN_EXP THEN "fixed_precision"
  ELSE IF Unlimited(p) /\ p.maxprec >= MAX_PREC /\ p.minexp >= MIN_EXP THEN "fixed_accuracy"
  ELSE IF Unlimited(p) /\ p.maxprec >= MAX_PREC /\ p.minexp < MIN_EXP THEN "reversible"
  ELSE "expert"

(***************************************************************************)
(* The parameters as one code word: 12 bits for common configurations,     *)
(* else 64 bits with a digit for each parameter.                           *)
(***************************************************************************)
Below(bound) == {k \in Nat : k < bound}
Words ==
  [size : {12}, code : Below(4095)] \cup
  [size : {64}, minexp : Below(32768), maxprec : Below(128),
                maxbits : Below(32768), minbits : Below(32768)]
ShortWord(code) == [size |-> 12, code |-> code]
LongWord(p) ==
  [size |-> 64,
   minexp |-> Greater(0, Lesser(p.minexp + 16495, 32767)),
   maxprec |-> Greater(1, Lesser(p.maxprec, 128)) - 1,
   maxbits |-> Greater(1, Lesser(p.maxbits, 32768)) - 1,
   minbits |-> Greater(1, Lesser(p.minbits, 32768)) - 1]

StreamMode(p) ==
  CASE CompressionMode(p) = "fixed_rate" /\ p.maxbits <= 2048 -> ShortWord(p.maxbits - 1)
    [] CompressionMode(p) = "fixed_precision" /\ p.maxprec <= 128 ->
         ShortWord(p.maxprec - 1 + 2048)
    [] CompressionMode(p) = "fixed_accuracy" /\ p.minexp <= 843 ->
         ShortWord(p.minexp - MIN_EXP + 2048 + 128 + 1)
    [] CompressionMode(p) = "reversible" -> ShortWord(2048 + 128)
    [] OTHER -> LongWord(p)

\* The parameters that a code word stands for, and parameters p after set_mode.
WordParams(w) ==
  IF w.size = 12
  THEN IF w.code < 2048 THEN Parameters(w.code + 1, w.code + 1, MAX_PREC, MIN_EXP)
       ELSE IF w.code < 2048 + 128
       THEN Parameters(MIN_BITS, MAX_BITS, w.code + 1 - 2048, MIN_EXP)
       ELSE IF w.code = 2048 + 128 THEN SetReversible
       ELSE SetAccuracy(w.code + MIN_EXP - (2048 + 128 + 1))
  ELSE Parameters(w.minbits + 1, w.maxbits + 1, w.maxprec + 1, w.minexp - 16495)
\* Mutant: a word that is refused resets the parameters.
SetModeResets(p, w) == SetParams(zfp_stream_open, WordParams(w))
SetMode(p, w) == SetParams(p, WordParams(w))
SetModeFails(p, w) == ~ Valid(WordParams(w))

\* The parameters as the block coder understands them.
Effective(p) ==
  Parameters(Greater(p.minbits, MIN_BITS), Lesser(p.maxbits, MAX_BITS), p.maxprec,
             IF p.minexp < MIN_EXP THEN MIN_EXP - 1 ELSE Lesser(p.minexp, 1034))

-----------------------------------------------------------------------------
\* Sizes in bits.

MAGIC_BITS == 32
META_BITS == 52
HEADER_MAX_BITS == 148

\* Bits of a block other than its bit planes: exponent, precision and flags.
\* Mutant: the extra bits of reversible mode are forgotten.
OverheadLossy(type, reversible) ==
  CASE type = "float" -> 1 + 8 [] type = "double" -> 1 + 11 [] OTHER -> 0
Overhead(type, reversible) ==
  CASE type = "int32"  -> IF reversible THEN 5 ELSE 0
    [] type = "int64"  -> IF reversible THEN 6 ELSE 0
    [] type = "float"  -> IF reversible THEN 1 + 1 + 8 + 5 ELSE 1 + 8
    [] type = "double" -> IF reversible THEN 1 + 1 + 11 + 6 ELSE 1 + 11

\* The values of a block: 1 << (2 * dims).
BlockValues == <<4, 16, 64, 256>>

\* zfp_stream_maximum_size, in bits.
MaximumSize(p, f) ==
  LET d == Dimensionality(f)
      values == BlockValues[d]
      full == Overhead(f.type, IsReversible(p))
                + values - 1 + values * Lesser(p.maxprec, 8 * TypeSize(f.type))
  IN  IF d = 0 \/ f.type = "none" THEN 0
      ELSE RoundUp(HEADER_MAX_BITS
                     + FieldBlocks(f) * Greater(Lesser(full, p.maxbits), p.minbits),
                   WordBits)

\* zfp_block_maximum_size: a table of the code.
BlockMaximumSize(type, dims, reversible) ==
  LET row == CASE type = "int32" -> 1 [] type = "int64" -> 2
               [] type = "float" -> 3 [] type = "double" -> 4
      lossy == << <<131,  527, 2111,  8447>>, <<259, 1039, 4159, 16639>>,
                  <<140,  536, 2120,  8456>>, <<271, 1051, 4171, 16651>> >>
      lossless == << <<136,  532, 2116,  8452>>, <<265, 1045, 4165, 16645>>,
                     <<146,  542, 2126,  8462>>, <<278, 1058, 4178, 16658>> >>
  IN  (IF reversible THEN lossless ELSE lossy)[row][dims]

-----------------------------------------------------------------------------
(***************************************************************************)
(* The function tables: the routine that zfp_compress or zfp_decompress    *)
(* calls, or "NULL".  OpenMP only compresses; the GPU back ends have no    *)
(* four-dimensional routines, and their wrappers do nothing unless the     *)
(* mode is fixed rate.  The back end of the build is "none", "cuda" or     *)
(* "metal".                                                                *)
(***************************************************************************)
Policies == {"serial", "omp", "cuda"}
CompressTable(backend, exec, d) ==
  IF exec = "cuda" /\ (backend = "none" \/ d = 4) THEN "NULL" ELSE exec
DecompressTable(backend, exec, d) ==
  IF exec = "omp" \/ (exec = "cuda" /\ (backend = "none" \/ d = 4)) THEN "NULL" ELSE exec
GpuSupports(p, f) == CompressionMode(p) = "fixed_rate" /\ IsContiguous(f)
=============================================================================
