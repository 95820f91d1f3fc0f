--------------------------- MODULE ZfpTool_proofs ---------------------------
(***************************************************************************)
(* For all command lines: the buffer that the command-line tool allocates  *)
(* holds the header and the blocks that it then writes.                    *)
(***************************************************************************)
EXTENDS ZfpTool, TLAPS

-----------------------------------------------------------------------------
\* Quotients.

\* Division with remainder by a positive divisor.
LEMMA DivMod ==
  ASSUME NEW n \in Nat, NEW d \in Nat \ {0}
  PROVE  /\ n \div d \in Nat
         /\ n % d \in 0 .. (d - 1)
         /\ n = d * (n \div d) + (n % d)
  OBVIOUS

\* Quotient and remainder are determined by the equation they satisfy.
LEMMA DivModUnique ==
  ASSUME NEW d \in Nat \ {0}, NEW q \in Nat, NEW r \in 0 .. (d - 1)
  PROVE  (d * q + r) \div d = q /\ (d * q + r) % d = r
<1> DEFINE n == d * q + r
           p == n \div d
           t == n % d
<1>1. n \in Nat
  OBVIOUS
<1>2. p \in Nat /\ t \in 0 .. (d - 1) /\ n = d * p + t
  BY <1>1, DivMod
<1>3. d * q + r = d * p + t
  BY <1>2
<1> HIDE DEF n, p, t
<1>4. p = q
  <2>1. CASE p < q
    <3>1. d * p + d <= d * q
      BY <1>2, <2>1
    <3> QED
      BY <1>2, <1>3, <3>1
  <2>2. CASE q < p
    <3>1. d * q + d <= d * p
      BY <1>2, <2>2
    <3> QED
      BY <1>2, <1>3, <3>1
  <2> QED
    BY <1>2, <2>1, <2>2
<1>5. t = r
  BY <1>2, <1>3, <1>4
<1> QED
  BY <1>4, <1>5 DEF n, p, t

\* Rounding up to a multiple does not make a number smaller.
LEMMA MultipleAbove ==
  ASSUME NEW n \in Nat, NEW m \in Nat \ {0}
  PROVE  /\ ((n + m - 1) \div m) * m \in Nat
         /\ n <= ((n + m - 1) \div m) * m
         /\ n % m = 0 => ((n + m - 1) \div m) * m = n
<1> DEFINE l == n + m - 1
           q == l \div m
<1>1. l \in Nat
  OBVIOUS
<1>2. q \in Nat /\ l % m \in 0 .. (m - 1) /\ l = m * q + (l % m)
  <2> HIDE DEF l
  <2> QED
    BY <1>1, DivMod
<1>3. q * m \in Nat /\ q * m = m * q
  <2> HIDE DEF q
  <2> QED
    BY <1>2
<1>4. n <= q * m
  <2> HIDE DEF q
  <2> QED
    BY <1>2, <1>3
<1>5. ASSUME n % m = 0
      PROVE  q * m = n
  <2> DEFINE p == n \div m
  <2>1. p \in Nat /\ n = m * p
    BY <1>5, DivMod
  <2>2. m - 1 \in 0 .. (m - 1)
    OBVIOUS
  <2>3. l = m * p + (m - 1)
    BY <2>1
  <2> HIDE DEF p, l
  <2>4. q = p
    BY <2>1, <2>2, <2>3, DivModUnique
  <2> HIDE DEF q
  <2> QED
    BY <1>3, <2>1, <2>4
<1> QED
  BY <1>3, <1>4, <1>5

-----------------------------------------------------------------------------
\* Code words.

LEMMA LongWordEffective ==
  ASSUME NEW p \in Params, Valid(p), 1 <= p.maxbits, p.minbits <= 32768
  PROVE  Effective(WordParams(LongWord(p))) = Effective(p)
<1> DEFINE w == LongWord(p)
<1>1. /\ w.size = 64
      /\ w.minexp - 16495 = Greater(0, Lesser(p.minexp + 16495, 32767)) - 16495
      /\ w.maxprec + 1 = p.maxprec
      /\ w.maxbits + 1 = Lesser(p.maxbits, 32768)
      /\ w.minbits + 1 = Greater(p.minbits, 1)
  BY DEF LongWord, Params, Valid, Greater, Lesser, MAX_PREC
<1>2. WordParams(w) = Parameters(Greater(p.minbits, 1), Lesser(p.maxbits, 32768), p.maxprec,
                                 Greater(0, Lesser(p.minexp + 16495, 32767)) - 16495)
  BY <1>1 DEF WordParams
<1> QED
  BY <1>2 DEF Effective, Parameters, Params, Greater, Lesser, MIN_BITS, MAX_BITS, MIN_EXP

LEMMA ShortWordEffective ==
  ASSUME NEW p \in Params, Valid(p), StreamMode(p) # LongWord(p)
  PROVE  Effective(WordParams(StreamMode(p))) = Effective(p)
<1>1. CASE CompressionMode(p) = "fixed_rate" /\ p.maxbits <= 2048
  <2>1. /\ p.minbits = p.maxbits /\ 1 <= p.maxbits /\ p.maxprec = MAX_PREC
        /\ p.minexp = MIN_EXP
    BY <1>1 DEF CompressionMode, Params, Valid, MAX_PREC
  <2>2. StreamMode(p) = ShortWord(p.maxbits - 1)
    BY <1>1 DEF StreamMode
  <2>3. WordParams(StreamMode(p)) = p
    BY <1>1, <2>1, <2>2 DEF ShortWord, WordParams, Parameters, Params
  <2> QED
    BY <2>3
<1>2. CASE CompressionMode(p) = "fixed_precision" /\ p.maxprec <= 128
  <2>1. Unlimited(p) /\ p.maxprec >= 1 /\ p.minexp = MIN_EXP /\ p.maxprec <= 64
    BY <1>2 DEF CompressionMode, Params, Valid, MAX_PREC
  <2>2. StreamMode(p) = ShortWord(p.maxprec - 1 + 2048)
    BY <1>2 DEF StreamMode
  <2>3. WordParams(StreamMode(p)) = Parameters(MIN_BITS, MAX_BITS, p.maxprec, MIN_EXP)
    BY <2>1, <2>2 DEF ShortWord, WordParams, Params
  <2> QED
    BY <2>1, <2>3 DEF Effective, Parameters, Params, Unlimited, Greater, Lesser,
                      MIN_BITS, MAX_BITS, MIN_EXP
<1>3. CASE CompressionMode(p) = "fixed_accuracy" /\ p.minexp <= 843
  <2>1. Unlimited(p) /\ p.maxprec = MAX_PREC /\ p.minexp >= MIN_EXP
    BY <1>3 DEF CompressionMode, Params, Valid, MAX_PREC
  <2>2. StreamMode(p) = ShortWord(p.minexp - MIN_EXP + 2048 + 128 + 1)
    BY <1>3 DEF StreamMode
  <2>3. WordParams(StreamMode(p)) = SetAccuracy(p.minexp)
    BY <2>1, <2>2 DEF ShortWord, WordParams, Params, MIN_EXP
  <2> QED
    BY <2>1, <2>3 DEF Effective, SetAccuracy, Parameters, Params, Unlimited, Greater, Lesser,
                      MIN_BITS, MAX_BITS, MIN_EXP
<1>4. CASE CompressionMode(p) = "reversible"
  <2>1. Unlimited(p) /\ p.maxprec = MAX_PREC /\ p.minexp < MIN_EXP
    BY <1>4 DEF CompressionMode, Params, Valid, MAX_PREC
  <2>2. StreamMode(p) = ShortWord(2048 + 128)
    BY <1>4 DEF StreamMode
  <2>3. WordParams(StreamMode(p)) = SetReversible
    BY <2>2 DEF ShortWord, WordParams
  <2> QED
    BY <2>1, <2>3 DEF Effective, SetReversible, Parameters, Params, Unlimited, Greater, Lesser,
                      MIN_BITS, MAX_BITS, MIN_EXP
<1> QED
  BY <1>1, <1>2, <1>3, <1>4 DEF StreamMode

(***************************************************************************)
(* The word that zfp_stream_mode makes of valid parameters, short or long, *)
(* gives zfp_stream_set_mode parameters with which the coder does the      *)
(* same, and which are not refused.  Two kinds of parameters are excepted: *)
(* maxbits = 0, and minbits beyond the 15 bits it has in the word.         *)
(***************************************************************************)
LEMMA CodeWordFaithful ==
  ASSUME NEW p \in Params, Valid(p), 1 <= p.maxbits, p.minbits <= 32768
  PROVE  /\ Effective(WordParams(StreamMode(p))) = Effective(p)
         /\ Effective(SetMode(p, StreamMode(p))) = Effective(p)
<1>1. Effective(WordParams(StreamMode(p))) = Effective(p)
  BY LongWordEffective, ShortWordEffective
<1> QED
  BY <1>1 DEF SetMode, SetParams

-----------------------------------------------------------------------------
\* Headers.

\* Parameters that fit a code word: see CodeWordFaithful.
Representable(p) == p \in Params /\ Valid(p) /\ 1 <= p.maxbits /\ p.minbits <= 32768

\* A field as zfp_field_set_size_1d, ..., zfp_field_set_size_4d make it: no extent is
\* used beyond its dimensionality.
WellFormed(f) ==
  /\ f = [type |-> f.type, n |-> f.n, s |-> f.s]
  /\ f.type \in ScalarTypes \cup {"none"}
  /\ f.n \in [1 .. 4 -> Nat]
  /\ \A i \in 1 .. 4 : i > Dimensionality(f) => f.n[i] = 0

LEMMA RateRepresentable ==
  ASSUME NEW bits \in Nat \ {0}, NEW type, NEW align,
         SetRate(bits, type, align).maxbits <= 32768
  PROVE  Representable(SetRate(bits, type, align))
<1> DEFINE least == CASE type = "float"  -> Greater(bits, 1 + 8)
                      [] type = "double" -> Greater(bits, 1 + 11)
                      [] OTHER           -> bits
           size == IF align THEN RoundUp(least, WordBits) ELSE least
<1>1. least \in Nat /\ 1 <= least
  BY DEF Greater
<1>2. size \in Nat /\ 1 <= size
  <2> HIDE DEF least
  <2>1. RoundUp(least, WordBits) \in Nat /\ least <= RoundUp(least, WordBits)
    BY <1>1, ApiAssumption, MultipleAbove, SMTT(30) DEF RoundUp
  <2> QED
    BY <1>1, <2>1
<1> HIDE DEF size
<1>3. SetRate(bits, type, align) = Parameters(size, size, MAX_PREC, MIN_EXP)
  BY DEF SetRate, size
<1> QED
  BY <1>2, <1>3 DEF Representable, Parameters, Params, Valid, MAX_PREC, MIN_EXP

\* Every function that sets parameters sets representable ones.
LEMMA SettersRepresentable ==
  /\ Representable(zfp_stream_open)
  /\ Representable(SetReversible)
  /\ \A precision \in Nat : Representable(SetPrecision(precision))
  /\ \A emin \in Int : Representable(SetAccuracy(emin))
<1>1. Representable(zfp_stream_open)
  BY DEF Representable, zfp_stream_open, Parameters, Params, Valid,
         MIN_BITS, MAX_BITS, MAX_PREC, MIN_EXP
<1>2. Representable(SetReversible)
  BY DEF Representable, SetReversible, Parameters, Params, Valid,
         MIN_BITS, MAX_BITS, MAX_PREC, MIN_EXP
<1>3. \A precision \in Nat : Representable(SetPrecision(precision))
  BY DEF Representable, SetPrecision, Parameters, Params, Valid, Lesser,
         MIN_BITS, MAX_BITS, MAX_PREC, MIN_EXP
<1>4. \A emin \in Int : Representable(SetAccuracy(emin))
  BY DEF Representable, SetAccuracy, Parameters, Params, Valid,
         MIN_BITS, MAX_BITS, MAX_PREC
<1> QED
  BY <1>1, <1>2, <1>3, <1>4

\* No digit of a field is longer than the longest, that of a one-dimensional extent.
LEMMA BitsOrdered ==
  ASSUME NEW d \in 1 .. 4
  PROVE  DimBits[d] \in 0 .. DimBits[1] /\ ReadBits[d] \in 0 .. DimBits[1]
<1>1. DimBits[d] \in Nat /\ DimBits[1] \in Nat /\ ReadBits[d] \in Nat
  BY ApiAssumption
<1>2. d * DimBits[d] <= DimBits[1] /\ ReadBits[d] <= DimBits[d]
  BY ApiAssumption, DigitAssumption
<1>3. DimBits[d] <= d * DimBits[d]
  BY <1>1
<1> QED
  BY <1>1, <1>2, <1>3

\* The extents of a well-formed field are those it uses, and metadata records them.
LEMMA MetadataOf ==
  ASSUME NEW f, WellFormed(f), IsSet(f), FieldMetadata(f) # MetaNull
  PROVE  LET d == Dimensionality(f)
         IN  /\ d \in 1 .. 4
             /\ FieldMetadata(f) = [dims |-> d, type |-> f.type,
                                    digits |-> [i \in 1 .. d |-> f.n[i] - 1]]
             /\ \A i \in 1 .. d : f.n[i] \in Nat \ {0}
<1> DEFINE d == Dimensionality(f)
<1>1. d \in 0 .. 4 /\ \A i \in 1 .. d : f.n[i] \in Nat \ {0}
  BY DEF WellFormed, Dimensionality
<1> HIDE DEF d
<1>2. /\ d # 0
      /\ FieldMetadata(f) = [dims |-> d, type |-> f.type,
                             digits |-> [i \in 1 .. d |-> f.n[i] - 1]]
  BY DEF FieldMetadata, IsSet, d
<1> QED
  BY <1>1, <1>2 DEF d

\* What zfp_field_set_metadata makes of the metadata of g.
LEMMA MetadataRead ==
  ASSUME NEW g, WellFormed(g), IsSet(g), FieldMetadata(g) # MetaNull, NEW f
  PROVE  /\ WellFormed(SetMetadata(f, FieldMetadata(g)))
         /\ Readable(g) => SetMetadata(f, FieldMetadata(g)) = [g EXCEPT !.s = NoExtents]
<1> DEFINE d == Dimensionality(g)
           m == FieldMetadata(g)
           b == 2 ^ ReadBits[d]
           h == SetMetadata(f, m)
<1>1. /\ d \in 1 .. 4
      /\ m = [dims |-> d, type |-> g.type, digits |-> [i \in 1 .. d |-> g.n[i] - 1]]
      /\ \A i \in 1 .. d : g.n[i] \in Nat \ {0}
  BY MetadataOf
<1>2. b \in Nat \ {0}
  <2> HIDE DEF d
  <2>1. ReadBits[d] \in 0 .. DimBits[1]
    BY <1>1, BitsOrdered
  <2> QED
    BY <2>1, PowerAssumption
<1> HIDE DEF d, b
<1>3. h = [type |-> g.type, s |-> NoExtents,
           n |-> [i \in 1 .. 4 |-> IF i > d THEN 0 ELSE ((g.n[i] - 1) % b) + 1]]
  <2> HIDE DEF m
  <2>1. m.dims = d /\ m.type = g.type /\ \A i \in 1 .. 4 : ~ (i > d) => m.digits[i] = g.n[i] - 1
    BY <1>1
  <2> QED
    BY <2>1 DEF SetMetadata, h, b
<1> HIDE DEF h, m
<1>4. \A i \in 1 .. 4 : ~ (i > d) => ((g.n[i] - 1) % b) + 1 \in Nat \ {0}
  <2> SUFFICES ASSUME NEW i \in 1 .. 4, ~ (i > d)
               PROVE  ((g.n[i] - 1) % b) + 1 \in Nat \ {0}
    OBVIOUS
  <2>1. g.n[i] - 1 \in Nat
    BY <1>1
  <2> HIDE DEF b
  <2>2. (g.n[i] - 1) % b \in 0 .. (b - 1)
    BY <1>2, <2>1, DivMod
  <2> QED
    BY <1>2, <2>2
<1>5. h.n \in [1 .. 4 -> Nat] /\ \A i \in 1 .. 4 : h.n[i] = 0 <=> i > d
  BY <1>3, <1>4
<1>6. Dimensionality(h) = d
  BY <1>1, <1>5 DEF Dimensionality
<1>7. WellFormed(h)
  BY <1>3, <1>5, <1>6 DEF WellFormed
<1>8. ASSUME Readable(g)
      PROVE  h = [g EXCEPT !.s = NoExtents]
  <2>1. ASSUME NEW i \in 1 .. 4
        PROVE  g.n[i] = IF i > d THEN 0 ELSE ((g.n[i] - 1) % b) + 1
    <3>1. CASE i > d
      BY <3>1 DEF WellFormed, d
    <3>2. CASE ~ (i > d)
      <4> DEFINE k == g.n[i] - 1
      <4>1. k \in 0 .. (b - 1)
        BY <1>1, <1>2, <1>8, <3>2, SMTT(30) DEF Readable, d, b
      <4>2. (b * 0 + k) % b = k
        <5> HIDE DEF k
        <5> QED
          BY <1>2, <4>1, DivModUnique
      <4>3. b * 0 + k = k
        BY <1>2, <4>1
      <4>4. k % b = k
        BY <4>2, <4>3
      <4> QED
        BY <1>1, <3>2, <4>4
    <3> QED
      BY <3>1, <3>2
  <2>2. g = [type |-> g.type, n |-> g.n, s |-> g.s] /\ g.n \in [1 .. 4 -> Nat]
    BY DEF WellFormed
  <2>3. g.n = h.n
    BY <1>3, <2>1, <2>2
  <2>4. [g EXCEPT !.s = NoExtents] = [type |-> g.type, n |-> g.n, s |-> NoExtents]
    BY <2>2
  <2> QED
    BY <1>3, <2>3, <2>4
<1> QED
  BY <1>7, <1>8 DEF h, m

-----------------------------------------------------------------------------
\* Sizes.

\* Division and rounding up keep the order.
LEMMA DivMonotone ==
  ASSUME NEW d \in Nat \ {0}, NEW m \in Nat, NEW n \in Nat, m <= n
  PROVE  m \div d <= n \div d
<1> DEFINE p == m \div d
           q == n \div d
<1>1. p \in Nat /\ q \in Nat /\ d * p <= m /\ n < d * q + d
  BY DivMod
<1> HIDE DEF p, q
<1> SUFFICES ASSUME q + 1 <= p PROVE FALSE
  BY <1>1 DEF p, q
<1>2. d * (q + 1) <= d * p
  BY <1>1
<1> QED
  BY <1>1, <1>2

LEMMA RoundingMonotone ==
  ASSUME NEW d \in Nat \ {0}, NEW m \in Nat, NEW n \in Nat, m <= n
  PROVE  ((m + d - 1) \div d) * d <= ((n + d - 1) \div d) * d
<1> DEFINE k == m + d - 1
           l == n + d - 1
           p == k \div d
           q == l \div d
<1>1. k \in Nat /\ l \in Nat /\ k <= l
  OBVIOUS
<1>2. p \in Nat /\ q \in Nat /\ p <= q
  <2> HIDE DEF k, l
  <2> QED
    BY <1>1, DivMod, DivMonotone
<1> HIDE DEF p, q
<1>3. p * d <= q * d
  BY <1>2
<1> QED
  BY <1>3 DEF p, q

\* A field with a type and extents that can be compressed.
Sized(f) ==
  /\ f.type \in ScalarTypes
  /\ f.n \in [1 .. 4 -> Nat]
  /\ Dimensionality(f) \in 1 .. 4
Numbers(p) == p.minbits \in Nat /\ p.maxbits \in Nat /\ p.maxprec \in Nat

LEMMA QuartersNat ==
  ASSUME NEW n \in Nat
  PROVE  Quarters(n) \in Nat
<1>1. n + 3 \in Nat /\ 4 \in Nat \ {0}
  OBVIOUS
<1> QED
  BY <1>1, DivMod DEF Quarters

LEMMA ProductNat ==
  ASSUME NEW m \in Nat, NEW n \in Nat
  PROVE  m * n \in Nat
  OBVIOUS

LEMMA FieldBlocksNat ==
  ASSUME NEW f, Sized(f)
  PROVE  FieldBlocks(f) \in Nat
<1> DEFINE q(i) == Quarters(f.n[i])
<1>1. q(1) \in Nat /\ q(2) \in Nat /\ q(3) \in Nat /\ q(4) \in Nat
  BY QuartersNat DEF Sized
<1> HIDE DEF q
<1>2. q(1) * q(2) \in Nat
  BY <1>1, ProductNat
<1>3. q(1) * q(2) * q(3) \in Nat
  BY <1>1, <1>2, ProductNat
<1>4. q(1) * q(2) * q(3) * q(4) \in Nat
  BY <1>1, <1>3, ProductNat
<1>5. FieldBlocks(f) \in {q(1), q(1) * q(2), q(1) * q(2) * q(3), q(1) * q(2) * q(3) * q(4)}
  BY DEF FieldBlocks, Sized, q
<1> QED
  BY <1>1, <1>2, <1>3, <1>4, <1>5

\* The table of zfp_block_maximum_size agrees with the formula of
\* zfp_stream_maximum_size at full precision.
LEMMA TableAgrees ==
  ASSUME NEW type \in ScalarTypes, NEW d \in 1 .. 4, NEW reversible \in BOOLEAN
  PROVE  /\ BlockMaximumSize(type, d, reversible)
              = Overhead(type, reversible) + BlockValues[d] - 1
                  + BlockValues[d] * (8 * TypeSize(type))
         /\ Overhead(type, reversible) \in Nat
         /\ BlockValues[d] \in Nat /\ BlockValues[d] >= 4
         /\ 8 * TypeSize(type) \in {32, 64}
<1>1. BlockValues[1] = 4 /\ BlockValues[2] = 16 /\ BlockValues[3] = 64 /\ BlockValues[4] = 256
  BY DEF BlockValues
<1>2. d = 1 \/ d = 2 \/ d = 3 \/ d = 4
  OBVIOUS
<1>3. reversible = TRUE \/ reversible = FALSE
  OBVIOUS
<1>4. CASE type = "int32"
  BY <1>1, <1>2, <1>3, <1>4 DEF BlockMaximumSize, Overhead, TypeSize
<1>5. CASE type = "int64"
  BY <1>1, <1>2, <1>3, <1>5 DEF BlockMaximumSize, Overhead, TypeSize
<1>6. CASE type = "float"
  BY <1>1, <1>2, <1>3, <1>6 DEF BlockMaximumSize, Overhead, TypeSize
<1>7. CASE type = "double"
  BY <1>1, <1>2, <1>3, <1>7 DEF BlockMaximumSize, Overhead, TypeSize
<1> QED
  BY <1>4, <1>5, <1>6, <1>7 DEF ScalarTypes

\* Whatever a block holds, it takes no more than zfp_stream_maximum_size counts for it.
LEMMA StreamFits ==
  ASSUME NEW f, Sized(f), NEW p, Numbers(p), NEW bits \in BlockBits(p, f),
         NEW h \in Nat, h <= HEADER_MAX_BITS
  PROVE  /\ RoundUp(h, WordBits) <= MaximumSize(p, f)
         /\ RoundUp(h + FieldBlocks(f) * bits, WordBits) <= MaximumSize(p, f)
<1> DEFINE d == Dimensionality(f)
           V == BlockValues[d]
           R == IsReversible(p)
           O == Overhead(f.type, R)
           t == 8 * TypeSize(f.type)
           B == BlockMaximumSize(f.type, d, R)
           k == Lesser(p.maxprec, t)
           full == O + V - 1 + V * k
           most == Greater(Lesser(full, p.maxbits), p.minbits)
           n == FieldBlocks(f)
<1>1. f.type \in ScalarTypes /\ d \in 1 .. 4 /\ R \in BOOLEAN
  BY DEF Sized, IsReversible
<1>2. O \in Nat /\ V \in Nat /\ V >= 4 /\ t \in Nat /\ B = O + V - 1 + V * t
  <2> HIDE DEF d, R
  <2> QED
    BY <1>1, TableAgrees
<1>3. MaximumSize(p, f) = RoundUp(HEADER_MAX_BITS + n * most, WordBits)
  <2>1. d # 0 /\ f.type # "none"
    BY <1>1 DEF ScalarTypes
  <2> QED
    BY <2>1 DEF MaximumSize
<1>4. bits \in {Greater(Lesser(b, p.maxbits), p.minbits) : b \in {1, B - V * (t - k)}}
  BY DEF BlockBits
<1>5. n \in Nat /\ p.minbits \in Nat /\ p.maxbits \in Nat /\ p.maxprec \in Nat
  BY FieldBlocksNat DEF Numbers
<1> HIDE DEF V, O, B, t, n
<1>6. k \in Nat
  BY <1>2, <1>5 DEF Lesser
<1> HIDE DEF k
<1>7. full \in Nat /\ 1 <= full /\ B - V * (t - k) = full
  <2>1. V * k \in Nat /\ V * (t - k) = V * t - V * k
    BY <1>2, <1>6
  <2> QED
    BY <1>2, <2>1
<1> HIDE DEF full
<1>8. most \in Nat /\ bits \in Nat /\ bits <= most
  BY <1>4, <1>5, <1>7 DEF Greater, Lesser
<1> HIDE DEF most
<1>9. n * bits \in Nat /\ n * most \in Nat /\ n * bits <= n * most
  BY <1>5, <1>8
<1> DEFINE total == HEADER_MAX_BITS + n * most
           size == h + n * bits
<1>10. total \in Nat /\ size \in Nat /\ h <= total /\ size <= total
  BY <1>9 DEF HEADER_MAX_BITS
<1> HIDE DEF total, size
<1>11. RoundUp(h, WordBits) <= RoundUp(total, WordBits)
       /\ RoundUp(size, WordBits) <= RoundUp(total, WordBits)
  BY <1>10, ApiAssumption, RoundingMonotone DEF RoundUp
<1> QED
  BY <1>3, <1>11 DEF total, size, n

-----------------------------------------------------------------------------
\* What main() knows at each of its steps.

OptionsOK ==
  /\ DOMAIN opt = {"type", "dims", "n", "mode", "header", "in", "z", "out", "stats", "exec"}
  /\ opt.type \in ScalarTypes \cup {"none"}
  /\ opt.dims \in 0 .. 4
  /\ opt.n \in [1 .. 4 -> Nat]
  /\ opt.mode \in ModeArguments \cup {[letter |-> "none"]}

\* The local variables are declared, and the field is new until it is set up.
JobOK ==
  /\ DOMAIN job = {"field", "params", "policy", "items", "pos", "bufsize", "zfpsize", "fo"}
  /\ pc \in {"idle", "parse", "read", "setup"} => job.field = zfp_field_alloc

ToolInv ==
  /\ argv \in Seq(Arguments)
  /\ OptionsOK
  /\ JobOK
  /\ pc \in {"read", "setup"} => ~ Inconsistent(opt)
  /\ pc = "compress" => Sized(job.field) /\ Numbers(job.params)

\* What the options give a field and parameters.
LEMMA OptionsSized ==
  ASSUME OptionsOK, opt.in, ~ Inconsistent(opt)
  PROVE  /\ Sized(SetSize(SetType(zfp_field_alloc, opt.type), Sizes(opt)))
         /\ Numbers(ModeParams(opt))
<1> DEFINE f == SetSize(SetType(zfp_field_alloc, opt.type), Sizes(opt))
<1>1. /\ opt.type \in ScalarTypes /\ opt.dims \in 1 .. 4 /\ opt.n \in [1 .. 4 -> Nat]
      /\ opt.mode.letter # "none" /\ Count(opt) # 0
  BY DEF OptionsOK, Inconsistent
<1>2. f.type = opt.type /\ f.n = Sizes(opt)
  BY <1>1 DEF SetSize, SetType, zfp_field_alloc
<1>3. f.n \in [1 .. 4 -> Nat]
  BY <1>1, <1>2 DEF Sizes
<1>4. opt.n[1] # 0
  <2>1. opt.n[1] * opt.n[2] * opt.n[3] * opt.n[4] # 0
    BY <1>1 DEF Count
  <2>2. \A a, b, c \in Nat : 0 * a * b * c = 0
    OBVIOUS
  <2> QED
    BY <1>1, <2>1, <2>2
<1>5. Dimensionality(f) \in 1 .. 4
  BY <1>1, <1>2, <1>4 DEF Dimensionality, Sizes
<1>6. Numbers(ModeParams(opt))
  <2>1. opt.mode \in ModeArguments
    BY <1>1 DEF OptionsOK
  <2>2. CASE opt.mode \in [letter : {"R"}]
    <3>1. opt.mode.letter = "R"
      BY <2>2
    <3> QED
      BY <3>1 DEF ModeParams, SetReversible, Parameters, Numbers, MIN_BITS, MAX_BITS, MAX_PREC
  <2>3. CASE opt.mode \in [letter : {"a"}, minexp : Int]
    <3>1. opt.mode.letter = "a"
      BY <2>3
    <3> QED
      BY <3>1 DEF ModeParams, SetAccuracy, Parameters, Numbers, MIN_BITS, MAX_BITS, MAX_PREC
  <2>4. CASE opt.mode \in [letter : {"p"}, precision : Nat]
    <3>1. opt.mode.letter = "p" /\ opt.mode.precision \in Nat
      BY <2>4
    <3> QED
      BY <3>1 DEF ModeParams, SetPrecision, Parameters, Numbers, Lesser,
                  MIN_BITS, MAX_BITS, MAX_PREC
  <2>5. CASE opt.mode \in [letter : {"r"}, bits : Nat]
    <3>1. opt.mode.letter = "r" /\ opt.mode.bits \in Nat
      BY <2>5
    <3> QED
      BY <3>1 DEF ModeParams, SetRate, Parameters, Numbers, Greater, MAX_PREC
  <2>6. CASE opt.mode \in [letter : {"c"}, params : Params]
    <3>1. opt.mode.letter = "c" /\ opt.mode.params \in Params
      BY <2>6
    <3>2. 8 * TypeSize(opt.type) \in Nat
      BY <1>1 DEF ScalarTypes, TypeSize
    <3> DEFINE q == opt.mode.params
               s == 8 * TypeSize(opt.type)
    <3>3. ModeParams(opt) = [q EXCEPT !.maxbits = IF @ = 0 THEN MAX_BITS ELSE @,
                                      !.maxprec = IF @ = 0 THEN s ELSE @]
      BY <3>1 DEF ModeParams
    <3> HIDE DEF q, s
    <3>4. q \in Params /\ s \in Nat
      BY <3>1, <3>2 DEF q, s
    <3> QED
      BY <3>3, <3>4 DEF Params, Numbers, MAX_BITS
  <2> QED
    BY <2>1, <2>2, <2>3, <2>4, <2>5, <2>6 DEF ModeArguments
<1> QED
  BY <1>1, <1>2, <1>3, <1>5, <1>6 DEF Sized

LEMMA InitTool == Init => ToolInv /\ BufferFits
<1> SUFFICES ASSUME Init PROVE ToolInv /\ BufferFits
  OBVIOUS
<1>1. argv \in Seq(Arguments)
  BY DEF Init
<1>2. OptionsOK
  BY DEF Init, OptionsOK, NoOptions, NoExtents
<1>3. JobOK
  BY DEF Init, JobOK, NoJob
<1> QED
  BY <1>1, <1>2, <1>3 DEF Init, ToolInv, BufferFits

\* An invocation that ends leaves the state of a new one.
LEMMA ExitResets ==
  ASSUME NEW s, Exit(s)
  PROVE  ToolInv' /\ BufferFits'
<1>1. argv' \in Seq(Arguments)
  BY DEF Exit
<1>2. OptionsOK'
  BY DEF Exit, OptionsOK, NoOptions, NoExtents
<1>3. JobOK'
  BY DEF Exit, JobOK, NoJob
<1> QED
  BY <1>1, <1>2, <1>3 DEF Exit, ToolInv, BufferFits

LEMMA ParseOptions ==
  ASSUME ToolInv, Parse
  PROVE  ToolInv' /\ BufferFits'
<1> DEFINE a == Head(argv)
<1>1. argv \in Seq(Arguments) /\ argv # <<>>
  BY DEF ToolInv, Parse
<1>2. a \in Arguments /\ Tail(argv) \in Seq(Arguments)
  BY <1>1
<1>3. /\ opt' = WithOption(opt, a) /\ argv' = Tail(argv) /\ a.flag # "?"
      /\ pc = "parse" /\ pc' = "parse" /\ job' = job
  BY DEF Parse, Goto
<1> HIDE DEF a
<1>4. OptionsOK'
  <2>1. CASE a \in [flag : {"?", "h", "i", "z", "o", "s"}]
    <3>1. a.flag \in {"h", "i", "z", "o", "s"}
      BY <1>3, <2>1
    <3>2. /\ DOMAIN opt' = DOMAIN opt
          /\ opt'.type = opt.type /\ opt'.dims = opt.dims /\ opt'.n = opt.n /\ opt'.mode = opt.mode
      BY <1>3, <3>1 DEF WithOption, ToolInv, OptionsOK
    <3> QED
      BY <3>2 DEF ToolInv, OptionsOK
  <2>2. CASE a \in [flag : {"type"}, type : ScalarTypes]
    <3>1. a.flag = "type" /\ a.type \in ScalarTypes
      BY <2>2
    <3>2. /\ DOMAIN opt' = DOMAIN opt
          /\ opt'.type = a.type /\ opt'.dims = opt.dims /\ opt'.n = opt.n /\ opt'.mode = opt.mode
      BY <1>3, <3>1 DEF WithOption, ToolInv, OptionsOK
    <3> QED
      BY <3>1, <3>2 DEF ToolInv, OptionsOK
  <2>3. CASE a \in [flag : {"dims"}, dims : 1 .. 4, n : [1 .. 4 -> Nat]]
    <3>1. a.flag = "dims" /\ a.dims \in 1 .. 4 /\ a.n \in [1 .. 4 -> Nat]
      BY <2>3
    <3>2. /\ DOMAIN opt' = DOMAIN opt
          /\ opt'.type = opt.type /\ opt'.dims = a.dims /\ opt'.n = a.n /\ opt'.mode = opt.mode
      BY <1>3, <3>1 DEF WithOption, ToolInv, OptionsOK
    <3> QED
      BY <3>1, <3>2 DEF ToolInv, OptionsOK
  <2>4. CASE a \in [flag : {"exec"}, exec : Policies]
    <3>1. a.flag = "exec"
      BY <2>4
    <3>2. /\ DOMAIN opt' = DOMAIN opt
          /\ opt'.type = opt.type /\ opt'.dims = opt.dims /\ opt'.n = opt.n /\ opt'.mode = opt.mode
      BY <1>3, <3>1 DEF WithOption, ToolInv, OptionsOK
    <3> QED
      BY <3>2 DEF ToolInv, OptionsOK
  <2>5. CASE a \in [flag : {"mode"}, mode : ModeArguments]
    <3>1. a.flag = "mode" /\ a.mode \in ModeArguments
      BY <2>5
    <3>2. /\ DOMAIN opt' = DOMAIN opt
          /\ opt'.type = opt.type /\ opt'.dims = opt.dims /\ opt'.n = opt.n /\ opt'.mode = a.mode
      BY <1>3, <3>1 DEF WithOption, ToolInv, OptionsOK
    <3> QED
      BY <3>1, <3>2 DEF ToolInv, OptionsOK
  <2> QED
    BY <1>2, <2>1, <2>2, <2>3, <2>4, <2>5 DEF Arguments
<1>5. JobOK'
  BY <1>3 DEF ToolInv, JobOK
<1> QED
  BY <1>2, <1>3, <1>4, <1>5 DEF ToolInv, BufferFits

LEMMA CompressFits ==
  ASSUME ToolInv, Compress
  PROVE  ToolInv' /\ BufferFits'
<1>1. CASE Fail
  BY <1>1, ExitResets DEF Fail
<1>2. CASE ~ Fail
  <2> DEFINE p == job.params
             f == job.field
             routine == CompressRoutine(job)
             header == IF opt.header THEN <<Header(p, f)>> ELSE <<>>
             kept == IF routine = "cuda" /\ backend = "cuda" THEN <<>> ELSE header
             start == IF kept = <<>> THEN 0 ELSE HeaderBits(p)
  <2>1. PICK bits \in BlockBits(p, f) :
          job' = [job EXCEPT
                    !.bufsize = MaximumSize(p, f),
                    !.items = IF Idle(routine, job) THEN header ELSE Append(kept, Blocks(p, f)),
                    !.pos = 0,
                    !.zfpsize = IF Idle(routine, job) THEN RoundUp(HeaderBits(p), WordBits)
                                ELSE RoundUp(start + FieldBlocks(f) * bits, WordBits)]
    BY <1>2 DEF Compress
  <2>2. pc = "compress" /\ pc' = "store" /\ argv' = argv /\ opt' = opt
    BY <1>2 DEF Compress, Goto
  <2>3. Sized(f) /\ Numbers(p)
    BY <2>2 DEF ToolInv
  <2>4. HeaderBits(p) \in Nat /\ HeaderBits(p) <= HEADER_MAX_BITS
    <3>1. StreamMode(p).size \in {12, 64}
      BY DEF StreamMode, ShortWord, LongWord
    <3> QED
      BY <3>1 DEF HeaderBits, MAGIC_BITS, META_BITS, HEADER_MAX_BITS
  <2>5. start \in Nat /\ start <= HEADER_MAX_BITS
    <3> HIDE DEF kept
    <3> QED
      BY <2>4 DEF HEADER_MAX_BITS
  <2> HIDE DEF start
  <2>6. /\ RoundUp(HeaderBits(p), WordBits) <= MaximumSize(p, f)
        /\ RoundUp(start + FieldBlocks(f) * bits, WordBits) <= MaximumSize(p, f)
    BY <2>1, <2>3, <2>4, <2>5, StreamFits
  <2>7. DOMAIN job = {"field", "params", "policy", "items", "pos", "bufsize", "zfpsize", "fo"}
    BY DEF ToolInv, JobOK
  <2> HIDE DEF p, f, routine, header, kept
  <2>8. /\ DOMAIN job' = DOMAIN job
        /\ job'.bufsize = MaximumSize(p, f)
        /\ job'.zfpsize = IF Idle(routine, job) THEN RoundUp(HeaderBits(p), WordBits)
                          ELSE RoundUp(start + FieldBlocks(f) * bits, WordBits)
    BY <2>1, <2>7
  <2>9. BufferFits'
    BY <2>6, <2>8 DEF BufferFits
  <2>10. JobOK'
    BY <2>2, <2>7, <2>8 DEF JobOK
  <2>11. OptionsOK'
    BY <2>2 DEF ToolInv, OptionsOK
  <2> QED
    BY <2>2, <2>9, <2>10, <2>11 DEF ToolInv
<1> QED
  BY <1>1, <1>2

LEMMA SetupSizes ==
  ASSUME ToolInv, Setup
  PROVE  ToolInv' /\ BufferFits'
<1>1. CASE Fail
  BY <1>1, ExitResets DEF Fail
<1>2. CASE ~ Fail
  <2> DEFINE f == IF FromOptions(opt) THEN SetSize(SetType(job.field, opt.type), Sizes(opt))
                  ELSE job.field
             p == IF FromOptions(opt) THEN ModeParams(opt) ELSE job.params
  <2>1. /\ pc = "setup" /\ argv' = argv /\ opt' = opt
        /\ pc' = IF opt.in THEN "compress" ELSE "decode"
        /\ job' = [job EXCEPT !.field = f, !.params = p, !.policy = opt.exec]
    BY <1>2 DEF Setup, Goto
  <2>2. /\ DOMAIN job = {"field", "params", "policy", "items", "pos", "bufsize", "zfpsize", "fo"}
        /\ job.field = zfp_field_alloc
    BY <2>1 DEF ToolInv, JobOK
  <2>3. opt.in => Sized(f) /\ Numbers(p)
    BY <2>1, <2>2, OptionsSized DEF ToolInv, FromOptions
  <2> HIDE DEF f, p
  <2>4. DOMAIN job' = DOMAIN job /\ job'.field = f /\ job'.params = p
    BY <2>1, <2>2
  <2>5. JobOK'
    BY <2>1, <2>2, <2>4 DEF JobOK
  <2>6. OptionsOK'
    BY <2>1 DEF ToolInv, OptionsOK
  <2> QED
    BY <2>1, <2>3, <2>4, <2>5, <2>6 DEF ToolInv, BufferFits
<1> QED
  BY <1>1, <1>2

LEMMA NextTool ==
  ASSUME ToolInv, BufferFits, [Next]_vars
  PROVE  ToolInv' /\ BufferFits'
<1>1. CASE Start
  <2>1. PICK c \in Commands : argv' = c
    BY <1>1 DEF Start
  <2>2. argv' \in Seq(Arguments)
    BY <2>1, ToolAssumption
  <2> QED
    BY <1>1, <2>2 DEF Start, ToolInv, OptionsOK, JobOK, BufferFits
<1>2. CASE Parse
  BY <1>2, ParseOptions
<1>3. CASE Fail
  BY <1>3, ExitResets DEF Fail
<1>4. CASE Check /\ ~ Fail
  <2>1. /\ pc' \in {"setup", "read"} /\ ~ Inconsistent(opt) /\ pc = "parse"
        /\ job' = [job EXCEPT !.bufsize = FirstBuffer]
        /\ argv' = argv /\ opt' = opt
    BY <1>4 DEF Check, Goto
  <2>2. DOMAIN job' = DOMAIN job /\ job'.field = job.field
    BY <2>1 DEF ToolInv, JobOK
  <2>3. ~ Inconsistent(opt)'
    BY <2>1 DEF Inconsistent, Count
  <2> QED
    BY <2>1, <2>2, <2>3 DEF ToolInv, OptionsOK, JobOK, BufferFits
<1>5. CASE ReadChunk
  <2>1. /\ pc' \in {"setup", "read"} /\ pc = "read"
        /\ argv' = argv /\ opt' = opt
    BY <1>5 DEF ReadChunk, Goto
  <2>2. PICK a, b, c : job' = [job EXCEPT !.bufsize = a, !.zfpsize = b, !.items = c]
    BY <1>5 DEF ReadChunk
  <2>3. DOMAIN job' = DOMAIN job /\ job'.field = job.field
    BY <2>2 DEF ToolInv, JobOK
  <2>4. ~ Inconsistent(opt)'
    BY <2>1 DEF ToolInv, Inconsistent, Count
  <2> QED
    BY <2>1, <2>3, <2>4 DEF ToolInv, OptionsOK, JobOK, BufferFits
<1>6. CASE Setup
  BY <1>6, SetupSizes
<1>7. CASE Compress
  BY <1>7, CompressFits
<1>8. CASE StoreFile
  <2>1. CASE Decodes(opt)
    BY <1>8, <2>1 DEF StoreFile, Goto, ToolInv, OptionsOK, JobOK, BufferFits
  <2>2. CASE ~ Decodes(opt)
    BY <1>8, <2>2, ExitResets DEF StoreFile
  <2> QED
    BY <2>1, <2>2
<1>9. CASE StoreFails \/ Output
  BY <1>9, ExitResets DEF StoreFails, Output
<1>10. CASE /\ ~ Fail
            /\ DecodeHeader \/ DecodeNoHeader \/ FallBack \/ Decompress
  <2>1. pc' \in {"decompress", "output"} /\ argv' = argv /\ opt' = opt
    BY <1>10 DEF DecodeHeader, DecodeNoHeader, FallBack, Decompress, Goto
  <2>2. DOMAIN job' = DOMAIN job
    BY <1>10 DEF DecodeHeader, DecodeNoHeader, FallBack, Decompress, ReadHeader
  <2> QED
    BY <2>1, <2>2 DEF ToolInv, OptionsOK, JobOK, BufferFits
<1>11. CASE Finished \/ UNCHANGED vars
  BY <1>11 DEF Finished, vars, ToolInv, OptionsOK, JobOK, BufferFits, Inconsistent, Count
<1>12. CASE IOFails \/ ParseFails \/ DecompressFails
  BY <1>3, <1>12 DEF IOFails, ParseFails, DecompressFails
<1> QED
  BY <1>1, <1>2, <1>3, <1>4, <1>5, <1>6, <1>7, <1>8, <1>9, <1>10, <1>11, <1>12 DEF Next

(***************************************************************************)
(* Whatever array, mode, precision and policy a command line asks for, and *)
(* whatever the array holds, the buffer of zfp_stream_maximum_size bytes   *)
(* that main() allocates takes the header and all blocks: the bit stream   *)
(* would not notice its end.                                               *)
(***************************************************************************)
THEOREM StreamFitsBuffer == Spec => []BufferFits
<1> DEFINE Inv == ToolInv /\ BufferFits
<1>1. Init => Inv
  BY InitTool
<1>2. Inv /\ [Next]_vars => Inv'
  BY NextTool
<1>3. Inv => BufferFits
  OBVIOUS
<1> HIDE DEF Inv
<1> QED
  BY <1>1, <1>2, <1>3, PTL DEF Spec

-----------------------------------------------------------------------------
\* What is decompressed.

(***************************************************************************)
(* What a command line may ask for together with a header (-h): modes that *)
(* fit a code word; extents that are read back or are refused when the     *)
(* header is written; and no GPU, since in a mode that it does not support *)
(* it writes no blocks, and after a header main() cannot tell.             *)
(***************************************************************************)
SafeMode(m) ==
  /\ m.letter = "r" => 1 <= m.bits /\ m.bits <= 32768
  /\ m.letter = "c" => m.params.minbits <= 32768
SafeExtents(d, n) ==
  \/ \A i \in 1 .. d : n[i] <= 2 ^ ReadBits[d]
  \/ \E i \in 1 .. d : n[i] - 1 >= 2 ^ DimBits[d]
SafeWithHeader(a) ==
  /\ a.flag = "exec" => a.exec # "cuda"
  /\ a.flag = "mode" => SafeMode(a.mode)
  /\ a.flag = "dims" => SafeExtents(a.dims, a.n)
SafeCommands ==
  \A c \in Commands :
    (\E i \in DOMAIN c : c[i].flag = "h") => \A i \in DOMAIN c : SafeWithHeader(c[i])

\* The same of the options that were parsed and of those that are still to be.
SafeOptions(o) ==
  o.exec # "cuda" /\ SafeMode(o.mode) /\ (o.dims # 0 => SafeExtents(o.dims, o.n))
HeaderSafe ==
  (opt.header \/ \E i \in DOMAIN argv : argv[i].flag = "h") =>
    SafeOptions(opt) /\ \A i \in DOMAIN argv : SafeWithHeader(argv[i])

\* A field and parameters that a header describes.
Described(p, f) ==
  /\ Representable(p)
  /\ WellFormed(f) /\ f.s = NoExtents
  /\ IsSet(f) /\ FieldMetadata(f) # MetaNull /\ Readable(f)
\* A stream with a header, and one without.
Headed(items) ==
  \E p, f : /\ Described(p, f) /\ Len(items) = 2
            /\ Head(items) = Header(p, f) /\ items[2] = Blocks(p, f)
Bare(items) == \E p, f : items = <<Blocks(p, f)>>

\* The cursor is at blocks that were encoded with the field and the parameters.
Ready ==
  /\ job.pos \in Nat /\ job.pos < Len(job.items)
  /\ job.items[job.pos + 1].kind = "blocks"
  /\ job.items[job.pos + 1].params = Effective(job.params)
  /\ job.items[job.pos + 1].field = job.field
  /\ DecompressRoutine(job) = "cuda" => job.pos = 0 /\ GpuSupports(job.params, job.field)

\* The inductive invariant, with ToolInv.
FileOK == zfile # Absent /\ zfile.complete => Headed(zfile.items) \/ Bare(zfile.items)
StartOK == pc = "idle" => opt = NoOptions
ReadOK ==
  pc \in {"setup", "decode"} /\ ~ opt.in => zfile # Absent /\ job.items = zfile.items
CompressOK ==
  pc = "compress" =>
    /\ opt.in /\ job.policy = opt.exec
    /\ opt.header /\ FieldMetadata(job.field) # MetaNull => Described(job.params, job.field)
StoreOK ==
  pc \in {"store", "decode"} /\ opt.in =>
    IF opt.header THEN Headed(job.items)
    ELSE /\ job.items = <<Blocks(job.params, job.field)>>
         /\ DecompressRoutine(job) = "cuda" => GpuSupports(job.params, job.field)
PolicyOK == (pc = "store" => opt.in) /\ (pc \in {"store", "decode"} => job.policy = opt.exec)
ReadyOK ==
  pc = "decompress" /\ (opt.in \/ (opt.header /\ zfile.complete)) => Ready
OutputInv ==
  /\ HeaderSafe /\ FileOK /\ StartOK /\ ReadOK /\ CompressOK /\ StoreOK /\ PolicyOK
  /\ ReadyOK /\ OutputFaithful

LEMMA EndKeepsOutput ==
  ASSUME NEW s, Exit(s), FileOK'
  PROVE  OutputInv'
<1>1. HeaderSafe' /\ StartOK'
  BY DEF Exit, HeaderSafe, StartOK, NoOptions
<1> QED
  BY <1>1 DEF Exit, OutputInv, ReadOK, CompressOK, StoreOK, PolicyOK, ReadyOK, OutputFaithful

LEMMA FailKeepsOutput ==
  ASSUME OutputInv, Fail
  PROVE  OutputInv'
<1>1. FileOK'
  BY DEF Fail, OutputInv, FileOK, Headed, Bare
<1> QED
  BY <1>1, EndKeepsOutput DEF Fail

LEMMA StartSafe ==
  ASSUME SafeCommands, ToolInv, OutputInv, Start
  PROVE  OutputInv'
<1>1. PICK c \in Commands : argv' = c
  BY DEF Start
<1>2. opt' = NoOptions /\ pc' = "parse" /\ zfile' = zfile
  BY DEF Start, OutputInv, StartOK
<1>3. SafeOptions(NoOptions) /\ NoOptions.header = FALSE
  BY DEF SafeOptions, SafeMode, NoOptions
<1>4. HeaderSafe'
  BY <1>1, <1>2, <1>3 DEF SafeCommands, HeaderSafe
<1>5. FileOK'
  BY <1>2 DEF OutputInv, FileOK, Headed, Bare
<1> QED
  BY <1>2, <1>4, <1>5 DEF OutputInv, StartOK, ReadOK, CompressOK, StoreOK, PolicyOK, ReadyOK,
                          OutputFaithful

LEMMA ParseSafe ==
  ASSUME ToolInv, OutputInv, Parse
  PROVE  OutputInv'
<1> DEFINE a == Head(argv)
<1>1. argv \in Seq(Arguments) /\ argv # <<>>
  BY DEF ToolInv, Parse
<1>2. /\ opt' = WithOption(opt, a) /\ argv' = Tail(argv) /\ pc' = "parse" /\ zfile' = zfile
      /\ a.flag # "?"
  BY DEF Parse, Goto
<1>3. /\ 1 \in DOMAIN argv /\ a = argv[1] /\ a \in Arguments
      /\ \A i \in DOMAIN argv' : i + 1 \in DOMAIN argv /\ argv'[i] = argv[i + 1]
  BY <1>1, <1>2
<1> HIDE DEF a
<1>4. DOMAIN opt = {"type", "dims", "n", "mode", "header", "in", "z", "out", "stats", "exec"}
  BY DEF ToolInv, OptionsOK
<1>5. a.flag \in {"dims", "mode", "type", "exec", "h", "i", "z", "o", "s"}
  <2>1. a.flag \in {"?", "dims", "mode", "type", "exec", "h", "i", "z", "o", "s"}
    BY <1>3 DEF Arguments
  <2> QED
    BY <1>2, <2>1
<1>6. opt'.header => opt.header \/ a.flag = "h"
  BY <1>2, <1>4, <1>5 DEF WithOption
<1>7. SafeOptions(opt) /\ SafeWithHeader(a) => SafeOptions(opt')
  <2>1. /\ opt'.exec = IF a.flag = "exec" THEN a.exec ELSE opt.exec
        /\ opt'.mode = IF a.flag = "mode" THEN a.mode ELSE opt.mode
        /\ opt'.dims = IF a.flag = "dims" THEN a.dims ELSE opt.dims
        /\ opt'.n = IF a.flag = "dims" THEN a.n ELSE opt.n
    BY <1>2, <1>4, <1>5 DEF WithOption
  <2> QED
    BY <2>1 DEF SafeOptions, SafeWithHeader
<1>8. HeaderSafe'
  BY <1>3, <1>6, <1>7 DEF OutputInv, HeaderSafe
<1>9. FileOK'
  BY <1>2 DEF OutputInv, FileOK, Headed, Bare
<1> QED
  BY <1>2, <1>8, <1>9 DEF OutputInv, StartOK, ReadOK, CompressOK, StoreOK, PolicyOK, ReadyOK,
                          OutputFaithful

LEMMA ReadOutput ==
  ASSUME ToolInv, OutputInv, ReadChunk
  PROVE  OutputInv'
<1> DEFINE size == 2 * job.bufsize
           got == Lesser(zfile.size, size)
<1>1. /\ job' = [job EXCEPT !.bufsize = size, !.zfpsize = got, !.items = Contents(got)]
      /\ pc' = IF got = size THEN "read" ELSE "setup"
      /\ zfile # Absent /\ zfile' = zfile /\ opt' = opt /\ argv' = argv
  BY DEF ReadChunk, Goto
<1>2. pc' = "setup" => got = zfile.size
  BY <1>1 DEF Lesser
<1>3. pc' = "setup" => Contents(got) = zfile.items
  BY <1>2 DEF Contents
<1> HIDE DEF got, size
<1>4. job'.items = Contents(got)
  BY <1>1 DEF ToolInv, JobOK
<1>5. ReadOK'
  BY <1>1, <1>3, <1>4 DEF ReadOK
<1>6. HeaderSafe' /\ FileOK'
  BY <1>1 DEF OutputInv, HeaderSafe, FileOK, Headed, Bare
<1> QED
  BY <1>1, <1>5, <1>6 DEF OutputInv, StartOK, CompressOK, StoreOK, PolicyOK, ReadyOK,
                          OutputFaithful

LEMMA CheckOutput ==
  ASSUME ToolInv, OutputInv, Check, ~ Fail
  PROVE  OutputInv'
<1>1. /\ pc' = IF opt.in THEN "setup" ELSE "read"
      /\ zfile' = zfile /\ opt' = opt /\ argv' = argv
  BY DEF Check, Goto
<1>2. HeaderSafe' /\ FileOK'
  BY <1>1 DEF OutputInv, HeaderSafe, FileOK, Headed, Bare
<1> QED
  BY <1>1, <1>2 DEF OutputInv, StartOK, ReadOK, CompressOK, StoreOK, PolicyOK, ReadyOK,
                    OutputFaithful

\* A rate for a stream without random access, and expert parameters completed.
LEMMA PlainRate ==
  ASSUME NEW m, m.letter = "r", m.bits \in Nat, SafeMode(m), NEW type
  PROVE  Representable(SetRate(m.bits, type, FALSE))
  BY DEF SafeMode, SetRate, Parameters, Greater, Representable, Params, Valid, MAX_PREC, MIN_EXP

Completed(q, x, y) == [q EXCEPT !.maxbits = x, !.maxprec = y]
LEMMA ExpertLimits ==
  ASSUME NEW q \in Params, NEW x \in Nat, NEW y \in Nat
  PROVE  /\ Completed(q, x, y) \in Params
         /\ Completed(q, x, y).maxbits = x
         /\ Completed(q, x, y).minbits = q.minbits
  BY DEF Params, Completed

\* The field and the parameters that the options give are described by the header.
LEMMA OptionsDescribed ==
  ASSUME OptionsOK, opt.in, ~ Inconsistent(opt), SafeOptions(opt),
         opt.mode.letter = "c" => Valid(ModeParams(opt)),
         NEW f, f = SetSize(SetType(zfp_field_alloc, opt.type), Sizes(opt)),
         FieldMetadata(f) # MetaNull
  PROVE  Described(ModeParams(opt), f)
<1>1. /\ opt.type \in ScalarTypes /\ opt.dims \in 1 .. 4 /\ opt.n \in [1 .. 4 -> Nat]
      /\ opt.mode.letter # "none" /\ Count(opt) # 0
  BY DEF OptionsOK, Inconsistent
<1>2. f = [type |-> opt.type, n |-> Sizes(opt), s |-> NoExtents]
  BY <1>1 DEF SetSize, SetType, zfp_field_alloc
<1>3. \A i \in 1 .. 4 : opt.n[i] # 0
  <2>1. opt.n[1] * opt.n[2] * opt.n[3] * opt.n[4] # 0
    BY <1>1 DEF Count
  <2>2. \A a, b, c \in Nat : /\ 0 * a * b * c = 0 /\ a * 0 * b * c = 0
                             /\ a * b * 0 * c = 0 /\ a * b * c * 0 = 0
    OBVIOUS
  <2>3. opt.n[1] # 0 /\ opt.n[2] # 0 /\ opt.n[3] # 0 /\ opt.n[4] # 0
    BY <1>1, <2>1, <2>2
  <2> QED
    BY <2>3
<1>4. /\ f.n \in [1 .. 4 -> Nat]
      /\ \A i \in 1 .. 4 : f.n[i] = IF i <= opt.dims THEN opt.n[i] ELSE 0
  BY <1>1, <1>2 DEF Sizes
<1>5. Dimensionality(f) = opt.dims
  BY <1>1, <1>3, <1>4 DEF Dimensionality
<1>6. WellFormed(f) /\ f.s = NoExtents
  BY <1>1, <1>2, <1>4, <1>5 DEF WellFormed
<1>7. Readable(f)
  <2>1. ~ \E i \in 1 .. opt.dims : f.n[i] - 1 >= 2 ^ DimBits[opt.dims]
    BY <1>5 DEF FieldMetadata
  <2>2. \A i \in 1 .. opt.dims : f.n[i] = opt.n[i]
    BY <1>1, <1>4
  <2>3. SafeExtents(opt.dims, opt.n)
    BY <1>1 DEF SafeOptions
  <2>4. \A i \in 1 .. opt.dims : opt.n[i] <= 2 ^ ReadBits[opt.dims]
    BY <2>1, <2>2, <2>3 DEF SafeExtents
  <2> QED
    BY <1>5, <2>2, <2>4 DEF Readable
<1>8. Representable(ModeParams(opt))
  <2>1. opt.mode \in ModeArguments
    BY <1>1 DEF OptionsOK
  <2>2. CASE opt.mode \in [letter : {"R"}]
    <3>1. opt.mode.letter = "R"
      BY <2>2
    <3> QED
      BY <3>1, SettersRepresentable DEF ModeParams
  <2>3. CASE opt.mode \in [letter : {"a"}, minexp : Int]
    <3>1. opt.mode.letter = "a" /\ opt.mode.minexp \in Int
      BY <2>3
    <3> QED
      BY <3>1, SettersRepresentable DEF ModeParams
  <2>4. CASE opt.mode \in [letter : {"p"}, precision : Nat]
    <3>1. opt.mode.letter = "p" /\ opt.mode.precision \in Nat
      BY <2>4
    <3> QED
      BY <3>1, SettersRepresentable DEF ModeParams
  <2>5. CASE opt.mode \in [letter : {"r"}, bits : Nat]
    <3>1. opt.mode.letter = "r" /\ opt.mode.bits \in Nat
      BY <2>5
    <3>2. SafeMode(opt.mode)
      BY DEF SafeOptions
    <3>3. Representable(SetRate(opt.mode.bits, opt.type, FALSE))
      BY <3>1, <3>2, PlainRate, Zenon
    <3>4. ModeParams(opt) = SetRate(opt.mode.bits, opt.type, FALSE)
      BY <3>1 DEF ModeParams
    <3> QED
      BY <3>3, <3>4, Zenon
  <2>6. CASE opt.mode \in [letter : {"c"}, params : Params]
    <3>1. opt.mode.letter = "c" /\ opt.mode.params \in Params
      BY <2>6
    <3> DEFINE q == opt.mode.params
               s == 8 * TypeSize(opt.type)
    <3>2. s \in Nat
      BY <1>1 DEF ScalarTypes, TypeSize
    <3>3. /\ ModeParams(opt) = [q EXCEPT !.maxbits = IF @ = 0 THEN MAX_BITS ELSE @,
                                         !.maxprec = IF @ = 0 THEN s ELSE @]
          /\ q.minbits <= 32768
      BY <3>1 DEF ModeParams, SafeOptions, SafeMode
    <3> HIDE DEF q, s
    <3>4. q \in Params
      BY <3>1 DEF q
    <3> DEFINE x == IF q.maxbits = 0 THEN MAX_BITS ELSE q.maxbits
               y == IF q.maxprec = 0 THEN s ELSE q.maxprec
    <3>5. x \in Nat /\ 1 <= x /\ y \in Nat
      BY <3>2, <3>4 DEF Params, MAX_BITS
    <3>6. ModeParams(opt) = Completed(q, x, y)
      BY <3>3, <3>4 DEF Params, Completed
    <3> HIDE DEF x, y
    <3>7. /\ Completed(q, x, y) \in Params
          /\ Completed(q, x, y).maxbits = x /\ Completed(q, x, y).minbits = q.minbits
      BY <3>4, <3>5, ExpertLimits
    <3>8. /\ ModeParams(opt) \in Params /\ 1 <= ModeParams(opt).maxbits
          /\ ModeParams(opt).minbits <= 32768
      <4>1. q.minbits <= 32768
        BY <3>3
      <4> QED
        BY <3>5, <3>6, <3>7, <4>1
    <3> QED
      BY <3>1, <3>8 DEF Representable
  <2> QED
    BY <2>1, <2>2, <2>3, <2>4, <2>5, <2>6 DEF ModeArguments
<1>9. IsSet(f)
  <2>1. "none" \notin ScalarTypes
    BY DEF ScalarTypes
  <2> QED
    BY <1>1, <1>2, <1>5, <2>1 DEF IsSet
<1> QED
  BY <1>6, <1>7, <1>8, <1>9 DEF Described

LEMMA SetupOutput ==
  ASSUME ToolInv, OutputInv, Setup, ~ Fail
  PROVE  OutputInv'
<1> DEFINE f == IF FromOptions(opt) THEN SetSize(SetType(job.field, opt.type), Sizes(opt))
                ELSE job.field
           p == IF FromOptions(opt) THEN ModeParams(opt) ELSE job.params
<1>1. /\ pc = "setup" /\ argv' = argv /\ opt' = opt /\ zfile' = zfile
      /\ pc' = IF opt.in THEN "compress" ELSE "decode"
      /\ job' = [job EXCEPT !.field = f, !.params = p, !.policy = opt.exec]
      /\ FromOptions(opt) /\ opt.mode.letter = "c" => Valid(ModeParams(opt))
  BY DEF Setup, Goto
<1>2. /\ DOMAIN job = {"field", "params", "policy", "items", "pos", "bufsize", "zfpsize", "fo"}
      /\ job.field = zfp_field_alloc
      /\ ~ Inconsistent(opt) /\ OptionsOK
  BY <1>1 DEF ToolInv, JobOK
<1>3. opt.in /\ opt.header /\ FieldMetadata(f) # MetaNull => Described(p, f)
  <2> SUFFICES ASSUME opt.in, opt.header, FieldMetadata(f) # MetaNull PROVE Described(p, f)
    OBVIOUS
  <2>1. SafeOptions(opt)
    BY DEF OutputInv, HeaderSafe
  <2>2. f = SetSize(SetType(zfp_field_alloc, opt.type), Sizes(opt)) /\ p = ModeParams(opt)
    BY <1>2 DEF FromOptions
  <2> HIDE DEF f, p
  <2> QED
    BY <1>1, <1>2, <2>1, <2>2, OptionsDescribed DEF FromOptions
<1> HIDE DEF f, p
<1>4. job'.field = f /\ job'.params = p /\ job'.policy = opt.exec /\ job'.items = job.items
  BY <1>1, <1>2
<1>5. HeaderSafe' /\ FileOK'
  BY <1>1 DEF OutputInv, HeaderSafe, FileOK, Headed, Bare
<1>6. CompressOK'
  BY <1>1, <1>3, <1>4 DEF CompressOK
<1>7. ReadOK'
  BY <1>1, <1>4 DEF OutputInv, ReadOK
<1> QED
  BY <1>1, <1>4, <1>5, <1>6, <1>7 DEF OutputInv, StartOK, StoreOK, PolicyOK, ReadyOK,
                                      OutputFaithful

LEMMA AppendOne ==
  ASSUME NEW x, NEW y
  PROVE  /\ Append(<<>>, y) = <<y>>
         /\ Len(Append(<<x>>, y)) = 2
         /\ Head(Append(<<x>>, y)) = x /\ Append(<<x>>, y)[2] = y
<1>1. Append(<<>>, y) = <<y>>
  OBVIOUS
<1>2. <<x>> \in Seq({x, y}) /\ Len(<<x>>) = 1 /\ <<x>>[1] = x
  OBVIOUS
<1>3. /\ Append(<<x>>, y) \in Seq({x, y}) /\ Len(Append(<<x>>, y)) = 2
      /\ Append(<<x>>, y)[1] = x /\ Append(<<x>>, y)[2] = y
  BY <1>2
<1> QED
  BY <1>1, <1>3

LEMMA CompressOutput ==
  ASSUME ToolInv, OutputInv, Compress, ~ Fail
  PROVE  OutputInv'
<1> DEFINE p == job.params
           f == job.field
           routine == CompressRoutine(job)
           header == IF opt.header THEN <<Header(p, f)>> ELSE <<>>
           kept == IF routine = "cuda" /\ backend = "cuda" THEN <<>> ELSE header
           made == IF Idle(routine, job) THEN header ELSE Append(kept, Blocks(p, f))
<1>1. PICK b, s : job' = [job EXCEPT !.bufsize = b, !.items = made, !.pos = 0, !.zfpsize = s]
  BY DEF Compress
<1>2. /\ pc = "compress" /\ pc' = "store" /\ argv' = argv /\ opt' = opt /\ zfile' = zfile
      /\ backend' = backend
      /\ ~ (opt.header /\ FieldMetadata(f) = MetaNull)
      /\ routine # "NULL"
      /\ ~ (Idle(routine, job) /\ header = <<>>)
  BY DEF Compress, Goto
<1>3. opt.in /\ job.policy = opt.exec /\ (opt.header => Described(p, f))
  BY <1>2 DEF OutputInv, CompressOK
<1>4. DOMAIN job = {"field", "params", "policy", "items", "pos", "bufsize", "zfpsize", "fo"}
  BY DEF ToolInv, JobOK
<1>5. routine = "cuda" => job.policy = "cuda"
  BY DEF CompressRoutine, CompressTable
<1>6. DecompressRoutine(job) = "cuda" => routine = "cuda"
  BY DEF DecompressRoutine, DecompressTable, CompressRoutine, CompressTable
<1>7. CASE opt.header
  <2>1. routine # "cuda"
    BY <1>3, <1>5, <1>7 DEF OutputInv, HeaderSafe, SafeOptions
  <2>2. made = Append(<<Header(p, f)>>, Blocks(p, f))
    BY <1>7, <2>1 DEF Idle
  <2>3. Headed(made)
    BY <1>3, <1>7, <2>2, AppendOne DEF Headed
  <2> HIDE DEF made
  <2>4. job'.items = made
    BY <1>1, <1>4
  <2>5. StoreOK'
    BY <1>2, <1>7, <2>3, <2>4 DEF StoreOK
  <2> HIDE DEF p, f, routine, header, kept
  <2>6. job'.policy = job.policy
    BY <1>1, <1>4
  <2>7. HeaderSafe' /\ FileOK'
    BY <1>2 DEF OutputInv, HeaderSafe, FileOK, Headed, Bare
  <2> QED
    BY <1>2, <1>3, <2>5, <2>6, <2>7 DEF OutputInv, StartOK, ReadOK, CompressOK, PolicyOK,
                                        ReadyOK, OutputFaithful
<1>8. CASE ~ opt.header
  <2>1. header = <<>> /\ kept = <<>>
    BY <1>8
  <2>2. ~ Idle(routine, job)
    BY <1>2, <2>1
  <2>3. made = <<Blocks(p, f)>>
    <3>1. made = Append(<<>>, Blocks(p, f))
      BY <2>1, <2>2
    <3> QED
      BY <3>1, AppendOne
  <2>4. routine = "cuda" => GpuSupports(p, f)
    BY <2>2 DEF Idle
  <2> HIDE DEF made
  <2>5. /\ job'.items = made /\ job'.params = p /\ job'.field = f /\ job'.policy = job.policy
    BY <1>1, <1>4
  <2>6. DecompressRoutine(job)' = DecompressRoutine(job)
    BY <1>2, <2>5 DEF DecompressRoutine
  <2> HIDE DEF routine
  <2>7. StoreOK'
    BY <1>2, <1>6, <1>8, <2>3, <2>4, <2>5, <2>6 DEF StoreOK
  <2> HIDE DEF p, f, header, kept
  <2>8. HeaderSafe' /\ FileOK'
    BY <1>2 DEF OutputInv, HeaderSafe, FileOK, Headed, Bare
  <2> QED
    BY <1>2, <1>3, <2>5, <2>7, <2>8 DEF OutputInv, StartOK, ReadOK, CompressOK, PolicyOK,
                                        ReadyOK, OutputFaithful
<1> QED
  BY <1>7, <1>8

LEMMA StoreOutput ==
  ASSUME ToolInv, OutputInv, StoreFile \/ StoreFails
  PROVE  OutputInv'
<1>1. pc = "store" /\ opt.in
  BY DEF StoreFile, StoreFails, OutputInv, PolicyOK
<1>2. Headed(job.items) \/ Bare(job.items)
  BY <1>1 DEF OutputInv, StoreOK, Bare
<1>3. FileOK'
  <2>1. CASE zfile' = zfile
    BY <2>1 DEF OutputInv, FileOK, Headed, Bare
  <2>2. CASE \E size : zfile' = FileOf(job.items, size, TRUE)
    <3>1. zfile'.items = job.items
      BY <2>2 DEF FileOf
    <3> QED
      BY <1>2, <3>1 DEF FileOK, Headed, Bare
  <2>3. CASE \E part, size : zfile' = FileOf(part, size, FALSE)
    BY <2>3 DEF FileOK, FileOf
  <2> QED
    BY <2>1, <2>2, <2>3 DEF StoreFile, StoreFails
<1>4. CASE \E s : Exit(s)
  BY <1>3, <1>4, EndKeepsOutput
<1>5. CASE ~ \E s : Exit(s)
  <2>1. pc' = "decode" /\ job' = job /\ opt' = opt /\ argv' = argv /\ backend' = backend
    BY <1>5 DEF StoreFile, StoreFails, Goto
  <2>2. HeaderSafe'
    BY <2>1 DEF OutputInv, HeaderSafe
  <2>3. StoreOK' /\ PolicyOK'
    BY <1>1, <2>1 DEF OutputInv, StoreOK, PolicyOK, DecompressRoutine, Headed
  <2> QED
    BY <1>1, <1>3, <2>1, <2>2, <2>3 DEF OutputInv, StartOK, ReadOK, CompressOK, ReadyOK,
                                        OutputFaithful
<1> QED
  BY <1>4, <1>5

LEMMA DecodeOutput ==
  ASSUME ToolInv, OutputInv, DecodeHeader \/ DecodeNoHeader, ~ Fail
  PROVE  OutputInv'
<1>1. /\ pc = "decode" /\ pc' = "decompress" /\ opt' = opt /\ argv' = argv /\ zfile' = zfile
      /\ backend' = backend
  BY DEF DecodeHeader, DecodeNoHeader, Goto
<1>2. DOMAIN job = {"field", "params", "policy", "items", "pos", "bufsize", "zfpsize", "fo"}
  BY DEF ToolInv, JobOK
<1>3. HeaderSafe' /\ FileOK'
  BY <1>1 DEF OutputInv, HeaderSafe, FileOK, Headed, Bare
<1>4. ASSUME opt.in \/ (opt.header /\ zfile.complete)
      PROVE  Ready'
  <2>1. CASE opt.header
    <3>1. /\ job' = ReadHeader(job) /\ HeaderFollows(job)
          /\ ~ SetModeFails(job.params, Head(job.items).word)
      BY <2>1 DEF DecodeHeader, DecodeNoHeader
    <3>2. Headed(job.items)
      <4>1. CASE opt.in
        BY <1>1, <2>1, <4>1 DEF OutputInv, StoreOK
      <4>2. CASE ~ opt.in
        <5>1. zfile # Absent /\ job.items = zfile.items /\ zfile.complete
          BY <1>1, <1>4, <4>2 DEF OutputInv, ReadOK
        <5>2. Headed(job.items) \/ Bare(job.items)
          BY <5>1 DEF OutputInv, FileOK
        <5>3. ~ Bare(job.items)
          <6> SUFFICES ASSUME NEW p, NEW f, job.items = <<Blocks(p, f)>> PROVE FALSE
            BY DEF Bare
          <6>1. Head(job.items) = Blocks(p, f)
            OBVIOUS
          <6>2. Head(job.items).kind = "blocks"
            BY <6>1 DEF Blocks
          <6> QED
            BY <3>1, <6>2 DEF HeaderFollows
        <5> QED
          BY <5>2, <5>3
      <4> QED
        BY <4>1, <4>2
    <3>3. PICK p, f : /\ Described(p, f) /\ Len(job.items) = 2
                      /\ Head(job.items) = Header(p, f) /\ job.items[2] = Blocks(p, f)
      BY <3>2 DEF Headed
    <3>4. Head(job.items) = Header(p, f) /\ Len(job.items) = 2 /\ job.items[2] = Blocks(p, f)
      BY <3>3
    <3>5. /\ Head(job.items).word = StreamMode(p) /\ Head(job.items).meta = FieldMetadata(f)
      BY <3>4 DEF Header
    <3>6. /\ job'.params = SetMode(job.params, StreamMode(p)) /\ job'.pos = 1
          /\ job'.field = SetMetadata(job.field, FieldMetadata(f))
          /\ job'.items = job.items /\ job'.policy = job.policy
      BY <1>2, <3>1, <3>5 DEF ReadHeader
    <3>7. Effective(job'.params) = Effective(p)
      <4>1. SetMode(job.params, StreamMode(p)) = WordParams(StreamMode(p))
        BY <3>1, <3>5 DEF SetModeFails, SetMode, SetParams
      <4>2. Effective(WordParams(StreamMode(p))) = Effective(p)
        BY <3>3, CodeWordFaithful DEF Described, Representable
      <4> QED
        BY <3>6, <4>1, <4>2
    <3>8. job'.field = f
      <4>1. SetMetadata(job.field, FieldMetadata(f)) = [f EXCEPT !.s = NoExtents]
        BY <3>3, MetadataRead DEF Described
      <4>2. f = [type |-> f.type, n |-> f.n, s |-> NoExtents]
        BY <3>3 DEF Described, WellFormed
      <4>3. [f EXCEPT !.s = NoExtents] = f
        BY <4>2
      <4> QED
        BY <3>6, <4>1, <4>3
    <3>9. DecompressRoutine(job)' # "cuda"
      <4>1. job.policy = opt.exec /\ opt.exec # "cuda"
        BY <1>1, <2>1 DEF OutputInv, PolicyOK, HeaderSafe, SafeOptions
      <4>2. job'.policy # "cuda"
        BY <3>6, <4>1
      <4> QED
        BY <4>2 DEF DecompressRoutine, DecompressTable
    <3> QED
      BY <3>4, <3>6, <3>7, <3>8, <3>9 DEF Ready, Blocks
  <2>2. CASE ~ opt.header
    <3>1. job' = [job EXCEPT !.pos = 0]
      BY <2>2 DEF DecodeHeader, DecodeNoHeader
    <3>2. /\ job.items = <<Blocks(job.params, job.field)>>
          /\ DecompressRoutine(job) = "cuda" => GpuSupports(job.params, job.field)
      BY <1>1, <1>4, <2>2 DEF OutputInv, StoreOK
    <3>3. /\ job'.items = job.items /\ job'.params = job.params /\ job'.field = job.field
          /\ job'.policy = job.policy /\ job'.pos = 0
      BY <1>2, <3>1
    <3>4. DecompressRoutine(job)' = DecompressRoutine(job)
      BY <1>1, <3>3 DEF DecompressRoutine
    <3>5. Len(job.items) = 1 /\ job.items[1] = Blocks(job.params, job.field)
      BY <3>2
    <3> QED
      BY <3>2, <3>3, <3>4, <3>5 DEF Ready, Blocks
  <2> QED
    BY <2>1, <2>2
<1>5. ReadyOK'
  BY <1>1, <1>4 DEF ReadyOK
<1> QED
  BY <1>1, <1>3, <1>5 DEF OutputInv, StartOK, ReadOK, CompressOK, StoreOK, PolicyOK,
                          OutputFaithful

LEMMA FallBackOutput ==
  ASSUME ToolInv, OutputInv, FallBack
  PROVE  OutputInv'
<1>1. /\ pc = "decompress" /\ pc' = "decompress" /\ opt' = opt /\ argv' = argv
      /\ zfile' = zfile /\ opt.in /\ job' = [job EXCEPT !.policy = "serial"]
  BY DEF FallBack, Goto
<1>2. DOMAIN job = {"field", "params", "policy", "items", "pos", "bufsize", "zfpsize", "fo"}
  BY DEF ToolInv, JobOK
<1>3. /\ job'.items = job.items /\ job'.params = job.params /\ job'.field = job.field
      /\ job'.pos = job.pos /\ job'.policy = "serial"
  BY <1>1, <1>2
<1>4. DecompressRoutine(job)' # "cuda"
  BY <1>3 DEF DecompressRoutine, DecompressTable
<1>5. Ready
  BY <1>1 DEF OutputInv, ReadyOK
<1>6. Ready'
  BY <1>3, <1>4, <1>5 DEF Ready
<1>7. HeaderSafe' /\ FileOK'
  BY <1>1 DEF OutputInv, HeaderSafe, FileOK, Headed, Bare
<1> QED
  BY <1>1, <1>6, <1>7 DEF OutputInv, StartOK, ReadOK, CompressOK, StoreOK, PolicyOK, ReadyOK,
                          OutputFaithful

LEMMA DecompressOutput ==
  ASSUME ToolInv, OutputInv, Decompress
  PROVE  OutputInv'
<1> DEFINE made == IF Idle(DecompressRoutine(job), job) THEN Noise ELSE Decoded(job)
<1>1. /\ pc = "decompress" /\ pc' = "output" /\ opt' = opt /\ argv' = argv
      /\ zfile' = zfile /\ job' = [job EXCEPT !.fo = made]
  BY DEF Decompress, Goto
<1>2. DOMAIN job = {"field", "params", "policy", "items", "pos", "bufsize", "zfpsize", "fo"}
  BY DEF ToolInv, JobOK
<1>3. Ready => made.kind = "blocks"
  <2> SUFFICES ASSUME Ready PROVE made.kind = "blocks"
    OBVIOUS
  <2>1. ~ Idle(DecompressRoutine(job), job)
    BY DEF Ready, Idle
  <2>2. Decoded(job) = job.items[job.pos + 1]
    BY DEF Ready, Decoded
  <2> QED
    BY <2>1, <2>2 DEF Ready
<1> HIDE DEF made
<1>4. job'.fo = made
  BY <1>1, <1>2
<1>5. OutputFaithful'
  BY <1>1, <1>3, <1>4 DEF OutputInv, ReadyOK, OutputFaithful
<1>6. HeaderSafe' /\ FileOK'
  BY <1>1 DEF OutputInv, HeaderSafe, FileOK, Headed, Bare
<1> QED
  BY <1>1, <1>5, <1>6 DEF OutputInv, StartOK, ReadOK, CompressOK, StoreOK, PolicyOK, ReadyOK

LEMMA InitOutput == Init => OutputInv
<1> SUFFICES ASSUME Init PROVE OutputInv
  OBVIOUS
<1>1. HeaderSafe
  BY DEF Init, HeaderSafe, NoOptions
<1> QED
  BY <1>1 DEF Init, OutputInv, FileOK, StartOK, ReadOK, CompressOK, StoreOK, PolicyOK, ReadyOK,
              OutputFaithful

LEMMA NextOutput ==
  ASSUME SafeCommands, ToolInv, OutputInv, [Next]_vars
  PROVE  OutputInv'
<1>1. CASE Start
  BY <1>1, StartSafe
<1>2. CASE Parse
  BY <1>2, ParseSafe
<1>3. CASE Fail
  BY <1>3, FailKeepsOutput
<1>4. CASE Check /\ ~ Fail
  BY <1>4, CheckOutput
<1>5. CASE ReadChunk
  BY <1>5, ReadOutput
<1>6. CASE Setup /\ ~ Fail
  BY <1>6, SetupOutput
<1>7. CASE Compress /\ ~ Fail
  BY <1>7, CompressOutput
<1>8. CASE StoreFile \/ StoreFails
  BY <1>8, StoreOutput
<1>9. CASE (DecodeHeader \/ DecodeNoHeader) /\ ~ Fail
  BY <1>9, DecodeOutput
<1>10. CASE FallBack
  BY <1>10, FallBackOutput
<1>11. CASE Decompress
  BY <1>11, DecompressOutput
<1>12. CASE Output
  <2>1. FileOK' /\ Exit("success")
    BY <1>12 DEF Output, OutputInv, FileOK, Headed, Bare
  <2> QED
    BY <2>1, EndKeepsOutput
<1>13. CASE Finished \/ UNCHANGED vars
  <2>1. UNCHANGED vars
    BY <1>13 DEF Finished
  <2>2. HeaderSafe' /\ FileOK' /\ StartOK' /\ ReadOK'
    BY <2>1 DEF vars, OutputInv, HeaderSafe, FileOK, StartOK, ReadOK, Headed, Bare
  <2>3. CompressOK' /\ StoreOK' /\ PolicyOK'
    BY <2>1 DEF vars, OutputInv, CompressOK, StoreOK, PolicyOK, DecompressRoutine, Headed
  <2>4. ReadyOK' /\ OutputFaithful'
    BY <2>1 DEF vars, OutputInv, ReadyOK, Ready, OutputFaithful, DecompressRoutine
  <2> QED
    BY <2>2, <2>3, <2>4 DEF OutputInv
<1>14. CASE IOFails \/ ParseFails \/ DecompressFails
  BY <1>3, <1>14 DEF IOFails, ParseFails, DecompressFails
<1> QED
  BY <1>1, <1>2, <1>3, <1>4, <1>5, <1>6, <1>7, <1>8, <1>9, <1>10, <1>11, <1>12, <1>13, <1>14
     DEF Next

(***************************************************************************)
(* If what the command lines ask for together with -h can be said in a     *)
(* header (SafeCommands), then no sequence of invocations, whatever fails  *)
(* in between, decompresses blocks with parameters or a field they were    *)
(* not compressed with and succeeds: not after main() fell back to serial  *)
(* decompression, and not after it read the compressed file chunk by       *)
(* chunk.                                                                  *)
(***************************************************************************)
THEOREM OutputIsInput ==
  ASSUME SafeCommands
  PROVE  Spec => []OutputFaithful
<1> DEFINE Inv == ToolInv /\ BufferFits /\ OutputInv
<1>1. Init => Inv
  BY InitTool, InitOutput
<1>2. Inv /\ [Next]_vars => Inv'
  BY NextTool, NextOutput
<1>3. Inv => OutputFaithful
  BY DEF OutputInv
<1> HIDE DEF Inv
<1> QED
  BY <1>1, <1>2, <1>3, PTL DEF Spec
=============================================================================
