-------------------------- MODULE ZfpStream_proofs --------------------------
(***************************************************************************)
(* For all parameters, fields, masks and damaged words: the compression    *)
(* parameters stay usable, the execution parameters are owned by the       *)
(* policy that needs them, the Metal fallback restores the policy, and the *)
(* code word of a header stands for parameters that the coder cannot tell  *)
(* from those it was made of.                                              *)
(***************************************************************************)
EXTENDS ZfpStream, TLAPS

-----------------------------------------------------------------------------
\* Quotients.

\* Division with remainder by a positive divisor.
LEMMA DivMod ==
  ASSUME NEW n \in Nat, NEW d \in Nat \ {0}
  PROVE  /\ n \div d \in Nat
         /\ n % d \in 0 .. (d - 1)
         /\ n = d * (n \div d) + (n % d)
  OBVIOUS

\* Quotient and remainder are determined by the equation they satisfy.
LEMMA DivModUnique ==
  ASSUME NEW d \in Nat \ {0}, NEW q \in Nat, NEW r \in 0 .. (d - 1)
  PROVE  (d * q + r) \div d = q /\ (d * q + r) % d = r
<1> DEFINE n == d * q + r
           p == n \div d
           t == n % d
<1>1. n \in Nat
  OBVIOUS
<1>2. p \in Nat /\ t \in 0 .. (d - 1) /\ n = d * p + t
  BY <1>1, DivMod
<1>3. d * q + r = d * p + t
  BY <1>2
<1> HIDE DEF n, p, t
<1>4. p = q
  <2>1. CASE p < q
    <3>1. d * p + d <= d * q
      BY <1>2, <2>1
    <3> QED
      BY <1>2, <1>3, <3>1
  <2>2. CASE q < p
    <3>1. d * q + d <= d * p
      BY <1>2, <2>2
    <3> QED
      BY <1>2, <1>3, <3>1
  <2> QED
    BY <1>2, <2>1, <2>2
<1>5. t = r
  BY <1>2, <1>3, <1>4
<1> QED
  BY <1>4, <1>5 DEF n, p, t

\* Rounding up to a multiple does not make a number smaller.
LEMMA MultipleAbove ==
  ASSUME NEW n \in Nat, NEW m \in Nat \ {0}
  PROVE  /\ ((n + m - 1) \div m) * m \in Nat
         /\ n <= ((n + m - 1) \div m) * m
         /\ n % m = 0 => ((n + m - 1) \div m) * m = n
<1> DEFINE l == n + m - 1
           q == l \div m
<1>1. l \in Nat
  OBVIOUS
<1>2. q \in Nat /\ l % m \in 0 .. (m - 1) /\ l = m * q + (l % m)
  <2> HIDE DEF l
  <2> QED
    BY <1>1, DivMod
<1>3. q * m \in Nat /\ q * m = m * q
  <2> HIDE DEF q
  <2> QED
    BY <1>2
<1>4. n <= q * m
  <2> HIDE DEF q
  <2> QED
    BY <1>2, <1>3
<1>5. ASSUME n % m = 0
      PROVE  q * m = n
  <2> DEFINE p == n \div m
  <2>1. p \in Nat /\ n = m * p
    BY <1>5, DivMod
  <2>2. m - 1 \in 0 .. (m - 1)
    OBVIOUS
  <2>3. l = m * p + (m - 1)
    BY <2>1
  <2> HIDE DEF p, l
  <2>4. q = p
    BY <2>1, <2>2, <2>3, DivModUnique
  <2> HIDE DEF q
  <2> QED
    BY <1>3, <2>1, <2>4
<1> QED
  BY <1>3, <1>4, <1>5

-----------------------------------------------------------------------------
\* Code words.

LEMMA LongWordEffective ==
  ASSUME NEW p \in Params, Valid(p), 1 <= p.maxbits, p.minbits <= 32768
  PROVE  Effective(WordParams(LongWord(p))) = Effective(p)
<1> DEFINE w == LongWord(p)
<1>1. /\ w.size = 64
      /\ w.minexp - 16495 = Greater(0, Lesser(p.minexp + 16495, 32767)) - 16495
      /\ w.maxprec + 1 = p.maxprec
      /\ w.maxbits + 1 = Lesser(p.maxbits, 32768)
      /\ w.minbits + 1 = Greater(p.minbits, 1)
  BY DEF LongWord, Params, Valid, Greater, Lesser, MAX_PREC
<1>2. WordParams(w) = Parameters(Greater(p.minbits, 1), Lesser(p.maxbits, 32768), p.maxprec,
                                 Greater(0, Lesser(p.minexp + 16495, 32767)) - 16495)
  BY <1>1 DEF WordParams
<1> QED
  BY <1>2 DEF Effective, Parameters, Params, Greater, Lesser, MIN_BITS, MAX_BITS, MIN_EXP

LEMMA ShortWordEffective ==
  ASSUME NEW p \in Params, Valid(p), StreamMode(p) # LongWord(p)
  PROVE  Effective(WordParams(StreamMode(p))) = Effective(p)
<1>1. CASE CompressionMode(p) = "fixed_rate" /\ p.maxbits <= 2048
  <2>1. /\ p.minbits = p.maxbits /\ 1 <= p.maxbits /\ p.maxprec = MAX_PREC
        /\ p.minexp = MIN_EXP
    BY <1>1 DEF CompressionMode, Params, Valid, MAX_PREC
  <2>2. StreamMode(p) = ShortWord(p.maxbits - 1)
    BY <1>1 DEF StreamMode
  <2>3. WordParams(StreamMode(p)) = p
    BY <1>1, <2>1, <2>2 DEF ShortWord, WordParams, Parameters, Params
  <2> QED
    BY <2>3
<1>2. CASE CompressionMode(p) = "fixed_precision" /\ p.maxprec <= 128
  <2>1. Unlimited(p) /\ p.maxprec >= 1 /\ p.minexp = MIN_EXP /\ p.maxprec <= 64
    BY <1>2 DEF CompressionMode, Params, Valid, MAX_PREC
  <2>2. StreamMode(p) = ShortWord(p.maxprec - 1 + 2048)
    BY <1>2 DEF StreamMode
  <2>3. WordParams(StreamMode(p)) = Parameters(MIN_BITS, MAX_BITS, p.maxprec, MIN_EXP)
    BY <2>1, <2>2 DEF ShortWord, WordParams, Params
  <2> QED
    BY <2>1, <2>3 DEF Effective, Parameters, Params, Unlimited, Greater, Lesser,
                      MIN_BITS, MAX_BITS, MIN_EXP
<1>3. CASE CompressionMode(p) = "fixed_accuracy" /\ p.minexp <= 843
  <2>1. Unlimited(p) /\ p.maxprec = MAX_PREC /\ p.minexp >= MIN_EXP
    BY <1>3 DEF CompressionMode, Params, Valid, MAX_PREC
  <2>2. StreamMode(p) = ShortWord(p.minexp - MIN_EXP + 2048 + 128 + 1)
    BY <1>3 DEF StreamMode
  <2>3. WordParams(StreamMode(p)) = SetAccuracy(p.minexp)
    BY <2>1, <2>2 DEF ShortWord, WordParams, Params, MIN_EXP
  <2> QED
    BY <2>1, <2>3 DEF Effective, SetAccuracy, Parameters, Params, Unlimited, Greater, Lesser,
                      MIN_BITS, MAX_BITS, MIN_EXP
<1>4. CASE CompressionMode(p) = "reversible"
  <2>1. Unlimited(p) /\ p.maxprec = MAX_PREC /\ p.minexp < MIN_EXP
    BY <1>4 DEF CompressionMode, Params, Valid, MAX_PREC
  <2>2. StreamMode(p) = ShortWord(2048 + 128)
    BY <1>4 DEF StreamMode
  <2>3. WordParams(StreamMode(p)) = SetReversible
    BY <2>2 DEF ShortWord, WordParams
  <2> QED
    BY <2>1, <2>3 DEF Effective, SetReversible, Parameters, Params, Unlimited, Greater, Lesser,
                      MIN_BITS, MAX_BITS, MIN_EXP
<1> QED
  BY <1>1, <1>2, <1>3, <1>4 DEF StreamMode

(***************************************************************************)
(* The word that zfp_stream_mode makes of valid parameters, short or long, *)
(* gives zfp_stream_set_mode parameters with which the coder does the      *)
(* same, and which are not refused.  Two kinds of parameters are excepted: *)
(* maxbits = 0, and minbits beyond the 15 bits it has in the word.         *)
(***************************************************************************)
THEOREM CodeWordFaithful ==
  ASSUME NEW p \in Params, Valid(p), 1 <= p.maxbits, p.minbits <= 32768
  PROVE  /\ Effective(WordParams(StreamMode(p))) = Effective(p)
         /\ Effective(SetMode(p, StreamMode(p))) = Effective(p)
<1>1. Effective(WordParams(StreamMode(p))) = Effective(p)
  BY LongWordEffective, ShortWordEffective
<1> QED
  BY <1>1 DEF SetMode, SetParams

-----------------------------------------------------------------------------
\* Headers.

\* Parameters that fit a code word: see CodeWordFaithful.
Representable(p) == p \in Params /\ Valid(p) /\ 1 <= p.maxbits /\ p.minbits <= 32768

\* A field as zfp_field_set_size_1d, ..., zfp_field_set_size_4d make it: no extent is
\* used beyond its dimensionality.
WellFormed(f) ==
  /\ f = [type |-> f.type, n |-> f.n, s |-> f.s]
  /\ f.type \in ScalarTypes \cup {"none"}
  /\ f.n \in [1 .. 4 -> Nat]
  /\ \A i \in 1 .. 4 : i > Dimensionality(f) => f.n[i] = 0

LEMMA RateRepresentable ==
  ASSUME NEW bits \in Nat \ {0}, NEW type, NEW align,
         SetRate(bits, type, align).maxbits <= 32768
  PROVE  Representable(SetRate(bits, type, align))
<1> DEFINE least == CASE type = "float"  -> Greater(bits, 1 + 8)
                      [] type = "double" -> Greater(bits, 1 + 11)
                      [] OTHER           -> bits
           size == IF align THEN RoundUp(least, WordBits) ELSE least
<1>1. least \in Nat /\ 1 <= least
  BY DEF Greater
<1>2. size \in Nat /\ 1 <= size
  <2> HIDE DEF least
  <2>1. RoundUp(least, WordBits) \in Nat /\ least <= RoundUp(least, WordBits)
    BY <1>1, ApiAssumption, MultipleAbove, SMTT(30) DEF RoundUp
  <2> QED
    BY <1>1, <2>1
<1> HIDE DEF size
<1>3. SetRate(bits, type, align) = Parameters(size, size, MAX_PREC, MIN_EXP)
  BY DEF SetRate, size
<1> QED
  BY <1>2, <1>3 DEF Representable, Parameters, Params, Valid, MAX_PREC, MIN_EXP

\* Every function that sets parameters sets representable ones.
LEMMA SettersRepresentable ==
  /\ Representable(zfp_stream_open)
  /\ Representable(SetReversible)
  /\ \A precision \in Nat : Representable(SetPrecision(precision))
  /\ \A emin \in Int : Representable(SetAccuracy(emin))
<1>1. Representable(zfp_stream_open)
  BY DEF Representable, zfp_stream_open, Parameters, Params, Valid,
         MIN_BITS, MAX_BITS, MAX_PREC, MIN_EXP
<1>2. Representable(SetReversible)
  BY DEF Representable, SetReversible, Parameters, Params, Valid,
         MIN_BITS, MAX_BITS, MAX_PREC, MIN_EXP
<1>3. \A precision \in Nat : Representable(SetPrecision(precision))
  BY DEF Representable, SetPrecision, Parameters, Params, Valid, Lesser,
         MIN_BITS, MAX_BITS, MAX_PREC, MIN_EXP
<1>4. \A emin \in Int : Representable(SetAccuracy(emin))
  BY DEF Representable, SetAccuracy, Parameters, Params, Valid,
         MIN_BITS, MAX_BITS, MAX_PREC
<1> QED
  BY <1>1, <1>2, <1>3, <1>4

\* What a word stands for, whatever word it is, can be written again.
LEMMA WordRepresentable ==
  ASSUME NEW w \in Words, Valid(WordParams(w))
  PROVE  Representable(WordParams(w))
<1>1. CASE w.size = 12
  <2>1. w.code \in Nat /\ w.code < 4095
    BY <1>1 DEF Words, Below
  <2>2. CASE w.code < 2048
    BY <1>1, <2>1, <2>2 DEF WordParams, Representable, Parameters, Params, MAX_PREC, MIN_EXP
  <2>3. CASE 2048 <= w.code /\ w.code < 2048 + 128
    BY <1>1, <2>1, <2>3 DEF WordParams, Representable, Parameters, Params,
                            MIN_BITS, MAX_BITS, MAX_PREC, MIN_EXP
  <2>4. CASE w.code = 2048 + 128
    BY <1>1, <2>4, SettersRepresentable DEF WordParams
  <2>5. CASE w.code > 2048 + 128
    <3>1. WordParams(w) = SetAccuracy(w.code + MIN_EXP - (2048 + 128 + 1))
      BY <1>1, <2>1, <2>5 DEF WordParams
    <3>2. w.code + MIN_EXP - (2048 + 128 + 1) \in Int
      BY <2>1 DEF MIN_EXP
    <3> QED
      BY <3>1, <3>2, SettersRepresentable
  <2> QED
    BY <2>1, <2>2, <2>3, <2>4, <2>5
<1>2. CASE w.size # 12
  <2>1. /\ w.minexp \in Nat /\ w.maxprec \in Nat
        /\ w.maxbits \in Nat /\ w.minbits \in Nat /\ w.minbits < 32768
    BY <1>2 DEF Words, Below
  <2> QED
    BY <1>2, <2>1 DEF WordParams, Representable, Parameters, Params
<1> QED
  BY <1>1, <1>2

LEMMA ModeIsWord ==
  ASSUME NEW p, Representable(p)
  PROVE  StreamMode(p) \in Words
<1>1. /\ p.minbits \in Nat /\ p.maxbits \in Nat /\ p.maxprec \in Nat /\ p.minexp \in Int
      /\ 1 <= p.maxbits /\ 0 < p.maxprec /\ p.maxprec <= 64
  BY DEF Representable, Params, Valid, MAX_PREC
<1>2. LongWord(p) \in Words
  <2>1. /\ Greater(0, Lesser(p.minexp + 16495, 32767)) \in Below(32768)
        /\ Greater(1, Lesser(p.maxprec, 128)) - 1 \in Below(128)
        /\ Greater(1, Lesser(p.maxbits, 32768)) - 1 \in Below(32768)
        /\ Greater(1, Lesser(p.minbits, 32768)) - 1 \in Below(32768)
    BY <1>1 DEF Greater, Lesser, Below
  <2> QED
    BY <2>1 DEF LongWord, Words
<1>3. \A code \in Nat : code < 4095 => ShortWord(code) \in Words
  BY DEF ShortWord, Words, Below
<1>4. CASE CompressionMode(p) = "fixed_rate" /\ p.maxbits <= 2048
  <2>1. p.maxbits - 1 \in Below(4095)
    BY <1>1, <1>4 DEF Below
  <2> QED
    BY <1>3, <1>4, <2>1 DEF StreamMode, Below
<1>5. CASE CompressionMode(p) = "fixed_precision" /\ p.maxprec <= 128
  <2>1. p.maxprec - 1 + 2048 \in Below(4095)
    BY <1>1 DEF Below
  <2> QED
    BY <1>3, <1>5, <2>1 DEF StreamMode, Below
<1>6. CASE CompressionMode(p) = "fixed_accuracy" /\ p.minexp <= 843
  <2>1. p.minexp >= MIN_EXP
    BY <1>6 DEF CompressionMode
  <2>2. p.minexp - MIN_EXP + 2048 + 128 + 1 \in Below(4095)
    BY <1>1, <1>6, <2>1 DEF MIN_EXP, Below
  <2> QED
    BY <1>3, <1>6, <2>2 DEF StreamMode, Below
<1>7. CASE CompressionMode(p) = "reversible"
  BY <1>3, <1>7 DEF StreamMode
<1> QED
  BY <1>2, <1>4, <1>5, <1>6, <1>7 DEF StreamMode

\* No digit of a field is longer than the longest, that of a one-dimensional extent.
LEMMA BitsOrdered ==
  ASSUME NEW d \in 1 .. 4
  PROVE  DimBits[d] \in 0 .. DimBits[1] /\ ReadBits[d] \in 0 .. DimBits[1]
<1>1. DimBits[d] \in Nat /\ DimBits[1] \in Nat /\ ReadBits[d] \in Nat
  BY ApiAssumption
<1>2. d * DimBits[d] <= DimBits[1] /\ ReadBits[d] <= DimBits[d]
  BY ApiAssumption, DigitAssumption
<1>3. DimBits[d] <= d * DimBits[d]
  BY <1>1
<1> QED
  BY <1>1, <1>2, <1>3

\* The extents of a well-formed field are those it uses, and metadata records them.
LEMMA MetadataOf ==
  ASSUME NEW f, WellFormed(f), IsSet(f), FieldMetadata(f) # MetaNull
  PROVE  LET d == Dimensionality(f)
         IN  /\ d \in 1 .. 4
             /\ FieldMetadata(f) = [dims |-> d, type |-> f.type,
                                    digits |-> [i \in 1 .. d |-> f.n[i] - 1]]
             /\ \A i \in 1 .. d : f.n[i] \in Nat \ {0}
<1> DEFINE d == Dimensionality(f)
<1>1. d \in 0 .. 4 /\ \A i \in 1 .. d : f.n[i] \in Nat \ {0}
  BY DEF WellFormed, Dimensionality
<1> HIDE DEF d
<1>2. /\ d # 0
      /\ FieldMetadata(f) = [dims |-> d, type |-> f.type,
                             digits |-> [i \in 1 .. d |-> f.n[i] - 1]]
  BY DEF FieldMetadata, IsSet, d
<1> QED
  BY <1>1, <1>2 DEF d

\* What a 52-bit word can hold, whatever word it is.
HasShape(m) ==
  /\ m.dims \in 1 .. 4 /\ m.type \in ScalarTypes
  /\ \A i \in 1 .. m.dims : m.digits[i] \in Nat

\* The place of a digit is within the digits of a one-dimensional extent.
LEMMA PlacePositive ==
  ASSUME NEW d \in 1 .. 4, NEW i \in 1 .. d
  PROVE  Place(i, d) \in Nat \ {0}
<1> DEFINE b == DimBits[d]
<1>1. b \in Nat /\ DimBits[1] \in Nat /\ d * b <= DimBits[1]
  BY ApiAssumption, DigitAssumption
<1> HIDE DEF b
<1>2. (i - 1) * b \in Nat /\ (i - 1) * b <= d * b
  <2>1. CASE i = 1
    BY <1>1, <2>1
  <2>2. CASE i = 2
    BY <1>1, <2>2
  <2>3. CASE i = 3
    BY <1>1, <2>3
  <2>4. CASE i = 4
    BY <1>1, <2>4
  <2> QED
    BY <2>1, <2>2, <2>3, <2>4
<1> DEFINE k == (i - 1) * b
<1>3. k \in 0 .. DimBits[1]
  BY <1>1, <1>2
<1> HIDE DEF k
<1>4. 2 ^ k \in Nat \ {0}
  BY <1>3, PowerAssumption
<1> QED
  BY <1>4 DEF Place, k, b

LEMMA UnpackedShape ==
  ASSUME NEW word \in Nat
  PROVE  HasShape(Unpacked(word))
<1> DEFINE d == ((word \div 4) % 4) + 1
           e == 2 ^ DimBits[1]
           packed == (word \div 16) % e
<1>1. d \in 1 .. 4 /\ (word % 4) + 1 \in 1 .. 4
  OBVIOUS
<1>2. packed \in Nat
  <2>1. e \in Nat \ {0}
    BY ApiAssumption, PowerAssumption
  <2>2. word \div 16 \in Nat
    OBVIOUS
  <2> HIDE DEF e
  <2> QED
    BY <2>1, <2>2, DivMod
<1> HIDE DEF d, packed
<1>3. ASSUME NEW i \in 1 .. d
      PROVE  (packed \div Place(i, d)) % 2 ^ DimBits[d] \in Nat
  <2>1. Place(i, d) \in Nat \ {0}
    BY <1>1, PlacePositive
  <2> DEFINE quotient == packed \div Place(i, d)
             base == 2 ^ DimBits[d]
  <2>2. base \in Nat \ {0}
    BY <1>1, BitsOrdered, PowerAssumption
  <2>3. quotient \in Nat
    BY <1>2, <2>1, DivMod
  <2> HIDE DEF quotient, base
  <2>4. quotient % base \in 0 .. (base - 1)
    BY <2>2, <2>3, DivMod
  <2>5. quotient % base \in Nat
    BY <2>2, <2>4
  <2> QED
    BY <2>5 DEF quotient, base
<1>4. Unpacked(word) =
        [dims |-> d, type |-> <<"int32", "int64", "float", "double">>[(word % 4) + 1],
         digits |-> [i \in 1 .. d |-> (packed \div Place(i, d)) % 2 ^ DimBits[d]]]
  BY DEF Unpacked, d, packed
<1>5. <<"int32", "int64", "float", "double">>[(word % 4) + 1] \in ScalarTypes
  BY <1>1 DEF ScalarTypes
<1> QED
  BY <1>1, <1>3, <1>4, <1>5 DEF HasShape

\* The word of a field that is not set is a word all the same.
LEMMA PackedIsNat ==
  ASSUME NEW f, WellFormed(f)
  PROVE  PackedWord(f) \in Nat
<1> DEFINE d == Dimensionality(f)
           Term(i) == IF i > d THEN 0 ELSE (f.n[i] - 1) * Place(i, d)
<1>1. d \in 0 .. 4 /\ \A i \in 1 .. d : f.n[i] \in Nat \ {0}
  BY DEF WellFormed, Dimensionality
<1> HIDE DEF d
<1>2. ASSUME NEW i \in 1 .. 4 PROVE Term(i) \in Nat
  <2>1. CASE i > d
    BY <2>1
  <2>2. CASE ~ (i > d)
    <3>1. d \in 1 .. 4 /\ i \in 1 .. d
      BY <1>1, <2>2
    <3>2. Place(i, d) \in Nat
      BY <3>1, PlacePositive
    <3>3. f.n[i] - 1 \in Nat
      BY <1>1, <3>1
    <3> QED
      BY <2>2, <3>2, <3>3
  <2> QED
    BY <2>1, <2>2
<1>3. Packed(f) \in Nat
  <2>1. Packed(f) = Term(1) + Term(2) + Term(3) + Term(4)
    BY DEF Packed, d
  <2> HIDE DEF Term
  <2>2. Term(1) \in Nat /\ Term(2) \in Nat /\ Term(3) \in Nat /\ Term(4) \in Nat
    BY <1>2
  <2> QED
    BY <2>1, <2>2
<1>4. 2 ^ UintBits \in Nat \ {0}
  BY ApiAssumption, DigitAssumption, PowerAssumption
<1>5. LessOne(d) \in Nat /\ LessOne(TypeCode(f.type)) \in Nat
  <2>1. TypeCode(f.type) \in Nat
    BY DEF TypeCode
  <2> HIDE DEF d
  <2> QED
    BY <1>1, <1>4, <2>1 DEF LessOne
<1> QED
  BY <1>3, <1>5 DEF PackedWord, d

LEMMA MetadataShape ==
  ASSUME NEW f, WellFormed(f), FieldMetadata(f) # MetaNull
  PROVE  HasShape(FieldMetadata(f))
<1>1. CASE IsSet(f)
  <2>1. f.type \in ScalarTypes
    BY <1>1 DEF IsSet, WellFormed
  <2> QED
    BY <1>1, <2>1, MetadataOf DEF HasShape
<1>2. CASE ~ IsSet(f)
  <2>1. FieldMetadata(f) = Unpacked(PackedWord(f))
    BY <1>2 DEF FieldMetadata
  <2> QED
    BY <2>1, PackedIsNat, UnpackedShape
<1> QED
  BY <1>1, <1>2

\* Whatever metadata is read, the field is well-formed afterwards.
LEMMA ShapeRead ==
  ASSUME NEW m, HasShape(m), NEW f
  PROVE  WellFormed(SetMetadata(f, m))
<1> DEFINE b == 2 ^ ReadBits[m.dims]
           h == SetMetadata(f, m)
<1>1. m.dims \in 1 .. 4 /\ m.type \in ScalarTypes /\ \A i \in 1 .. m.dims : m.digits[i] \in Nat
  BY DEF HasShape
<1>2. b \in Nat \ {0}
  <2>1. ReadBits[m.dims] \in 0 .. DimBits[1]
    BY <1>1, BitsOrdered
  <2> QED
    BY <2>1, PowerAssumption
<1>3. h = [type |-> m.type, s |-> NoExtents,
           n |-> [i \in 1 .. 4 |-> IF i > m.dims THEN 0 ELSE (m.digits[i] % b) + 1]]
  BY DEF SetMetadata
<1> HIDE DEF h, b
<1>4. ASSUME NEW i \in 1 .. 4, ~ (i > m.dims)
      PROVE  (m.digits[i] % b) + 1 \in Nat \ {0}
  <2>1. m.digits[i] \in Nat
    BY <1>1, <1>4
  <2>2. m.digits[i] % b \in 0 .. (b - 1)
    BY <1>2, <2>1, DivMod
  <2> QED
    BY <1>2, <2>2
<1>5. h.n \in [1 .. 4 -> Nat] /\ \A i \in 1 .. 4 : h.n[i] = 0 <=> i > m.dims
  BY <1>3, <1>4
<1>6. Dimensionality(h) = m.dims
  BY <1>1, <1>5 DEF Dimensionality
<1> QED
  BY <1>1, <1>3, <1>5, <1>6 DEF WellFormed, h

\* What zfp_field_set_metadata makes of the metadata of g.
LEMMA MetadataRead ==
  ASSUME NEW g, WellFormed(g), IsSet(g), FieldMetadata(g) # MetaNull, NEW f
  PROVE  /\ WellFormed(SetMetadata(f, FieldMetadata(g)))
         /\ Readable(g) => SetMetadata(f, FieldMetadata(g)) = [g EXCEPT !.s = NoExtents]
<1> DEFINE d == Dimensionality(g)
           m == FieldMetadata(g)
           b == 2 ^ ReadBits[d]
           h == SetMetadata(f, m)
<1>1. /\ d \in 1 .. 4
      /\ m = [dims |-> d, type |-> g.type, digits |-> [i \in 1 .. d |-> g.n[i] - 1]]
      /\ \A i \in 1 .. d : g.n[i] \in Nat \ {0}
  BY MetadataOf
<1>2. b \in Nat \ {0}
  <2> HIDE DEF d
  <2>1. ReadBits[d] \in 0 .. DimBits[1]
    BY <1>1, BitsOrdered
  <2> QED
    BY <2>1, PowerAssumption
<1> HIDE DEF d, b
<1>3. h = [type |-> g.type, s |-> NoExtents,
           n |-> [i \in 1 .. 4 |-> IF i > d THEN 0 ELSE ((g.n[i] - 1) % b) + 1]]
  <2> HIDE DEF m
  <2>1. m.dims = d /\ m.type = g.type /\ \A i \in 1 .. 4 : ~ (i > d) => m.digits[i] = g.n[i] - 1
    BY <1>1
  <2> QED
    BY <2>1 DEF SetMetadata, h, b
<1> HIDE DEF h, m
<1>4. \A i \in 1 .. 4 : ~ (i > d) => ((g.n[i] - 1) % b) + 1 \in Nat \ {0}
  <2> SUFFICES ASSUME NEW i \in 1 .. 4, ~ (i > d)
               PROVE  ((g.n[i] - 1) % b) + 1 \in Nat \ {0}
    OBVIOUS
  <2>1. g.n[i] - 1 \in Nat
    BY <1>1
  <2> HIDE DEF b
  <2>2. (g.n[i] - 1) % b \in 0 .. (b - 1)
    BY <1>2, <2>1, DivMod
  <2> QED
    BY <1>2, <2>2
<1>5. h.n \in [1 .. 4 -> Nat] /\ \A i \in 1 .. 4 : h.n[i] = 0 <=> i > d
  BY <1>3, <1>4
<1>6. Dimensionality(h) = d
  BY <1>1, <1>5 DEF Dimensionality
<1>7. WellFormed(h)
  BY <1>3, <1>5, <1>6 DEF WellFormed
<1>8. ASSUME Readable(g)
      PROVE  h = [g EXCEPT !.s = NoExtents]
  <2>1. ASSUME NEW i \in 1 .. 4
        PROVE  g.n[i] = IF i > d THEN 0 ELSE ((g.n[i] - 1) % b) + 1
    <3>1. CASE i > d
      BY <3>1 DEF WellFormed, d
    <3>2. CASE ~ (i > d)
      <4> DEFINE k == g.n[i] - 1
      <4>1. k \in 0 .. (b - 1)
        BY <1>1, <1>2, <1>8, <3>2 DEF Readable, d, b
      <4>2. (b * 0 + k) % b = k
        <5> HIDE DEF k
        <5> QED
          BY <1>2, <4>1, DivModUnique
      <4>3. b * 0 + k = k
        BY <1>2, <4>1
      <4>4. k % b = k
        BY <4>2, <4>3
      <4> QED
        BY <1>1, <3>2, <4>4
    <3> QED
      BY <3>1, <3>2
  <2>2. g = [type |-> g.type, n |-> g.n, s |-> g.s] /\ g.n \in [1 .. 4 -> Nat]
    BY DEF WellFormed
  <2>3. g.n = h.n
    BY <1>3, <2>1, <2>2
  <2>4. [g EXCEPT !.s = NoExtents] = [type |-> g.type, n |-> g.n, s |-> NoExtents]
    BY <2>2
  <2> QED
    BY <1>3, <2>3, <2>4
<1> QED
  BY <1>7, <1>8 DEF h, m

-----------------------------------------------------------------------------
\* Compression parameters.

LEMMA ValidIsUsable ==
  ASSUME NEW p, Valid(p)
  PROVE  CompressionMode(p) # "null"
  BY DEF CompressionMode

\* Every function that sets parameters sets valid ones.
LEMMA SettersValid ==
  /\ Valid(zfp_stream_open)
  /\ Valid(SetReversible)
  /\ \A type, align : \A bits \in Nat : Valid(SetRate(bits, type, align))
  /\ \A precision \in Nat : Valid(SetPrecision(precision))
  /\ \A emin : Valid(SetAccuracy(emin))
<1>1. Valid(zfp_stream_open) /\ Valid(SetReversible) /\ \A emin : Valid(SetAccuracy(emin))
  BY DEF Valid, zfp_stream_open, SetReversible, SetAccuracy, Parameters,
         MIN_BITS, MAX_BITS, MAX_PREC
<1>2. ASSUME NEW bits \in Nat, NEW type, NEW align
      PROVE  Valid(SetRate(bits, type, align))
  <2> DEFINE least == CASE type = "float"  -> Greater(bits, 1 + 8)
                        [] type = "double" -> Greater(bits, 1 + 11)
                        [] OTHER           -> bits
             size == IF align THEN RoundUp(least, WordBits) ELSE least
  <2>1. least \in Nat
    BY DEF Greater
  <2>2. size \in Int
    <3> HIDE DEF least
    <3> QED
      BY <2>1, ApiAssumption DEF RoundUp
  <2> HIDE DEF size
  <2>3. size <= size
    BY <2>2
  <2>4. SetRate(bits, type, align) = Parameters(size, size, MAX_PREC, MIN_EXP)
    BY DEF SetRate, size
  <2> QED
    BY <2>3, <2>4 DEF Valid, Parameters, MAX_PREC
<1>3. ASSUME NEW precision \in Nat
      PROVE  Valid(SetPrecision(precision))
  BY DEF Valid, SetPrecision, Parameters, Lesser, MIN_BITS, MAX_BITS, MAX_PREC
<1> QED
  BY <1>1, <1>2, <1>3

LEMMA SetParamsValid ==
  ASSUME NEW p, NEW q, Valid(p)
  PROVE  Valid(SetParams(p, q))
  BY DEF SetParams

LEMMA InitParams == Init => Valid(params)
  BY SettersValid DEF Init

LEMMA NextParams ==
  ASSUME Valid(params), [Next]_vars
  PROVE  Valid(params')
<1>1. CASE UseReversible
  BY <1>1, SettersValid DEF UseReversible, ChangeParams
<1>2. CASE UseRate
  BY <1>2, SettersValid, StreamAssumption DEF UseRate, ChangeParams
<1>3. CASE UsePrecision
  BY <1>3, SettersValid, StreamAssumption DEF UsePrecision, ChangeParams
<1>4. CASE UseAccuracy
  BY <1>4, SettersValid DEF UseAccuracy, ChangeParams
<1>5. CASE UseParams
  BY <1>5, SetParamsValid DEF UseParams, ChangeParams
<1>6. CASE ReadHeader
  BY <1>6, SetParamsValid DEF ReadHeader, SetMode
<1>7. CASE \/ ChooseField \/ Damage \/ Rewind \/ Compress \/ Decompress
           \/ \E policy \in Policies : UseExecution(policy)
           \/ \E member \in {"threads", "chunk_size"} : UseOmp(member)
           \/ \E mask \in Masks : WriteHeader(mask) \/ ReadNoHeader(mask)
  BY <1>7 DEF ChooseField, Damage, Rewind, Compress, Decompress, UseExecution, UseOmp,
              WriteHeader, ReadNoHeader
<1>8. CASE UNCHANGED vars
  BY <1>8 DEF vars
<1> QED
  BY <1>1, <1>2, <1>3, <1>4, <1>5, <1>6, <1>7, <1>8 DEF Next

(***************************************************************************)
(* No sequence of calls of the functions in zfp.c, whatever their          *)
(* arguments, and no header, however damaged, gives the stream parameters  *)
(* that zfp_stream_compression_mode calls invalid.                         *)
(***************************************************************************)
THEOREM ParametersUsable == Spec => []ParamsUsable
<1> DEFINE ParamsValid == Valid(params)
<1>1. Init => ParamsValid
  BY InitParams
<1>2. ParamsValid /\ [Next]_vars => ParamsValid'
  BY NextParams
<1>3. ParamsValid => ParamsUsable
  BY ValidIsUsable DEF ParamsUsable
<1> HIDE DEF ParamsValid
<1> QED
  BY <1>1, <1>2, <1>3, PTL DEF Spec

-----------------------------------------------------------------------------
\* Execution policy.

\* What ExecParamsOwned says of x, with the types that make it inductive.
Owned(x) ==
  /\ x = [exec |-> x.exec, heap |-> x.heap]
  /\ x.exec = [policy |-> x.exec.policy, params |-> x.exec.params]
  /\ x.exec.policy \in Policies /\ x.exec.params \in 0 .. 2
  /\ x.exec.policy = "omp" <=> x.exec.params # 0
  /\ x.heap = [a \in DOMAIN x.heap |-> x.heap[a]]
  /\ DOMAIN x.heap = {x.exec.params} \ {0}

LEMMA SetExecutionOwned ==
  ASSUME NEW x, Owned(x), NEW policy \in Policies
  PROVE  /\ Owned(SetExecution(x, policy))
         /\ SetExecution(x, policy).exec.policy = policy
<1>1. CASE x.exec.policy = policy
  BY <1>1 DEF SetExecution
<1>2. CASE x.exec.policy # policy /\ policy = "omp"
  <2> DEFINE y == SetExecution(x, policy)
             a == NewAddress(x)
  <2>1. a \in 1 .. 2 /\ a \notin DOMAIN x.heap
    <3>1. \E b \in 1 .. 2 : b \notin DOMAIN x.heap
      BY DEF Owned
    <3> QED
      BY <3>1 DEF NewAddress
  <2>2. DOMAIN Without(x.heap, x.exec.params) = {}
    BY DEF Owned, Without
  <2> HIDE DEF a
  <2>3. /\ y.exec = [policy |-> policy, params |-> a]
        /\ y.heap = With(Without(x.heap, x.exec.params), a,
                         [threads |-> 0, chunk_size |-> 0])
        /\ y = [exec |-> y.exec, heap |-> y.heap]
    BY <1>2 DEF SetExecution, a
  <2> HIDE DEF y
  <2>4. DOMAIN y.heap = {a} /\ y.heap = [b \in DOMAIN y.heap |-> y.heap[b]]
    BY <2>2, <2>3 DEF With
  <2>5. Owned(y) /\ y.exec.policy = policy
    BY <1>2, <2>1, <2>3, <2>4 DEF Owned
  <2> QED
    BY <2>5 DEF y
<1>3. CASE x.exec.policy # policy /\ policy # "omp"
  <2> DEFINE y == SetExecution(x, policy)
  <2>1. /\ y.exec = [policy |-> policy, params |-> 0]
        /\ y.heap = Without(x.heap, x.exec.params)
        /\ y = [exec |-> y.exec, heap |-> y.heap]
    BY <1>3 DEF SetExecution
  <2> HIDE DEF y
  <2>2. DOMAIN y.heap = {} /\ y.heap = [b \in DOMAIN y.heap |-> y.heap[b]]
    BY <2>1 DEF Owned, Without
  <2>3. Owned(y) /\ y.exec.policy = policy
    BY <1>3, <2>1, <2>2 DEF Owned
  <2> QED
    BY <2>3 DEF y
<1> QED
  BY <1>1, <1>2, <1>3

\* The fallback of the Metal back end gives back the policy and the parameters.
LEMMA FallbackRestores ==
  ASSUME Owned(Execution), NEW routine, routine = "cuda" => exec.policy = "cuda"
  PROVE  AfterRoutine(routine) = Execution
<1>1. CASE ~ (routine = "cuda" /\ backend = "metal")
  BY <1>1 DEF AfterRoutine
<1>2. CASE routine = "cuda" /\ backend = "metal"
  <2>1. /\ exec.policy = "cuda" /\ exec.params = 0 /\ DOMAIN heap = {}
        /\ exec = [policy |-> "cuda", params |-> 0] /\ heap = [b \in DOMAIN heap |-> heap[b]]
    BY <1>2 DEF Owned, Execution
  <2>2. \A b : Without(heap, b) = heap
    BY <2>1 DEF Without
  <2>3. SetExecution(Execution, "serial")
          = [exec |-> [policy |-> "serial", params |-> 0], heap |-> heap]
    BY <2>1, <2>2 DEF SetExecution, Execution
  <2>4. SetExecution(SetExecution(Execution, "serial"), "cuda")
          = [exec |-> [policy |-> "cuda", params |-> 0], heap |-> heap]
    BY <2>2, <2>3 DEF SetExecution
  <2> QED
    BY <1>2, <2>1, <2>4 DEF AfterRoutine, Execution
<1> QED
  BY <1>1, <1>2

LEMMA CompressKeepsPolicy ==
  ASSUME Owned(Execution), Compress \/ Decompress
  PROVE  exec' = exec /\ heap' = heap
<1>1. \A d : /\ CompressTable(backend, exec.policy, d) = "cuda" => exec.policy = "cuda"
             /\ DecompressTable(backend, exec.policy, d) = "cuda" => exec.policy = "cuda"
  BY DEF CompressTable, DecompressTable
<1>2. \A d : /\ AfterRoutine(CompressTable(backend, exec.policy, d)) = Execution
             /\ AfterRoutine(DecompressTable(backend, exec.policy, d)) = Execution
  BY <1>1, FallbackRestores
<1> QED
  BY <1>2 DEF Compress, Decompress, Execution

LEMMA NextOwned ==
  ASSUME Owned(Execution), [Next]_vars
  PROVE  Owned(Execution')
<1>1. ASSUME NEW policy \in Policies, UseExecution(policy)
      PROVE  Owned(Execution')
  <2> DEFINE x == IF Available(policy) THEN SetExecution(Execution, policy) ELSE Execution
  <2>1. Owned(x)
    BY SetExecutionOwned
  <2>2. exec' = x.exec /\ heap' = x.heap
    BY <1>1 DEF UseExecution
  <2> QED
    BY <2>1, <2>2 DEF Execution, Owned
<1>2. ASSUME NEW member \in {"threads", "chunk_size"}, UseOmp(member)
      PROVE  Owned(Execution')
  <2>1. CASE WithOmp
    <3> DEFINE x == SetExecution(Execution, "omp")
    <3>1. Owned(x)
      BY SetExecutionOwned DEF Policies
    <3>2. exec' = x.exec /\ heap' = [x.heap EXCEPT ![x.exec.params][member] = 1]
      BY <1>2, <2>1 DEF UseOmp
    <3> HIDE DEF x
    <3>3. DOMAIN heap' = DOMAIN x.heap /\ heap' = [b \in DOMAIN heap' |-> heap'[b]]
      BY <3>2
    <3> QED
      BY <3>1, <3>2, <3>3 DEF Execution, Owned
  <2>2. CASE ~ WithOmp
    BY <1>2, <2>2 DEF UseOmp, Execution
  <2> QED
    BY <2>1, <2>2
<1>3. CASE Compress \/ Decompress
  BY <1>3, CompressKeepsPolicy DEF Execution
<1>4. CASE \/ UseReversible \/ UseRate \/ UsePrecision \/ UseAccuracy \/ UseParams
           \/ ChooseField \/ ReadHeader \/ Damage \/ Rewind
           \/ \E mask \in Masks : WriteHeader(mask) \/ ReadNoHeader(mask)
           \/ UNCHANGED vars
  <2>1. exec' = exec /\ heap' = heap
    BY <1>4 DEF UseReversible, UseRate, UsePrecision, UseAccuracy, UseParams, ChangeParams,
                ChooseField, ReadHeader, Damage, Rewind, WriteHeader, ReadNoHeader, vars
  <2> QED
    BY <2>1 DEF Execution
<1> QED
  BY <1>1, <1>2, <1>3, <1>4 DEF Next

LEMMA InitOwned == Init => Owned(Execution)
  BY DEF Init, Execution, Owned, Policies

(***************************************************************************)
(* Whatever the order of policy changes, and through every fallback, the   *)
(* OpenMP parameters are allocated exactly while the policy is OpenMP, and *)
(* nothing else is: zfp_stream_set_execution leaks none and leaves no      *)
(* pointer to freed ones.                                                  *)
(***************************************************************************)
THEOREM ParametersOwned == Spec => []ExecParamsOwned
<1> DEFINE Inv == Owned(Execution)
<1>1. Init => Inv
  BY InitOwned
<1>2. Inv /\ [Next]_vars => Inv'
  BY NextOwned
<1>3. Inv => ExecParamsOwned
  BY DEF Owned, Execution, ExecParamsOwned
<1> HIDE DEF Inv
<1> QED
  BY <1>1, <1>2, <1>3, PTL DEF Spec

(***************************************************************************)
(* No call that moves in the stream or writes to it changes the execution  *)
(* policy or its parameters; the Metal back end, which sets the policy to  *)
(* serial and back around a fallback to the host, restores both.           *)
(***************************************************************************)
THEOREM PolicyRestored == Spec => PolicyKept
<1> DEFINE Inv == Owned(Execution)
           Kept == items' # items \/ pos' # pos => exec' = exec /\ heap' = heap
<1>1. Init => Inv
  BY InitOwned
<1>2. Inv /\ [Next]_vars => Inv'
  BY NextOwned
<1>3. Inv /\ [Next]_vars => [Kept]_vars
  <2> SUFFICES ASSUME Inv, [Next]_vars PROVE [Kept]_vars
    OBVIOUS
  <2>1. CASE Compress \/ Decompress
    BY <2>1, CompressKeepsPolicy
  <2>2. CASE ReadHeader \/ Damage \/ Rewind
             \/ \E mask \in Masks : WriteHeader(mask) \/ ReadNoHeader(mask)
    BY <2>2 DEF ReadHeader, Damage, Rewind, WriteHeader, ReadNoHeader
  <2>3. CASE \/ UseReversible \/ UseRate \/ UsePrecision \/ UseAccuracy \/ UseParams
             \/ ChooseField
             \/ \E policy \in Policies : UseExecution(policy)
             \/ \E member \in {"threads", "chunk_size"} : UseOmp(member)
    BY <2>3 DEF UseReversible, UseRate, UsePrecision, UseAccuracy, UseParams, ChangeParams,
                ChooseField, UseExecution, UseOmp
  <2> QED
    BY <2>1, <2>2, <2>3 DEF Next
<1> HIDE DEF Inv
<1> QED
  BY <1>1, <1>2, <1>3, PTL DEF Spec, PolicyKept

-----------------------------------------------------------------------------
\* Headers that are refused.

\* The cursor is in a sequence of some items, or just past it.
Positioned == pos \in Nat /\ \E S : items \in Seq(S)

LEMMA NextPositioned ==
  ASSUME Positioned, [Next]_vars
  PROVE  Positioned'
<1> PICK S : items \in Seq(S)
  BY DEF Positioned
<1>1. pos \in Nat /\ Len(items) \in Nat
  BY DEF Positioned
<1>2. ASSUME NEW mask \in Masks, WriteHeader(mask)
      PROVE  Positioned'
  <2>1. CASE items' = items /\ pos' = pos
    BY <2>1, <1>1 DEF Positioned
  <2>2. CASE ~ (items' = items /\ pos' = pos)
    <3>1. PICK h : items' = <<h>> /\ pos' = 1
      BY <1>2, <2>2 DEF WriteHeader
    <3>2. items' \in Seq({h})
      BY <3>1
    <3> QED
      BY <3>1, <3>2 DEF Positioned
  <2> QED
    BY <2>1, <2>2
<1>3. ASSUME NEW mask \in Masks, ReadNoHeader(mask)
      PROVE  Positioned'
  BY <1>1, <1>3 DEF ReadNoHeader, Positioned
<1>4. CASE Damage
  <2>1. PICK w : items' = [items EXCEPT ![1].word = w, ![1].damaged = TRUE]
    BY <1>4 DEF Damage
  <2>2. \E h : items' = [items EXCEPT ![1] = h]
    BY <2>1
  <2>3. PICK h : items' = [items EXCEPT ![1] = h]
    BY <2>2
  <2>4. items' \in Seq(S \cup {h})
    <3>1. items \in [1 .. Len(items) -> S]
      OBVIOUS
    <3>2. items' \in [1 .. Len(items) -> S \cup {h}]
      BY <2>3, <3>1
    <3> QED
      BY <1>1, <3>2
  <2>5. pos' = pos
    BY <1>4 DEF Damage
  <2> QED
    BY <1>1, <2>4, <2>5 DEF Positioned
<1>5. CASE Rewind
  BY <1>5 DEF Rewind, Positioned
<1>6. CASE ReadHeader
  <2>1. pos' \in Nat
    <3> DEFINE fails == "mode" \in items[pos + 1].mask /\ SetModeFails(params, items[pos + 1].word)
    <3>1. pos' = IF fails THEN Len(items) + 1 ELSE pos + 1
      BY <1>6 DEF ReadHeader
    <3> HIDE DEF fails
    <3> QED
      BY <1>1, <3>1
  <2>2. items' = items
    BY <1>6 DEF ReadHeader
  <2> QED
    BY <2>1, <2>2 DEF Positioned
<1>7. CASE Compress
  <2> DEFINE b == [kind |-> "blocks"]
             routine == CompressTable(backend, exec.policy, Dimensionality(field))
  <2>1. PICK start \in 0 .. Len(items) :
          /\ items' = IF Idle(routine) THEN items ELSE WriteBlocks(start)
          /\ pos' = IF Idle(routine) THEN pos ELSE start + 1
    <3> DEFINE first == IF routine = "cuda" /\ backend = "cuda" THEN 0 ELSE pos
    <3>1. /\ pos <= Len(items)
          /\ items' = IF Idle(routine) THEN items ELSE WriteBlocks(first)
          /\ pos' = IF Idle(routine) THEN pos ELSE first + 1
      BY <1>7 DEF Compress
    <3>2. first \in 0 .. Len(items)
      BY <1>1, <3>1
    <3> HIDE DEF first, routine
    <3> QED
      BY <3>1, <3>2
  <2>2. SubSeq(items, 1, start) \in Seq(S \cup {b})
    <3>1. items \in Seq(S \cup {b})
      OBVIOUS
    <3> QED
      BY <3>1
  <2>3. WriteBlocks(start) \in Seq(S \cup {b})
    BY <2>2 DEF WriteBlocks
  <2> HIDE DEF routine
  <2> QED
    BY <1>1, <2>1, <2>3 DEF Positioned
<1>8. CASE Decompress
  <2>1. pos' \in {pos, pos + 1} /\ items' = items
    BY <1>8 DEF Decompress
  <2> QED
    BY <1>1, <2>1 DEF Positioned
<1>9. CASE \/ UseReversible \/ UseRate \/ UsePrecision \/ UseAccuracy \/ UseParams
           \/ ChooseField
           \/ \E policy \in Policies : UseExecution(policy)
           \/ \E member \in {"threads", "chunk_size"} : UseOmp(member)
           \/ UNCHANGED vars
  <2>1. pos' = pos /\ items' = items
    BY <1>9 DEF UseReversible, UseRate, UsePrecision, UseAccuracy, UseParams, ChangeParams,
                ChooseField, UseExecution, UseOmp, vars
  <2> QED
    BY <1>1, <2>1 DEF Positioned
<1> QED
  BY <1>2, <1>3, <1>4, <1>5, <1>6, <1>7, <1>8, <1>9 DEF Next

(***************************************************************************)
(* A header whose code word is refused, whatever damage made of it, leaves *)
(* the parameters of the stream as they were (zfp_stream_set_mode sets     *)
(* them only through the check of zfp_stream_set_params).                  *)
(***************************************************************************)
THEOREM RefusedHeaderChangesNothing == Spec => FailedReadKeepsParams
<1> DEFINE Keeps == pos' # pos /\ pos' = Len(items) + 1 => params' = params
<1>1. Init => Positioned
  <2>1. <<>> \in Seq({})
    OBVIOUS
  <2> QED
    BY <2>1 DEF Init, Positioned
<1>2. Positioned /\ [Next]_vars => Positioned'
  BY NextPositioned
<1>3. Positioned /\ [Next]_vars => [Keeps]_vars
  <2> SUFFICES ASSUME Positioned, [Next]_vars PROVE [Keeps]_vars
    OBVIOUS
  <2>1. CASE ReadHeader
    <3>1. pos \in Nat /\ Len(items) \in Nat
      BY DEF Positioned
    <3> DEFINE h == items[pos + 1]
               fails == "mode" \in h.mask /\ SetModeFails(params, h.word)
    <3>2. /\ pos < Len(items)
          /\ pos' = IF fails THEN Len(items) + 1 ELSE pos + 1
          /\ params' = IF "mode" \in h.mask THEN SetMode(params, h.word) ELSE params
      BY <2>1 DEF ReadHeader
    <3>3. fails => SetMode(params, h.word) = params
      BY DEF SetModeFails, SetMode, SetParams
    <3> HIDE DEF fails, h
    <3> QED
      BY <3>1, <3>2, <3>3
  <2>2. CASE \/ Damage \/ Rewind \/ Compress \/ Decompress
             \/ \E mask \in Masks : WriteHeader(mask) \/ ReadNoHeader(mask)
    BY <2>2 DEF Damage, Rewind, Compress, Decompress, WriteHeader, ReadNoHeader
  <2>3. CASE \/ UseReversible \/ UseRate \/ UsePrecision \/ UseAccuracy \/ UseParams
             \/ ChooseField
             \/ \E policy \in Policies : UseExecution(policy)
             \/ \E member \in {"threads", "chunk_size"} : UseOmp(member)
    BY <2>3 DEF UseReversible, UseRate, UsePrecision, UseAccuracy, UseParams, ChangeParams,
                ChooseField, UseExecution, UseOmp
  <2> QED
    BY <2>1, <2>2, <2>3 DEF Next
<1> QED
  BY <1>1, <1>2, <1>3, PTL DEF Spec, FailedReadKeepsParams
-----------------------------------------------------------------------------
\* Headers that are read back.

\* The arguments of the caller: parameters and rates fit a code word, and the extents
\* of a field are those of one of zfp_field_set_size_1d to zfp_field_set_size_4d.
SafeInputs ==
  /\ \A q \in ParamChoices : Valid(q) => Representable(q)
  /\ \A bits \in RateChoices, type \in ScalarTypes \cup {"none"}, align \in BOOLEAN :
       SetRate(bits, type, align).maxbits <= 32768
  /\ \A f \in FieldChoices, i \in 1 .. 4 : i > Dimensionality(f) => f.n[i] = 0

\* A header as zfp_write_header leaves it in the stream, its code word perhaps damaged.
HeaderOK(h) ==
  /\ DOMAIN h = {"kind", "mask", "damaged", "meta", "word", "params", "field"}
  /\ h.word \in Words
  /\ Representable(h.params)
  /\ WellFormed(h.field)
  /\ "meta" \in h.mask => FieldMetadata(h.field) # MetaNull /\ h.meta = FieldMetadata(h.field)
  /\ ~ h.damaged => h.word = StreamMode(h.params)
ItemOK(x) == x.kind = "header" => HeaderOK(x)

(***************************************************************************)
(* The inductive invariant: what the stream holds, and that the structs    *)
(* hold what can be written.                                               *)
(***************************************************************************)
ItemsOK == pos \in Nat /\ \E S : items \in Seq(S) /\ \A x \in S : ItemOK(x)
StructsOK == Representable(params) /\ WellFormed(field)
HeaderInv == ItemsOK /\ StructsOK /\ HeaderFaithful

LEMMA NextItemsOK ==
  ASSUME ItemsOK, StructsOK, [Next]_vars
  PROVE  ItemsOK'
<1> PICK S : items \in Seq(S) /\ \A x \in S : ItemOK(x)
  BY DEF ItemsOK
<1>1. pos \in Nat /\ Len(items) \in Nat
  BY DEF ItemsOK
<1>2. pos' \in Nat
  <2>1. Positioned
    BY DEF ItemsOK, Positioned
  <2> QED
    BY <2>1, NextPositioned DEF Positioned
<1>3. CASE items' = items
  BY <1>2, <1>3 DEF ItemsOK
<1>4. ASSUME NEW mask \in Masks, WriteHeader(mask), items' # items
      PROVE  ItemsOK'
  <2> DEFINE h == [kind |-> "header", mask |-> mask, damaged |-> FALSE,
                   meta |-> FieldMetadata(field), word |-> StreamMode(params),
                   params |-> params, field |-> field]
  <2>1. items' = <<h>> /\ ~ ("meta" \in mask /\ FieldMetadata(field) = MetaNull)
    BY <1>4 DEF WriteHeader
  <2>2. StreamMode(params) \in Words
    BY ModeIsWord DEF StructsOK
  <2>3. HeaderOK(h)
    BY <2>1, <2>2 DEF HeaderOK, StructsOK
  <2> HIDE DEF h
  <2>4. items' \in Seq({h}) /\ \A x \in {h} : ItemOK(x)
    BY <2>1, <2>3 DEF ItemOK
  <2> QED
    BY <1>2, <2>4 DEF ItemsOK
<1>5. CASE Damage
  <2> DEFINE g == items[1]
  <2>1. PICK w \in DamagedWords : items' = [items EXCEPT ![1].word = w, ![1].damaged = TRUE]
    BY <1>5 DEF Damage
  <2>2. items # <<>> /\ g.kind = "header"
    BY <1>5 DEF Damage
  <2>3. 1 \in DOMAIN items /\ g \in S
    BY <2>2
  <2>4. HeaderOK(g)
    BY <2>2, <2>3 DEF ItemOK
  <2> DEFINE h == [g EXCEPT !.word = w, !.damaged = TRUE]
  <2>5. items' = [items EXCEPT ![1] = h]
    BY <2>1, <2>3
  <2>6. HeaderOK(h)
    <3>1. w \in Words
      BY <2>1, StreamAssumption
    <3> HIDE DEF g
    <3>2. DOMAIN g = {"kind", "mask", "damaged", "meta", "word", "params", "field"}
      BY <2>4 DEF HeaderOK
    <3>3. /\ DOMAIN h = DOMAIN g
          /\ h.word = w /\ h.damaged = TRUE
          /\ h.mask = g.mask /\ h.meta = g.meta /\ h.params = g.params /\ h.field = g.field
      BY <3>2
    <3> HIDE DEF h
    <3> QED
      BY <2>4, <3>1, <3>2, <3>3 DEF HeaderOK
  <2> HIDE DEF h
  <2>7. items' \in Seq(S \cup {h})
    <3>1. items \in [1 .. Len(items) -> S]
      OBVIOUS
    <3>2. items' \in [1 .. Len(items) -> S \cup {h}]
      BY <2>5, <3>1
    <3> QED
      BY <1>1, <3>2
  <2>8. \A x \in S \cup {h} : ItemOK(x)
    BY <2>6 DEF ItemOK
  <2> QED
    BY <1>2, <2>7, <2>8 DEF ItemsOK
<1>6. ASSUME Compress, items' # items
      PROVE  ItemsOK'
  <2> DEFINE b == [kind |-> "blocks"]
             routine == CompressTable(backend, exec.policy, Dimensionality(field))
             start == IF routine = "cuda" /\ backend = "cuda" THEN 0 ELSE pos
  <2>1. pos <= Len(items) /\ items' = WriteBlocks(start)
    BY <1>6 DEF Compress
  <2>2. start \in 0 .. Len(items)
    BY <1>1, <2>1
  <2> HIDE DEF start, routine
  <2>3. SubSeq(items, 1, start) \in Seq(S \cup {b})
    <3>1. items \in Seq(S \cup {b})
      OBVIOUS
    <3> QED
      BY <2>2, <3>1
  <2>4. items' \in Seq(S \cup {b})
    BY <2>1, <2>3 DEF WriteBlocks
  <2>5. \A x \in S \cup {b} : ItemOK(x)
    BY DEF ItemOK
  <2> QED
    BY <1>2, <2>4, <2>5 DEF ItemsOK
<1>7. CASE \/ UseReversible \/ UseRate \/ UsePrecision \/ UseAccuracy \/ UseParams
           \/ ChooseField \/ ReadHeader \/ Rewind \/ Decompress
           \/ \E policy \in Policies : UseExecution(policy)
           \/ \E member \in {"threads", "chunk_size"} : UseOmp(member)
           \/ \E mask \in Masks : ReadNoHeader(mask)
           \/ UNCHANGED vars
  <2>1. items' = items
    BY <1>7 DEF UseReversible, UseRate, UsePrecision, UseAccuracy, UseParams, ChangeParams,
                ChooseField, UseExecution, UseOmp, ReadNoHeader, ReadHeader, Rewind,
                Decompress, vars
  <2> QED
    BY <1>3, <2>1
<1> QED
  BY <1>3, <1>4, <1>5, <1>6, <1>7 DEF Next

\* The header that is read.
LEMMA ReadsHeader ==
  ASSUME ItemsOK, ReadHeader
  PROVE  HeaderOK(items[pos + 1])
<1>1. PICK S : items \in Seq(S) /\ \A x \in S : ItemOK(x)
  BY DEF ItemsOK
<1>2. pos \in Nat /\ pos < Len(items) /\ items[pos + 1].kind = "header"
  BY DEF ItemsOK, ReadHeader
<1>3. pos + 1 \in 1 .. Len(items)
  BY <1>1, <1>2
<1>4. items[pos + 1] \in S
  BY <1>1, <1>3
<1> QED
  BY <1>1, <1>2, <1>4 DEF ItemOK

LEMMA NextStructsOK ==
  ASSUME SafeInputs, ItemsOK, StructsOK, [Next]_vars
  PROVE  StructsOK'
<1>1. CASE UseReversible
  BY <1>1, SettersRepresentable DEF UseReversible, ChangeParams, StructsOK
<1>2. CASE UseRate
  <2>1. PICK bits \in RateChoices, align \in BOOLEAN :
          params' = SetRate(bits, field.type, align)
    BY <1>2 DEF UseRate, ChangeParams
  <2>2. field.type \in ScalarTypes \cup {"none"} /\ bits \in Nat \ {0}
    BY StreamAssumption DEF StructsOK, WellFormed
  <2>3. SetRate(bits, field.type, align).maxbits <= 32768
    BY <2>2 DEF SafeInputs
  <2>4. Representable(params')
    BY <2>1, <2>2, <2>3, RateRepresentable
  <2>5. field' = field
    BY <1>2 DEF UseRate, ChangeParams
  <2> QED
    BY <2>4, <2>5 DEF StructsOK
<1>3. CASE UsePrecision
  BY <1>3, SettersRepresentable, StreamAssumption DEF UsePrecision, ChangeParams, StructsOK
<1>4. CASE UseAccuracy
  BY <1>4, SettersRepresentable, StreamAssumption DEF UseAccuracy, ChangeParams, StructsOK
<1>5. CASE UseParams
  <2>1. PICK q \in ParamChoices : params' = SetParams(params, q)
    BY <1>5 DEF UseParams, ChangeParams
  <2>2. Representable(params')
    BY <2>1 DEF SetParams, SafeInputs, StructsOK
  <2>3. field' = field
    BY <1>5 DEF UseParams, ChangeParams
  <2> QED
    BY <2>2, <2>3 DEF StructsOK
<1>6. CASE ChooseField
  <2>1. PICK f \in FieldChoices :
          field' = SetStride(SetSize(SetType(field, f.type), f.n), f.s)
    BY <1>6 DEF ChooseField
  <2>2. /\ f.type \in ScalarTypes /\ f.n \in [1 .. 4 -> Nat]
        /\ \A i \in 1 .. 4 : i > Dimensionality(f) => f.n[i] = 0
    BY StreamAssumption DEF SafeInputs
  <2>3. field' = [type |-> f.type, n |-> f.n, s |-> f.s]
    BY <2>1, <2>2 DEF SetStride, SetSize, SetType, StructsOK, WellFormed
  <2>4. Dimensionality(field') = Dimensionality(f)
    BY <2>3 DEF Dimensionality
  <2>5. WellFormed(field')
    BY <2>2, <2>3, <2>4 DEF WellFormed
  <2>6. params' = params
    BY <1>6 DEF ChooseField
  <2> QED
    BY <2>5, <2>6 DEF StructsOK
<1>7. CASE ReadHeader
  <2> DEFINE h == items[pos + 1]
  <2>1. /\ field' = IF "meta" \in h.mask THEN SetMetadata(field, h.meta) ELSE field
        /\ params' = IF "mode" \in h.mask THEN SetMode(params, h.word) ELSE params
    BY <1>7 DEF ReadHeader
  <2>2. HeaderOK(h)
    BY <1>7, ReadsHeader
  <2> HIDE DEF h
  <2>3. Representable(SetMode(params, h.word))
    BY <2>2, WordRepresentable DEF SetMode, SetParams, HeaderOK, StructsOK
  <2>4. "meta" \in h.mask => WellFormed(SetMetadata(field, h.meta))
    BY <2>2, MetadataShape, ShapeRead DEF HeaderOK
  <2> QED
    BY <2>1, <2>3, <2>4 DEF StructsOK
<1>8. CASE \/ Damage \/ Rewind \/ Compress \/ Decompress
           \/ \E policy \in Policies : UseExecution(policy)
           \/ \E member \in {"threads", "chunk_size"} : UseOmp(member)
           \/ \E mask \in Masks : WriteHeader(mask) \/ ReadNoHeader(mask)
           \/ UNCHANGED vars
  <2>1. params' = params /\ field' = field
    BY <1>8 DEF Damage, Rewind, Compress, Decompress, UseExecution, UseOmp,
                WriteHeader, ReadNoHeader, vars
  <2> QED
    BY <2>1 DEF StructsOK
<1> QED
  BY <1>1, <1>2, <1>3, <1>4, <1>5, <1>6, <1>7, <1>8 DEF Next

LEMMA NextHeaderFaithful ==
  ASSUME HeaderInv, [Next]_vars
  PROVE  HeaderFaithful'
<1>1. CASE ReadHeader
  <2> DEFINE h == items[pos + 1]
             fails == "mode" \in h.mask /\ SetModeFails(params, h.word)
  <2>1. /\ field' = IF "meta" \in h.mask THEN SetMetadata(field, h.meta) ELSE field
        /\ params' = IF "mode" \in h.mask THEN SetMode(params, h.word) ELSE params
        /\ source' = IF fails \/ h.mask # FullMask THEN NoItem ELSE h
    BY <1>1 DEF ReadHeader
  <2>2. HeaderOK(h)
    BY <1>1, ReadsHeader DEF HeaderInv
  <2> HIDE DEF h
  <2> SUFFICES ASSUME source' # NoItem, ~ source'.damaged
               PROVE  /\ Effective(params') = Effective(source'.params)
                      /\ Describable(source'.field) =>
                           field' = [source'.field EXCEPT !.s = NoExtents]
    BY DEF HeaderFaithful, Describable, IsSet, Readable, Effective, Dimensionality
  <2>3. source' = h /\ h.mask = FullMask /\ ~ SetModeFails(params, h.word) /\ ~ h.damaged
    BY <2>1 DEF FullMask
  <2>4. params' = WordParams(h.word) /\ field' = SetMetadata(field, h.meta)
    BY <2>1, <2>3 DEF FullMask, SetMode, SetParams, SetModeFails
  <2>5. Effective(params') = Effective(h.params)
    BY <2>2, <2>3, <2>4, CodeWordFaithful DEF HeaderOK, Representable
  <2>6. Describable(h.field) => field' = [h.field EXCEPT !.s = NoExtents]
    BY <2>2, <2>3, <2>4, MetadataRead DEF HeaderOK, FullMask, Describable
  <2> QED
    BY <2>3, <2>5, <2>6
<1>2. CASE \/ UseReversible \/ UseRate \/ UsePrecision \/ UseAccuracy \/ UseParams
           \/ ChooseField
  <2>1. source' = NoItem
    BY <1>2 DEF UseReversible, UseRate, UsePrecision, UseAccuracy, UseParams, ChangeParams,
                ChooseField
  <2> QED
    BY <2>1 DEF HeaderFaithful
<1>3. CASE \/ Damage \/ Rewind \/ Compress \/ Decompress
           \/ \E policy \in Policies : UseExecution(policy)
           \/ \E member \in {"threads", "chunk_size"} : UseOmp(member)
           \/ \E mask \in Masks : WriteHeader(mask) \/ ReadNoHeader(mask)
           \/ UNCHANGED vars
  <2>1. params' = params /\ field' = field /\ source' = source
    BY <1>3 DEF Damage, Rewind, Compress, Decompress, UseExecution, UseOmp,
                WriteHeader, ReadNoHeader, vars
  <2> QED
    BY <2>1 DEF HeaderInv, HeaderFaithful
<1> QED
  BY <1>1, <1>2, <1>3 DEF Next

LEMMA InitHeader == Init => HeaderInv
<1> SUFFICES ASSUME Init PROVE HeaderInv
  OBVIOUS
<1>1. ItemsOK
  <2>1. <<>> \in Seq({}) /\ \A x \in {} : ItemOK(x)
    OBVIOUS
  <2> QED
    BY <2>1 DEF Init, ItemsOK
<1>2. WellFormed(zfp_field_alloc)
  BY DEF WellFormed, zfp_field_alloc, NoExtents, Dimensionality
<1>3. StructsOK
  BY <1>2, SettersRepresentable DEF Init, StructsOK
<1> QED
  BY <1>1, <1>3 DEF HeaderInv, HeaderFaithful, Init

(***************************************************************************)
(* Reading a full header that is not damaged gives the stream parameters   *)
(* with which the coder does what it did for the writer, and the field its *)
(* type and extents without strides, through every sequence of calls:      *)
(* parameters that came from a header and fields that were read are        *)
(* written again, streams are damaged and overwritten, and reads fail.     *)
(***************************************************************************)
THEOREM HeaderRoundTrip == ASSUME SafeInputs PROVE Spec => []HeaderFaithful
<1>1. Init => HeaderInv
  BY InitHeader
<1>2. HeaderInv /\ [Next]_vars => HeaderInv'
  BY NextItemsOK, NextStructsOK, NextHeaderFaithful DEF HeaderInv
<1>3. HeaderInv => HeaderFaithful
  BY DEF HeaderInv
<1> QED
  BY <1>1, <1>2, <1>3, PTL DEF Spec
=============================================================================
