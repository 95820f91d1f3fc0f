----------------------------- MODULE BitStream -----------------------------
(***************************************************************************)
(* The bit stream (bitstream.inl): bits are buffered, and read and written *)
(* in memory a word at a time.  All arithmetic is that of the code, on     *)
(* words of wsize bits and values of ValueBits bits; a shift that C does   *)
(* not define is recorded.                                                 *)
(***************************************************************************)
EXTENDS Integers, Functions

CONSTANTS
  Widths,       \* the widths a word may be built with
  ValueBits,    \* width of a value: 64
  Size,         \* number of bits of the stream
  Values,       \* the values written
  Source        \* Source[k]: bit k of a stream that is copied from

VARIABLES
  wsize,        \* bits of a word, fixed when the library is built
  s,            \* the stream: bits, buffer, ptr, and mem, its memory
  mode,         \* how it is used: "read", "write", or "both"
  ret,          \* what the last call returned
  undefined     \* has a shift been undefined?

vars == <<wsize, s, mode, ret, undefined>>

ASSUME WidthsAssumption ==
  /\ Size \in Nat
  /\ \A w \in Widths : w \in 2 .. ValueBits /\ Size % w = 0

WordRange == 2^wsize
ValueRange == 2^ValueBits

\* The shifts of C on types of w bits, whether they are defined, and the
\* masking of a value with p - 1 for a power of two p that may have wrapped.
Shl(v, k, w) == IF k \in 0 .. (w - 1) THEN (v * 2^k) % 2^w ELSE 0
Shr(v, k) == IF k >= 0 THEN v \div 2^k ELSE 0
Bad(k, w) == k \notin 0 .. (w - 1)
Masked(v, p) == IF p = 0 THEN v ELSE v % p

ReadWord(t) == t.mem[t.ptr]
\* The stream after it has written its buffer to memory.
Written(t) == [t EXCEPT !.mem[t.ptr] = t.buffer, !.ptr = @ + 1]

Wtell(t) == t.ptr * wsize + t.bits
Rtell(t) == t.ptr * wsize - t.bits

\* The result of an operation: the stream, the value returned, and whether
\* a shift was undefined.
Result(t, value, bad) == [stream |-> t, value |-> value, bad |-> bad]

\* The loop of stream_read_bits that fetches words until n bits are there.
RECURSIVE Fetch(_, _, _, _)
Fetch(t, value, n, bad) ==
  LET w == ReadWord(t)
      u == [t EXCEPT !.buffer = w, !.ptr = @ + 1, !.bits = @ + wsize]
      sum == (value + Shl(w, t.bits, ValueBits)) % ValueRange
      worse == bad \/ Bad(t.bits, ValueBits)
  IN  IF wsize < ValueBits /\ u.bits < n THEN Fetch(u, sum, n, worse)
      ELSE Result(u, sum, worse)

\* stream_read_bits
ReadBits(t, n) ==
  IF t.bits < n
  THEN LET f == Fetch(t, t.buffer, n, FALSE)
           left == f.stream.bits - n
       IN  IF left = 0
           THEN Result([f.stream EXCEPT !.bits = 0, !.buffer = 0], f.value, f.bad)
           ELSE Result([f.stream EXCEPT !.bits = left, !.buffer = Shr(@, wsize - left)],
                  Masked(f.value, Shl(2, n - 1, ValueBits)),
                  f.bad \/ Bad(wsize - left, wsize) \/ Bad(n - 1, ValueBits))
  ELSE Result([t EXCEPT !.bits = @ - n, !.buffer = Shr(@, n)],
         Masked(t.buffer, Shl(1, n, ValueBits)), Bad(n, wsize))

\* stream_read_bit
ReadBit(t) ==
  LET u == IF t.bits = 0
           THEN [t EXCEPT !.buffer = ReadWord(t), !.ptr = @ + 1, !.bits = wsize]
           ELSE t
  IN  Result([u EXCEPT !.bits = @ - 1, !.buffer = Shr(@, 1)], u.buffer % 2,
        Bad(1, wsize))

\* The loop of stream_write_bits that writes words while the buffer is full.
RECURSIVE Output(_, _, _, _)
Output(t, value, n, bad) ==
  LET u == Written([t EXCEPT !.bits = @ - wsize])
      w == [u EXCEPT !.buffer = Shr(value, n - u.bits) % WordRange]
      worse == bad \/ Bad(n - u.bits, ValueBits)
  IN  IF wsize < ValueBits /\ w.bits >= wsize THEN Output(w, value, n, worse)
      ELSE Result(w, Shr(value, n), worse \/ Bad(n, ValueBits))

\* The stream with value appended to its buffer, as far as it fits.
Appended(t, value, n) ==
  [t EXCEPT !.buffer = (@ + Shl(value, t.bits, ValueBits)) % WordRange, !.bits = @ + n]

\* Mutant: n and value are not adjusted before the shifts.
WriteBitsUnadjusted(t, value, n) ==
  LET u == Appended(t, value, n)
      f == IF u.bits >= wsize THEN Output(u, value, n, FALSE)
           ELSE Result(u, Shr(value, n), Bad(n, ValueBits))
  IN  Result([f.stream EXCEPT !.buffer = Masked(@, Shl(1, f.stream.bits, wsize))],
        f.value, f.bad \/ Bad(t.bits, ValueBits))

\* stream_write_bits
WriteBits(t, value, n) ==
  LET u == Appended(t, value, n)
      f == IF u.bits >= wsize THEN Output(u, Shr(value, 1), n - 1, FALSE)
           ELSE Result(u, Shr(value, n), Bad(n, ValueBits))
  IN  Result([f.stream EXCEPT !.buffer = Masked(@, Shl(1, f.stream.bits, wsize))],
        f.value, f.bad \/ Bad(t.bits, ValueBits))

\* stream_write_bit
WriteBit(t, bit) ==
  LET u == [t EXCEPT !.buffer = (@ + Shl(bit, t.bits, wsize)) % WordRange, !.bits = @ + 1]
  IN  Result(IF u.bits = wsize THEN [Written(u) EXCEPT !.buffer = 0, !.bits = 0] ELSE u,
        bit, Bad(t.bits, wsize))

\* stream_rewind
Rewound(t) == [t EXCEPT !.ptr = 0, !.buffer = 0, !.bits = 0]

\* stream_rseek and stream_wseek
Rseek(t, offset) ==
  LET n == offset % wsize
      u == [t EXCEPT !.ptr = offset \div wsize]
  IN  IF n = 0 THEN [u EXCEPT !.buffer = 0, !.bits = 0]
      ELSE [u EXCEPT !.buffer = Shr(ReadWord(u), n), !.bits = wsize - n, !.ptr = @ + 1]
\* Mutant: the bits of the word before the offset are not kept.
WseekClears(t, offset) ==
  [t EXCEPT !.ptr = offset \div wsize, !.buffer = 0, !.bits = offset % wsize]
Wseek(t, offset) ==
  LET n == offset % wsize
      u == [t EXCEPT !.ptr = offset \div wsize]
  IN  IF n = 0 THEN [u EXCEPT !.buffer = 0, !.bits = 0]
      ELSE [u EXCEPT !.buffer = Masked(ReadWord(u), Shl(1, n, wsize)), !.bits = n]

\* stream_pad: total counts the bits still to be written.
RECURSIVE Padded(_, _)
Padded(t, total) ==
  IF total >= wsize
  THEN Padded([Written(t) EXCEPT !.buffer = 0], total - wsize)
  ELSE [t EXCEPT !.bits = total]

\* stream_copy
RECURSIVE Copied(_, _, _, _)
Copied(dst, src, n, bad) ==
  LET m == IF n > wsize THEN wsize ELSE n
      r == ReadBits(src, m)
      w == WriteBits(dst, r.value % WordRange, m)
  IN  IF n = 0 THEN Result(dst, 0, bad)
      ELSE Copied(w.stream, r.stream, n - m, bad \/ r.bad \/ w.bad)

-----------------------------------------------------------------------------
\* stream_open on memory of any contents.
Init ==
  /\ wsize \in Widths
  /\ s \in [bits : {0}, buffer : {0}, ptr : {0},
            mem : [0 .. (Size \div wsize - 1) -> 0 .. (WordRange - 1)]]
  /\ mode = "both"
  /\ ret = 0
  /\ undefined = FALSE

\* The rules of use: a call that writes n bits is made in write mode, one
\* that reads n bits in read mode, and neither goes beyond the memory.
MayWrite(n) == mode # "read" /\ Wtell(s) + n <= Size
MayRead(n) == mode # "write" /\ Rtell(s) + n <= Size
\* "When done writing, call stream_flush"
MayReposition == mode = "write" => s.bits = 0

\* A call that leaves the stream in mode m with result r.
Called(r, m) ==
  /\ s' = r.stream
  /\ ret' = r.value
  /\ undefined' = (undefined \/ r.bad)
  /\ mode' = m
  /\ UNCHANGED wsize

StreamWriteBits(value, n) == MayWrite(n) /\ Called(WriteBits(s, value, n), "write")
StreamWriteBit(bit) == MayWrite(1) /\ Called(WriteBit(s, bit), "write")
StreamPad(n) == MayWrite(n) /\ Called(Result(Padded(s, s.bits + n), 0, FALSE), "write")

StreamFlush ==
  LET n == (wsize - s.bits) % wsize
  IN  /\ MayWrite(n)
      /\ Called(Result(IF n = 0 THEN s ELSE Padded(s, s.bits + n), n, FALSE), "write")

SourceWords ==
  [w \in 0 .. (Size \div wsize - 1) |->
    FoldFunction(+, 0, [i \in 0 .. (wsize - 1) |-> Source[w * wsize + i] * 2^i])]

\* The stream copied from is sought to the bit from.
StreamCopy(from, n) ==
  LET src == Rseek([bits |-> 0, buffer |-> 0, ptr |-> 0,
                    mem |-> SourceWords], from)
  IN  MayWrite(n) /\ Called(Copied(s, src, n, FALSE), "write")

StreamReadBits(n) == MayRead(n) /\ Called(ReadBits(s, n), "read")
StreamReadBit == MayRead(1) /\ Called(ReadBit(s), "read")
StreamSkip(n) == MayRead(n) /\ Called(Result(Rseek(s, Rtell(s) + n), 0, FALSE), "read")

StreamAlign ==
  /\ MayRead(s.bits)
  /\ Called(Result(IF s.bits = 0 THEN s ELSE Rseek(s, Rtell(s) + s.bits), s.bits, FALSE),
            "read")

StreamRewind == MayReposition /\ Called(Result(Rewound(s), 0, FALSE), "both")
StreamRseek(offset) == MayReposition /\ Called(Result(Rseek(s, offset), 0, FALSE), "read")
StreamWseek(offset) == MayReposition /\ Called(Result(Wseek(s, offset), 0, FALSE), "write")

Next ==
  \/ \E n \in 0 .. ValueBits : \E value \in Values : StreamWriteBits(value, n)
  \/ \E bit \in {0, 1} : StreamWriteBit(bit)
  \/ \E n \in 0 .. Size : StreamPad(n)
  \/ StreamFlush
  \/ \E from \in 0 .. Size : \E n \in 0 .. (Size - from) : StreamCopy(from, n)
  \/ \E n \in 0 .. ValueBits : StreamReadBits(n)
  \/ StreamReadBit
  \/ \E n \in 0 .. Size : StreamSkip(n)
  \/ StreamAlign
  \/ StreamRewind
  \/ \E offset \in 0 .. Size : StreamRseek(offset) \/ StreamWseek(offset)

Spec == Init /\ [][Next]_vars

-----------------------------------------------------------------------------
BitOf(value, i) == (value \div 2^i) % 2

\* The bits of the stream: those in memory and, while writing, those buffered.
Contents ==
  [k \in 0 .. (Size - 1) |->
    LET w == k \div wsize
        i == k % wsize
    IN  IF mode = "write" /\ w = s.ptr /\ i < s.bits
        THEN BitOf(s.buffer, i)
        ELSE BitOf(s.mem[w], i)]

Position == IF mode = "write" THEN Wtell(s) ELSE Rtell(s)

\* "all shifts are between zero and one less the width of the type being
\* shifted", for every number of bits from 0 to the width of a value at every
\* fill of the buffer.
ShiftsDefined == ~undefined

Tape == INSTANCE BitTape WITH
  unit <- wsize,
  tape <- Contents,
  pos <- Position

\* Buffering is invisible: every call does to the bits of the stream, to the
\* position and in what it returns what a tape of bits would do.
ImplementsBitTape == Tape!Spec

=============================================================================
