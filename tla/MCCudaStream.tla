---------------------------- MODULE MCCudaStream ----------------------------
\* Words of four bits, blocks from less than a word to more than two.
EXTENDS CudaStream, SequencesExt

MCMaxGrid == <<1, 5>>
Bits(x, n) == [call |-> "bits", x |-> x, n |-> n]
One(x) == [call |-> "bit", x |-> x, n |-> 1]
Exponent(x, n) == [call |-> "exponent", x |-> x, n |-> n]
Dense(n) == Bits(2 ^ wsize - 1, n)         \* the bits above the first n are set, too

\* Calls in sequence, each with its place in the block.
Placed(calls) ==
  [i \in 1 .. Len(calls) |->
     LET c == calls[i]
     IN  [call |-> c.call, x |-> c.x, n |-> c.n,
          at |-> FoldLeft(LAMBDA sum, e : sum + e.n, 0, SubSeq(calls, 1, i - 1))]]

\* Codes that fill a block of m bits, or not; integer blocks begin with no bits.
Codes(m) ==
  { Placed(calls) : calls \in
    { <<Dense(0), Dense(m)>>, <<Dense(0), One(1), Dense(m - 1)>>, <<Dense(0), One(0)>>,
      <<Dense(0), One(1), Dense((m - 1) \div 2), One(1)>> } }
FloatCodes(m) ==
  { Placed(calls) : calls \in
    { <<>>, <<Exponent(5, 3), Dense(Min({wsize, m - 3}))>>, <<Exponent(7, 3), One(1)>> } }

Fields(gpu, m, d, type, count, codes) ==
  { [gpu |-> gpu, d |-> d, type |-> type, maxbits |-> m, codes |-> c] : c \in [1 .. count -> codes] }
Integers_(gpu, m, d, count) == Fields(gpu, m, d, "int", count, Codes(m))
Floats(gpu, m, d, count) == Fields(gpu, m, d, "float", count, FloatCodes(m))

MCJobs ==
  Integers_("cuda", 4, 1, 2) \cup Integers_("cuda", 3, 1, 3) \cup Integers_("cuda", 3, 2, 2)
  \cup Integers_("cuda", 2, 3, 2)
  \cup Floats("cuda", 6, 2, 2) \cup Floats("cuda", 5, 1, 2) \cup Floats("cuda", 6, 3, 2)
  \cup UNION { Fields("cuda", 3, 1, "int", count, {Placed(<<Dense(3)>>)}) : count \in 4 .. 6 }
  \cup Integers_("metal", 4, 1, 2) \cup Integers_("metal", 3, 1, 3)
  \cup Floats("metal", 5, 2, 2) \cup Floats("metal", 8, 3, 2)
\* Three-dimensional CUDA streams of whole words only, and no Metal blocks of odd half words.
ASSUME JobsAreSafe == SafeJobs
=============================================================================
