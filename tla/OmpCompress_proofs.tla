------------------------- MODULE OmpCompress_proofs -------------------------
(***************************************************************************)
(* For any number of blocks, threads and chunks: the chunks partition the  *)
(* blocks and none is empty; the buffer of a chunk holds what its blocks   *)
(* are encoded to; compress_finish_par frees each buffer that              *)
(* compress_init_par allocated exactly once, and nothing else; and the     *)
(* stream is the one that serial compression leaves.                       *)
(*                                                                         *)
(* The last two are of a stream that is at its beginning or inside a word  *)
(* when zfp_compress is called: TLC refutes BuffersOwned for one that is   *)
(* at the beginning of a later word, and what free() then does to memory   *)
(* is not modelled.                                                        *)
(***************************************************************************)
EXTENDS OmpCompress, WellFoundedInduction, TLAPS

\* Division with remainder by a positive divisor.
LEMMA DivMod ==
  ASSUME NEW n \in Nat, NEW d \in Nat \ {0}
  PROVE  /\ n \div d \in Nat
         /\ n % d \in 0 .. (d - 1)
         /\ n = d * (n \div d) + (n % d)
  OBVIOUS

\* Quotient and remainder are determined by the equation they satisfy.
LEMMA DivModUnique ==
  ASSUME NEW d \in Nat \ {0}, NEW q \in Nat, NEW r \in 0 .. (d - 1)
  PROVE  (d * q + r) \div d = q /\ (d * q + r) % d = r
<1> DEFINE n == d * q + r
           p == n \div d
           t == n % d
<1>1. n \in Nat
  OBVIOUS
<1>2. p \in Nat /\ t \in 0 .. (d - 1) /\ n = d * p + t
  BY <1>1, DivMod
<1>3. d * q + r = d * p + t
  BY <1>2
<1> HIDE DEF n, p, t
<1>4. p = q
  <2>1. CASE p < q
    <3>1. d * p + d <= d * q
      BY <1>2, <2>1
    <3> QED
      BY <1>2, <1>3, <3>1
  <2>2. CASE q < p
    <3>1. d * q + d <= d * p
      BY <1>2, <2>2
    <3> QED
      BY <1>2, <1>3, <3>1
  <2> QED
    BY <1>2, <2>1, <2>2
<1>5. t = r
  BY <1>2, <1>3, <1>4
<1> QED
  BY <1>4, <1>5 DEF n, p, t

\* Rounding up to a multiple does not make a number smaller.
LEMMA MultipleAbove ==
  ASSUME NEW n \in Nat, NEW m \in Nat \ {0}
  PROVE  /\ ((n + m - 1) \div m) * m \in Nat
         /\ n <= ((n + m - 1) \div m) * m
         /\ n % m = 0 => ((n + m - 1) \div m) * m = n
<1> DEFINE l == n + m - 1
           q == l \div m
<1>1. l \in Nat
  OBVIOUS
<1>2. q \in Nat /\ l % m \in 0 .. (m - 1) /\ l = m * q + (l % m)
  <2> HIDE DEF l
  <2> QED
    BY <1>1, DivMod
<1>3. q * m \in Nat /\ q * m = m * q
  <2> HIDE DEF q
  <2> QED
    BY <1>2
<1>4. n <= q * m
  <2> HIDE DEF q
  <2> QED
    BY <1>2, <1>3
<1>5. ASSUME n % m = 0
      PROVE  q * m = n
  <2> DEFINE p == n \div m
  <2>1. p \in Nat /\ n = m * p
    BY <1>5, DivMod
  <2>2. m - 1 \in 0 .. (m - 1)
    OBVIOUS
  <2>3. l = m * p + (m - 1)
    BY <2>1
  <2> HIDE DEF p, l
  <2>4. q = p
    BY <2>1, <2>2, <2>3, DivModUnique
  <2> HIDE DEF q
  <2> QED
    BY <1>3, <2>1, <2>4
<1> QED
  BY <1>3, <1>4, <1>5

-----------------------------------------------------------------------------
\* A set of natural numbers that is not empty has a least element.
LEMMA LeastElement ==
  ASSUME NEW T \in SUBSET Nat, T # {}
  PROVE  \E n \in T : \A m \in T : n <= m
<1> DEFINE R == OpToRel(<, Nat)
<1>1. IsWellFoundedOn(R, Nat)
  BY NatLessThanWellFounded
<1>2. \A x, y \in Nat : x < y => <<x, y>> \in R
  BY DEF OpToRel
<1> HIDE DEF R
<1>3. PICK n \in T : \A m \in T : ~ (<<m, n>> \in R)
  BY <1>1, WFMin
<1>4. ASSUME NEW m \in T
      PROVE  n <= m
  <2>1. m \in Nat /\ n \in Nat /\ ~ (m < n)
    BY <1>2, <1>3
  <2> QED
    BY <2>1
<1> QED
  BY <1>4

\* A set that holds 0, and with n also n + 1, holds every number.
LEMMA SetInduction ==
  ASSUME NEW T \in SUBSET Nat, 0 \in T, \A n \in T : n + 1 \in T
  PROVE  T = Nat
<1> SUFFICES ASSUME Nat \ T # {} PROVE FALSE
  OBVIOUS
<1>1. PICK n \in Nat \ T : \A m \in Nat \ T : n <= m
  BY LeastElement
<1>2. n - 1 \in T
  BY <1>1
<1> QED
  BY <1>1, <1>2

-----------------------------------------------------------------------------
\* f[n] is the sum of the first n elements of s.
IsSumOf(f, s) ==
  f = [n \in Nat |-> IF n = 0 THEN 0 ELSE f[n - 1] + s[n - 1]]

\* The same of the numbers up to m.
IsSumUpTo(m, g, s) ==
  g = [n \in 0 .. m |-> IF n = 0 THEN 0 ELSE g[n - 1] + s[n - 1]]

LEMMA SumUpToExists ==
  ASSUME NEW s, NEW m \in Nat
  PROVE  \E g : IsSumUpTo(m, g, s)
<1> DEFINE T == {n \in Nat : \E g : IsSumUpTo(n, g, s)}
<1>1. 0 \in T
  <2>1. IsSumUpTo(0, [n \in 0 .. 0 |-> 0], s)
    BY DEF IsSumUpTo
  <2> QED
    BY <2>1
<1>2. ASSUME NEW n \in T PROVE n + 1 \in T
  <2>1. PICK g : IsSumUpTo(n, g, s)
    OBVIOUS
  <2> DEFINE h == [j \in 0 .. (n + 1) |-> IF j = n + 1 THEN g[n] + s[n] ELSE g[j]]
  <2>2. n \in Nat
    OBVIOUS
  <2>3. ASSUME NEW j \in 0 .. (n + 1)
        PROVE  h[j] = IF j = 0 THEN 0 ELSE h[j - 1] + s[j - 1]
    <3>1. CASE j = n + 1
      BY <2>2, <3>1
    <3>2. CASE j \in 0 .. n
      BY <2>1, <2>2, <3>2 DEF IsSumUpTo
    <3> QED
      BY <2>2, <3>1, <3>2
  <2>4. IsSumUpTo(n + 1, h, s)
    <3>1. h = [j \in 0 .. (n + 1) |-> h[j]]
      OBVIOUS
    <3> HIDE DEF h
    <3> QED
      BY <2>3, <3>1 DEF IsSumUpTo
  <2> QED
    BY <2>2, <2>4
<1>3. T = Nat
  <2>1. T \in SUBSET Nat
    OBVIOUS
  <2> HIDE DEF T
  <2> QED
    BY <1>1, <1>2, <2>1, SetInduction
<1> QED
  BY <1>3

LEMMA SumUpToUnique ==
  ASSUME NEW s, NEW m \in Nat, NEW n \in Nat,
         NEW g, NEW h, IsSumUpTo(m, g, s), IsSumUpTo(n, h, s),
         NEW j \in Nat, j <= m, j <= n
  PROVE  g[j] = h[j]
<1> DEFINE T == {i \in Nat : i <= m /\ i <= n /\ g[i] # h[i]}
<1> SUFFICES ASSUME T # {} PROVE FALSE
  OBVIOUS
<1>1. PICK i \in T : \A k \in T : i <= k
  BY LeastElement
<1>2. i \in 0 .. m /\ i \in 0 .. n
  BY <1>1
<1>3. i # 0
  BY <1>1, <1>2 DEF IsSumUpTo
<1>4. i - 1 \in Nat /\ i - 1 <= m /\ i - 1 <= n /\ ~ (i <= i - 1)
  BY <1>2, <1>3
<1>5. g[i - 1] = h[i - 1]
  BY <1>1, <1>4
<1>6. g[i] = g[i - 1] + s[i - 1] /\ h[i] = h[i - 1] + s[i - 1]
  BY <1>2, <1>3 DEF IsSumUpTo
<1> QED
  BY <1>1, <1>5, <1>6

\* There is a function that sums.
LEMMA SumExists ==
  ASSUME NEW s
  PROVE  \E f : IsSumOf(f, s)
<1> DEFINE G(n) == CHOOSE g : IsSumUpTo(n, g, s)
           F == [n \in Nat |-> G(n)[n]]
<1>1. ASSUME NEW n \in Nat
      PROVE  IsSumUpTo(n, G(n), s)
  BY SumUpToExists
<1> HIDE DEF G
<1>2. ASSUME NEW n \in Nat
      PROVE  F[n] = IF n = 0 THEN 0 ELSE F[n - 1] + s[n - 1]
  <2>1. n \in 0 .. n
    OBVIOUS
  <2>2. CASE n = 0
    BY <1>1, <2>1, <2>2 DEF IsSumUpTo
  <2>3. CASE n # 0
    <3>1. n - 1 \in Nat /\ n - 1 <= n /\ n - 1 <= n - 1
      BY <2>3
    <3>2. G(n)[n] = G(n)[n - 1] + s[n - 1]
      BY <1>1, <2>1, <2>3 DEF IsSumUpTo
    <3>3. G(n)[n - 1] = G(n - 1)[n - 1]
      BY <1>1, <3>1, SumUpToUnique
    <3> QED
      BY <2>3, <3>1, <3>2, <3>3
  <2> QED
    BY <2>2, <2>3
<1>3. F = [n \in Nat |-> F[n]]
  OBVIOUS
<1> HIDE DEF F
<1>4. IsSumOf(F, s)
  BY <1>2, <1>3 DEF IsSumOf
<1> QED
  BY <1>4

\* What the sums of natural numbers are.
LEMMA SumFacts ==
  ASSUME NEW s, NEW f, IsSumOf(f, s),
         NEW N \in Nat, \A b \in 0 .. (N - 1) : s[b] \in Nat
  PROVE  /\ f[0] = 0
         /\ \A n \in 0 .. N : f[n] \in Nat
         /\ \A n \in 0 .. (N - 1) : f[n + 1] = f[n] + s[n]
<1>1. f[0] = 0
  BY DEF IsSumOf
<1>2. ASSUME NEW n \in Nat
      PROVE  f[n + 1] = f[n] + s[n]
  <2>1. n + 1 \in Nat /\ n + 1 # 0 /\ (n + 1) - 1 = n
    OBVIOUS
  <2>2. f[n + 1] = f[(n + 1) - 1] + s[(n + 1) - 1]
    BY <2>1 DEF IsSumOf
  <2> QED
    BY <2>1, <2>2
<1>3. ASSUME NEW n \in 0 .. N
      PROVE  f[n] \in Nat
  <2> DEFINE T == {m \in Nat : m <= N => f[m] \in Nat}
  <2>1. T \in SUBSET Nat /\ 0 \in T
    BY <1>1
  <2>2. ASSUME NEW m \in T
        PROVE  m + 1 \in T
    BY <1>2
  <2>3. T = Nat
    <3> HIDE DEF T
    <3> QED
      BY <2>1, <2>2, SetInduction
  <2> QED
    BY <2>3
<1> QED
  BY <1>1, <1>2, <1>3

\* Sums ascend, by at most M for each element when no element exceeds M.
LEMMA SumGrowth ==
  ASSUME NEW s, NEW f, IsSumOf(f, s),
         NEW N \in Nat, NEW M \in Nat,
         \A b \in 0 .. (N - 1) : s[b] \in Nat /\ s[b] <= M,
         NEW m \in 0 .. N, NEW n \in 0 .. N, m <= n
  PROVE  f[m] <= f[n] /\ f[n] <= f[m] + (n - m) * M
<1>1. /\ \A i \in 0 .. N : f[i] \in Nat
      /\ \A i \in 0 .. (N - 1) : f[i + 1] = f[i] + s[i]
  BY SumFacts
<1> DEFINE T == {d \in Nat : m + d <= N =>
                   f[m] <= f[m + d] /\ f[m + d] <= f[m] + d * M}
<1>2. 0 \in T
  BY <1>1
<1>3. ASSUME NEW d \in T
      PROVE  d + 1 \in T
  <2>1. CASE m + (d + 1) <= N
    <3>1. m + d \in 0 .. (N - 1) /\ (m + d) + 1 = m + (d + 1)
      BY <2>1
    <3>2. f[m] <= f[m + d] /\ f[m + d] <= f[m] + d * M
      BY <2>1
    <3>3. f[m + (d + 1)] = f[m + d] + s[m + d]
      BY <1>1, <3>1
    <3>4. f[m] \in Nat /\ f[m + d] \in Nat /\ s[m + d] \in Nat /\ s[m + d] <= M
      BY <1>1, <3>1
    <3>5. (d + 1) * M = d * M + M /\ d * M \in Nat
      OBVIOUS
    <3> QED
      BY <3>2, <3>3, <3>4, <3>5
  <2>2. CASE ~ (m + (d + 1) <= N)
    BY <2>2
  <2> QED
    BY <2>1, <2>2
<1>4. T = Nat
  <2>1. T \in SUBSET Nat
    OBVIOUS
  <2> HIDE DEF T
  <2> QED
    BY <1>2, <1>3, <2>1, SetInduction
<1>5. n - m \in Nat /\ m + (n - m) = n
  OBVIOUS
<1> HIDE DEF T
<1>6. n - m \in T
  BY <1>4, <1>5
<1> QED
  BY <1>5, <1>6 DEF T

\* The sum of equal elements is a multiple.
LEMMA SumConstant ==
  ASSUME NEW s, NEW f, IsSumOf(f, s),
         NEW N \in Nat, NEW M \in Nat,
         \A b \in 0 .. (N - 1) : s[b] = M,
         NEW n \in 0 .. N
  PROVE  f[n] = n * M
<1>1. /\ f[0] = 0
      /\ \A i \in 0 .. (N - 1) : f[i + 1] = f[i] + s[i]
  BY SumFacts
<1> DEFINE T == {m \in Nat : m <= N => f[m] = m * M}
<1>2. 0 \in T
  BY <1>1
<1>3. ASSUME NEW m \in T
      PROVE  m + 1 \in T
  <2>1. CASE m + 1 <= N
    <3>1. m \in 0 .. (N - 1) /\ f[m] = m * M
      BY <2>1
    <3>2. f[m + 1] = m * M + M
      BY <1>1, <3>1
    <3> QED
      BY <3>2
  <2>2. CASE ~ (m + 1 <= N)
    BY <2>2
  <2> QED
    BY <2>1, <2>2
<1>4. T = Nat
  <2>1. T \in SUBSET Nat
    OBVIOUS
  <2> HIDE DEF T
  <2> QED
    BY <1>2, <1>3, <2>1, SetInduction
<1> QED
  BY <1>4

-----------------------------------------------------------------------------
\* A number between the ends of a list of cuts is between two cuts.
LEMMA BetweenCuts ==
  ASSUME NEW f, NEW N \in Nat, \A n \in 0 .. N : f[n] \in Nat,
         NEW k \in Nat, f[0] <= k, k < f[N]
  PROVE  \E b \in 0 .. (N - 1) : f[b] <= k /\ k < f[b + 1]
<1> DEFINE T == {n \in 0 .. N : k < f[n]}
<1>1. N \in T /\ T \in SUBSET Nat
  OBVIOUS
<1>2. PICK n \in T : \A m \in T : n <= m
  BY <1>1, LeastElement
<1>3. n # 0
  <2>1. f[0] \in Nat /\ ~ (k < f[0])
    OBVIOUS
  <2> QED
    BY <1>2, <2>1
<1>4. n - 1 \in 0 .. (N - 1) /\ n - 1 \in 0 .. N /\ (n - 1) + 1 = n
  BY <1>2, <1>3
<1>5. ~ (k < f[n - 1]) /\ f[n - 1] \in Nat
  BY <1>2, <1>4
<1>6. f[n - 1] <= k /\ k < f[(n - 1) + 1]
  BY <1>2, <1>4, <1>5
<1> QED
  BY <1>4, <1>6

\* The element of s whose interval between sums holds k: there is one, and
\* no other.
LEMMA SumOwner ==
  ASSUME NEW s, NEW f, IsSumOf(f, s),
         NEW N \in Nat, NEW M \in Nat,
         \A b \in 0 .. (N - 1) : s[b] \in Nat /\ s[b] <= M,
         NEW k \in Nat, k < f[N]
  PROVE  \E b \in 0 .. (N - 1) :
           /\ f[b] <= k /\ k < f[b + 1]
           /\ \A c \in 0 .. (N - 1) : f[c] <= k /\ k < f[c + 1] => c = b
<1>1. f[0] = 0 /\ \A n \in 0 .. N : f[n] \in Nat
  BY SumFacts
<1>2. PICK b \in 0 .. (N - 1) : f[b] <= k /\ k < f[b + 1]
  BY <1>1, BetweenCuts
<1>3. ASSUME NEW c \in 0 .. (N - 1), f[c] <= k, k < f[c + 1]
      PROVE  c = b
  <2>1. /\ b \in 0 .. N /\ b + 1 \in 0 .. N
        /\ c \in 0 .. N /\ c + 1 \in 0 .. N
    OBVIOUS
  <2>2. CASE c < b
    <3>1. c + 1 <= b
      BY <2>2
    <3>2. f[c + 1] <= f[b]
      BY <2>1, <3>1, SumGrowth
    <3> QED
      BY <1>1, <1>2, <1>3, <2>1, <3>2
  <2>3. CASE b < c
    <3>1. b + 1 <= c
      BY <2>3
    <3>2. f[b + 1] <= f[c]
      BY <2>1, <3>1, SumGrowth
    <3> QED
      BY <1>1, <1>2, <1>3, <2>1, <3>2
  <2> QED
    BY <2>2, <2>3
<1> QED
  BY <1>2, <1>3

-----------------------------------------------------------------------------

\* Streams begin at bit 0 or inside a word.
SafeStart == \A k \in Starts : k = 0 \/ k % WordBits # 0

\* Blocks n to be cut in k <= n chunks: cut c + 1 is after cut c.
LEMMA CutsAscend ==
  ASSUME NEW n \in Nat, NEW k \in Nat \ {0}, k <= n, NEW c \in Nat
  PROVE  (n * c) \div k < (n * (c + 1)) \div k
<1> DEFINE l == n * c
           p == l \div k
           q == (l + n) \div k
<1>1. l \in Nat /\ n * (c + 1) = l + n
  OBVIOUS
<1> HIDE DEF l
<1>2. p \in Nat /\ l % k \in 0 .. (k - 1) /\ l = k * p + (l % k)
  BY <1>1, DivMod
<1>3. q \in Nat /\ (l + n) % k \in 0 .. (k - 1) /\ l + n = k * q + ((l + n) % k)
  <2>1. l + n \in Nat
    BY <1>1
  <2> QED
    BY <2>1, DivMod
<1> HIDE DEF p, q
<1>4. SUFFICES ASSUME q <= p PROVE FALSE
  BY <1>1, <1>2, <1>3 DEF l, p, q
<1>5. k * q <= k * p /\ k * q \in Nat /\ k * p \in Nat
  BY <1>2, <1>3, <1>4
<1> QED
  BY <1>1, <1>2, <1>3, <1>5

-----------------------------------------------------------------------------
\* What zfp_compress was called with.
CallOK == blocks \in Nat \ {0} /\ threads \in Nat \ {0} /\ chunkSize \in Nat

LEMMA ChunksFacts ==
  ASSUME CallOK
  PROVE  Chunks \in Nat \ {0} /\ Chunks <= blocks
<1>1. CASE chunkSize # 0
  <2> DEFINE m == blocks + chunkSize - 1
             q == m \div chunkSize
  <2>1. m \in Nat /\ chunkSize \in Nat \ {0} /\ chunkSize <= m
    BY <1>1 DEF CallOK
  <2> HIDE DEF m
  <2>2. q \in Nat /\ m % chunkSize \in 0 .. (chunkSize - 1) /\ m = chunkSize * q + (m % chunkSize)
    BY <2>1, DivMod
  <2> HIDE DEF q
  <2>3. q # 0
    BY <2>1, <2>2
  <2> QED
    BY <1>1, <2>2, <2>3 DEF Chunks, Least, CallOK, m, q
<1>2. CASE chunkSize = 0
  BY <1>2 DEF Chunks, Least, CallOK
<1> QED
  BY <1>1, <1>2

LEMMA CallPartitions ==
  ASSUME CallOK
  PROVE  ChunksPartition
<1> DEFINE k == Chunks
<1>1. k \in Nat \ {0} /\ k <= blocks /\ blocks \in Nat
  BY ChunksFacts DEF CallOK
<1> HIDE DEF k
<1>2. (blocks * 0) \div k = 0 /\ (blocks * k) \div k = blocks
  <2> DEFINE l == blocks * k
             q == l \div k
  <2>1. l \in Nat /\ l = k * blocks
    BY <1>1
  <2>2. q \in Nat /\ l % k \in 0 .. (k - 1) /\ l = k * q + (l % k)
    BY <1>1, <2>1, DivMod
  <2>3. q = blocks
    <3> HIDE DEF l
    <3>1. CASE q < blocks
      <4> HIDE DEF q
      <4>1. k * (q + 1) <= k * blocks /\ k * (q + 1) = k * q + k /\ k * q \in Nat
        BY <1>1, <2>2, <3>1
      <4> QED
        BY <1>1, <2>1, <2>2, <4>1
    <3>2. CASE blocks < q
      <4> HIDE DEF q
      <4>1. k * (blocks + 1) <= k * q /\ k * (blocks + 1) = k * blocks + k /\ k * q \in Nat
        BY <1>1, <2>2, <3>2
      <4> QED
        BY <1>1, <2>1, <2>2, <4>1
    <3> QED
      BY <1>1, <2>2, <3>1, <3>2
  <2>4. blocks * 0 = 0 /\ 0 \div k = 0
    BY <1>1
  <2> QED
    BY <2>3, <2>4
<1>3. \A c \in Nat : (blocks * c) \div k < (blocks * (c + 1)) \div k
  BY <1>1, CutsAscend
<1> QED
  BY <1>1, <1>2, <1>3 DEF ChunksPartition, ChunkOffset, ChunkIds, k

\* The call's parameters never change.
LEMMA NextCall ==
  ASSUME [Next]_vars
  PROVE  UNCHANGED call
BY DEF Next, vars, InitPar, InitParFails, OpenChunk, BufferFails, FreeChunk, GiveUp,
       StartChunk, EncodeBlock, FinishChunk, Join, FinishPar, Flush, Ended

(***************************************************************************)
(* For every number of blocks and every number of threads or chunk size    *)
(* asked for, chunk_count_omp and chunk_offset give every block to exactly *)
(* one chunk and every chunk at least one block.                           *)
(***************************************************************************)
THEOREM ChunksCoverBlocks == Spec => []ChunksPartition
<1>1. Init => CallOK
  BY DEF Init, CallOK
<1>2. CallOK /\ [Next]_vars => CallOK'
  BY NextCall DEF CallOK, call
<1>3. CallOK => ChunksPartition
  BY CallPartitions
<1> QED
  BY <1>1, <1>2, <1>3, PTL DEF Spec

-----------------------------------------------------------------------------
\* The chunks before the one that the loop has come to, and the others.
Before == {c \in ChunkIds : c < chunk}
Remaining == {c \in ChunkIds : chunk <= c}

\* The buffers allocated and the streams opened in each phase of the call: as
\* compress_init_par allocates or frees them, those of the chunks before the
\* loop's; until compress_finish_par, those of all chunks; then, those it has
\* not come to.
HeapInv ==
  /\ CallOK
  /\ start \in Starts
  /\ badFree = FALSE
  /\ chunk \in 0 .. Chunks
  /\ pc \in {"alloc", "cleanup", "parallel", "finish"} => copy = NeedsCopy
  /\ pc \in {"init", "flush", "return"} => heap = {} /\ opened = {}
  /\ pc \in {"init", "parallel"} => chunk = 0
  /\ pc = "alloc" => chunk \in ChunkIds
  /\ pc = "cleanup" => copy
  /\ pc \in {"alloc", "cleanup"} =>
       /\ heap = IF copy THEN Before ELSE {}
       /\ opened \subseteq Before
  /\ pc \in {"parallel", "finish"} =>
       /\ heap = IF copy THEN Remaining ELSE {}
       /\ opened \subseteq Remaining
  /\ pc \in {"init", "alloc", "cleanup", "parallel", "finish", "flush",
             "return", "crashed"}

LEMMA InitHeap == Init => HeapInv
<1> SUFFICES ASSUME Init PROVE HeapInv
  OBVIOUS
<1>1. CallOK
  BY DEF Init, CallOK
<1>2. 0 \in 0 .. Chunks
  BY <1>1, ChunksFacts
<1> QED
  BY <1>1, <1>2 DEF Init, HeapInv

\* compress_finish_par decides as compress_init_par did.
LEMMA SameDecision ==
  ASSUME SafeStart, start \in Starts, copy = NeedsCopy
  PROVE  FinishCopies <=> copy
BY DEF SafeStart, FinishCopies, NeedsCopy

LEMMA NextHeap ==
  ASSUME SafeStart, HeapInv, [Next]_vars
  PROVE  HeapInv'
<1>1. /\ UNCHANGED call
      /\ CallOK' /\ start' = start /\ start \in Starts
      /\ Chunks' = Chunks /\ ChunkIds' = ChunkIds /\ NeedsCopy' = NeedsCopy
      /\ Chunks \in Nat \ {0}
  BY NextCall, ChunksFacts DEF HeapInv, call, CallOK, Chunks, ChunkIds, NeedsCopy
<1>2. CASE InitPar \/ InitParFails
  <2>1. /\ pc = "init" /\ pc' \in {"alloc", "flush"} /\ copy' = NeedsCopy
        /\ UNCHANGED <<opened, heap, chunk, badFree>>
    BY <1>2 DEF InitPar, InitParFails
  <2>2. /\ chunk = 0 /\ heap = {} /\ opened = {} /\ badFree = FALSE
    BY <2>1 DEF HeapInv
  <2>3. 0 \in ChunkIds /\ Before' = {} /\ 0 \in 0 .. Chunks
    BY <1>1, <2>1, <2>2 DEF ChunkIds, Before
  <2> QED
    BY <1>1, <2>1, <2>2, <2>3 DEF HeapInv
<1>3. CASE OpenChunk
  <2>1. /\ pc = "alloc"
        /\ UNCHANGED <<copy, badFree>>
        /\ heap' = IF copy THEN heap \cup {chunk} ELSE heap
        /\ opened' \in {opened, opened \cup {chunk}}
        /\ IF chunk + 1 < Chunks THEN chunk' = chunk + 1 /\ pc' = "alloc"
                                 ELSE chunk' = 0 /\ pc' = "parallel"
    BY <1>3 DEF OpenChunk
  <2>2. /\ copy = NeedsCopy /\ badFree = FALSE
        /\ chunk \in ChunkIds /\ chunk \in Nat
        /\ heap = IF copy THEN Before ELSE {}
        /\ opened \subseteq Before
    BY <1>1, <2>1 DEF HeapInv, ChunkIds
  <2> DEFINE upTo == {c \in ChunkIds : c <= chunk}
  <2>3. Before \cup {chunk} = upTo
    BY <1>1, <2>2 DEF Before, ChunkIds
  <2>4. /\ heap' = IF copy THEN upTo ELSE {}
        /\ opened' \subseteq upTo
    BY <2>1, <2>2, <2>3
  <2>5. CASE chunk + 1 < Chunks
    <3>1. chunk' = chunk + 1 /\ pc' = "alloc"
      BY <2>1, <2>5
    <3>2. Before' = upTo
      BY <1>1, <2>2, <3>1 DEF Before, ChunkIds
    <3>3. chunk' \in ChunkIds' /\ chunk' \in 0 .. Chunks
      BY <1>1, <2>2, <2>5, <3>1 DEF ChunkIds
    <3> QED
      BY <1>1, <2>1, <2>2, <2>4, <3>1, <3>2, <3>3 DEF HeapInv
  <2>6. CASE ~(chunk + 1 < Chunks)
    <3>1. chunk' = 0 /\ pc' = "parallel"
      BY <2>1, <2>6
    <3>2. Remaining' = upTo
      BY <1>1, <2>2, <2>6, <3>1 DEF Remaining, ChunkIds
    <3>3. chunk' \in 0 .. Chunks
      BY <1>1, <3>1
    <3> QED
      BY <1>1, <2>1, <2>2, <2>4, <3>1, <3>2, <3>3 DEF HeapInv
  <2> QED
    BY <2>5, <2>6
<1>4. CASE BufferFails
  <2>1. /\ pc = "alloc" /\ pc' = "cleanup" /\ copy
        /\ UNCHANGED <<copy, opened, heap, chunk, badFree>>
    BY <1>4 DEF BufferFails
  <2>2. Before' = Before
    BY <1>1, <2>1 DEF Before
  <2> QED
    BY <1>1, <2>1, <2>2 DEF HeapInv
<1>5. CASE FreeChunk
  <2>1. pc = "cleanup" /\ chunk > 0 /\ UNCHANGED copy
    BY <1>5 DEF FreeChunk
  <2>2. /\ copy = NeedsCopy /\ copy /\ badFree = FALSE
        /\ chunk \in 0 .. Chunks /\ chunk - 1 \in ChunkIds
        /\ heap = Before /\ opened \subseteq Before
    BY <1>1, <2>1 DEF HeapInv, ChunkIds
  <2>3. CASE chunk - 1 \in opened
    <3>1. /\ badFree' = (badFree \/ chunk - 1 \notin heap)
          /\ heap' = heap \ {chunk - 1}
          /\ opened' = opened \ {chunk - 1}
          /\ chunk' = chunk - 1 /\ pc' = pc
      BY <1>5, <2>3 DEF FreeChunk
    <3>2. chunk - 1 \in heap
      BY <2>2, <2>3
    <3>3. badFree' = FALSE
      BY <2>2, <3>1, <3>2
    <3>4. Before' = Before \ {chunk - 1}
      BY <1>1, <2>2, <3>1 DEF Before, ChunkIds
    <3>5. chunk' \in 0 .. Chunks
      BY <1>1, <2>1, <2>2, <3>1
    <3> QED
      BY <1>1, <2>1, <2>2, <3>1, <3>3, <3>4, <3>5 DEF HeapInv
  <2>4. CASE chunk - 1 \notin opened
    <3>1. pc' = "crashed" /\ UNCHANGED <<opened, heap, chunk, badFree>>
      BY <1>5, <2>4 DEF FreeChunk
    <3> QED
      BY <1>1, <2>2, <3>1 DEF HeapInv
  <2> QED
    BY <2>3, <2>4
<1>6. CASE GiveUp
  <2>1. /\ pc = "cleanup" /\ chunk = 0 /\ pc' = "flush"
        /\ UNCHANGED <<copy, opened, heap, chunk, badFree>>
    BY <1>6 DEF GiveUp
  <2>2. Before = {}
    BY <2>1 DEF Before, ChunkIds
  <2>3. heap = {} /\ opened = {} /\ badFree = FALSE /\ chunk \in 0 .. Chunks
    BY <2>1, <2>2 DEF HeapInv
  <2> QED
    BY <1>1, <2>1, <2>3 DEF HeapInv
<1>7. ASSUME NEW c \in ChunkIds, StartChunk(c)
      PROVE  HeapInv'
  <2>1. /\ pc = "parallel" /\ pc' \in {"parallel", "crashed"}
        /\ UNCHANGED <<copy, opened, heap, chunk, badFree>>
    BY <1>7 DEF StartChunk
  <2>2. Remaining' = Remaining
    BY <1>1, <2>1 DEF Remaining
  <2> QED
    BY <1>1, <2>1, <2>2 DEF HeapInv
<1>8. ASSUME NEW c \in ChunkIds, EncodeBlock(c)
      PROVE  HeapInv'
  <2>1. pc = "parallel" /\ UNCHANGED <<pc, copy, opened, heap, chunk, badFree>>
    BY <1>8 DEF EncodeBlock
  <2>2. Remaining' = Remaining
    BY <1>1, <2>1 DEF Remaining
  <2> QED
    BY <1>1, <2>1, <2>2 DEF HeapInv
<1>9. ASSUME NEW c \in ChunkIds, FinishChunk(c)
      PROVE  HeapInv'
  <2>1. /\ pc = "finish" /\ pc' = "finish" /\ c = chunk /\ chunk' = chunk + 1
        /\ copy' = copy /\ opened' = opened \ {chunk}
    BY <1>9 DEF FinishChunk
  <2>2. /\ copy = NeedsCopy /\ badFree = FALSE
        /\ heap = IF copy THEN Remaining ELSE {}
        /\ opened \subseteq Remaining
    BY <2>1 DEF HeapInv
  <2>3. FinishCopies <=> copy
    BY <1>1, <2>2, SameDecision
  <2>4. chunk' \in 0 .. Chunks /\ chunk \in ChunkIds /\ chunk \in Nat
    BY <1>1, <2>1 DEF ChunkIds
  <2>5. Remaining' = Remaining \ {chunk} /\ chunk \in Remaining
    BY <1>1, <2>1, <2>4 DEF Remaining, ChunkIds
  <2>6. opened' \subseteq Remaining'
    BY <2>1, <2>2, <2>5
  <2>7. CASE copy
    <3>1. heap' = heap \ {c} /\ badFree' = (badFree \/ c \notin heap)
      BY <1>9, <2>3, <2>7 DEF FinishChunk
    <3>2. heap' = Remaining' /\ c \in heap
      BY <2>1, <2>2, <2>5, <2>7, <3>1
    <3>3. badFree' = FALSE
      BY <2>2, <3>1, <3>2
    <3> QED
      BY <1>1, <2>1, <2>2, <2>4, <2>6, <2>7, <3>2, <3>3 DEF HeapInv
  <2>8. CASE ~ copy
    <3>1. heap' = heap /\ badFree' = badFree
      BY <1>9, <2>3, <2>8 DEF FinishChunk
    <3> QED
      BY <1>1, <2>1, <2>2, <2>4, <2>6, <2>8, <3>1 DEF HeapInv
  <2> QED
    BY <2>7, <2>8
<1>10. CASE Join
  <2>1. /\ pc = "parallel" /\ pc' = "finish"
        /\ UNCHANGED <<copy, opened, heap, chunk, badFree>>
    BY <1>10 DEF Join
  <2>2. Remaining' = Remaining
    BY <1>1, <2>1 DEF Remaining
  <2> QED
    BY <1>1, <2>1, <2>2 DEF HeapInv
<1>11. CASE FinishPar
  <2>1. /\ pc = "finish" /\ chunk = Chunks /\ pc' = "flush"
        /\ UNCHANGED <<copy, opened, heap, chunk, badFree>>
    BY <1>11 DEF FinishPar
  <2>2. Remaining = {}
    BY <1>1, <2>1 DEF Remaining, ChunkIds
  <2>3. heap = {} /\ opened = {}
    BY <2>1, <2>2 DEF HeapInv
  <2> QED
    BY <1>1, <2>1, <2>3 DEF HeapInv
<1>12. CASE Flush
  <2>1. /\ pc = "flush" /\ pc' = "return"
        /\ UNCHANGED <<copy, opened, heap, chunk, badFree>>
    BY <1>12 DEF Flush
  <2> QED
    BY <1>1, <2>1 DEF HeapInv
<1>13. CASE Ended \/ UNCHANGED vars
  <2>1. UNCHANGED <<pc, copy, opened, heap, chunk, badFree>>
    BY <1>13 DEF Ended, vars
  <2>2. Remaining' = Remaining /\ Before' = Before
    BY <1>1, <2>1 DEF Remaining, Before
  <2> QED
    BY <1>1, <2>1, <2>2 DEF HeapInv
<1> QED
  BY <1>2, <1>3, <1>4, <1>5, <1>6, <1>7, <1>8, <1>9, <1>10, <1>11, <1>12, <1>13
  DEF Next

(***************************************************************************)
(* compress_finish_par frees only buffers that compress_init_par has       *)
(* allocated, although it decides anew whether there are any; and no       *)
(* buffer is left and no stream open when the call returns, also when any  *)
(* of the allocations failed and the call has compressed nothing.          *)
(***************************************************************************)
THEOREM FreesItsOwn ==
  ASSUME SafeStart
  PROVE  Spec => []BuffersOwned
<1>1. HeapInv /\ [Next]_vars => HeapInv'
  BY NextHeap
<1>2. HeapInv => BuffersOwned
  BY DEF HeapInv, BuffersOwned
<1> QED
  BY <1>1, <1>2, InitHeap, PTL DEF Spec

-----------------------------------------------------------------------------
(* The offsets of the blocks in the stream. *)

\* What zfp_compress was called with, and the sizes the blocks come to.
SizesOK ==
  /\ CallOK
  /\ start \in Starts
  /\ minbits \in Nat
  /\ maxbits \in Nat
  /\ size \in [0 .. (blocks - 1) -> minbits .. maxbits]

\* Prefix[n] is the sum of the sizes of the blocks before block n.
LEMMA PrefixSums == IsSumOf(Prefix, size)
<1>1. \E f : IsSumOf(f, size)
  BY SumExists
<1> QED
  BY <1>1 DEF Prefix, IsSumOf

LEMMA SizeFacts ==
  ASSUME SizesOK
  PROVE  /\ blocks \in Nat \ {0}
         /\ start \in Nat
         /\ \A b \in 0 .. (blocks - 1) : size[b] \in Nat /\ size[b] <= maxbits
         /\ Prefix[0] = 0
         /\ \A n \in 0 .. blocks : Prefix[n] \in Nat
         /\ \A n \in 0 .. (blocks - 1) : Prefix[n + 1] = Prefix[n] + size[n]
<1>1. blocks \in Nat \ {0} /\ start \in Nat
  BY CallAssumption DEF SizesOK, CallOK
<1>2. \A b \in 0 .. (blocks - 1) : size[b] \in Nat /\ size[b] <= maxbits
  <2>1. ASSUME NEW b \in 0 .. (blocks - 1)
        PROVE  size[b] \in Nat /\ size[b] <= maxbits
    <3>1. size[b] \in minbits .. maxbits
      BY DEF SizesOK
    <3> QED
      BY <3>1 DEF SizesOK
  <2> QED
    BY <2>1
<1>3. /\ Prefix[0] = 0
      /\ \A n \in 0 .. blocks : Prefix[n] \in Nat
      /\ \A n \in 0 .. (blocks - 1) : Prefix[n + 1] = Prefix[n] + size[n]
  BY <1>1, <1>2, PrefixSums, SumFacts
<1> QED
  BY <1>1, <1>2, <1>3

\* The offsets of the blocks ascend, by at most maxbits for each block.
LEMMA PrefixAscends ==
  ASSUME SizesOK, NEW m \in 0 .. blocks, NEW n \in 0 .. blocks, m <= n
  PROVE  /\ Prefix[m] <= Prefix[n]
         /\ Prefix[n] <= Prefix[m] + (n - m) * maxbits
<1>1. /\ maxbits \in Nat /\ blocks \in Nat
      /\ \A b \in 0 .. (blocks - 1) : size[b] \in Nat /\ size[b] <= maxbits
  BY SizeFacts DEF SizesOK
<1> QED
  BY <1>1, PrefixSums, SumGrowth

\* A chunk has at most its share of the blocks, rounded up.
LEMMA CutShare ==
  ASSUME NEW n \in Nat, NEW k \in Nat \ {0}, NEW c \in Nat
  PROVE  (n * (c + 1)) \div k <= (n * c) \div k + (n + k - 1) \div k
<1> DEFINE l == n * c
           p == l \div k
           q == (l + n) \div k
           m == n + k - 1
           e == m \div k
<1>1. l \in Nat /\ n * (c + 1) = l + n /\ m \in Nat /\ l + n \in Nat
  OBVIOUS
<1>2. /\ p \in Nat /\ l % k \in 0 .. (k - 1) /\ l = k * p + (l % k)
      /\ q \in Nat /\ (l + n) % k \in 0 .. (k - 1)
      /\ l + n = k * q + ((l + n) % k)
      /\ e \in Nat /\ m % k \in 0 .. (k - 1) /\ m = k * e + (m % k)
  <2> HIDE DEF l, m
  <2> QED
    BY <1>1, DivMod
<1>3. m = n + k - 1
  OBVIOUS
<1> HIDE DEF l, p, q, m, e
<1>4. SUFFICES ASSUME p + e + 1 <= q PROVE FALSE
  BY <1>1, <1>2 DEF l, p, q, m, e
<1>5. k * (p + e + 1) <= k * q
  BY <1>2, <1>4
<1>6. k * (p + e + 1) = k * p + k * e + k
  BY <1>2
<1>7. k * p \in Nat /\ k * e \in Nat /\ k * q \in Nat /\ l \in Nat
  BY <1>1, <1>2
<1>8. l <= k * p + (k - 1) /\ k * q <= l + n /\ n + k - 1 <= k * e + (k - 1)
  BY <1>2, <1>3, <1>7
<1> QED
  BY <1>5, <1>6, <1>7, <1>8

\* Rounding up does not make a number smaller.
LEMMA RoundUpFacts ==
  ASSUME NEW n \in Nat, NEW m \in Nat \ {0}
  PROVE  /\ RoundUp(n, m) \in Nat
         /\ n <= RoundUp(n, m)
         /\ n % m = 0 => RoundUp(n, m) = n
  BY MultipleAbove DEF RoundUp

\* The cuts of a call are block indices that ascend.
LEMMA CutFacts ==
  ASSUME CallOK
  PROVE  /\ Chunks \in Nat \ {0}
         /\ ChunkOffset(0) = 0
         /\ ChunkOffset(Chunks) = blocks
         /\ \A c \in 0 .. Chunks : ChunkOffset(c) \in 0 .. blocks
         /\ \A c \in ChunkIds : /\ ChunkOffset(c) < ChunkOffset(c + 1)
                                /\ c \in 0 .. Chunks /\ c + 1 \in 0 .. Chunks
<1>1. /\ Chunks \in Nat \ {0} /\ blocks \in Nat \ {0}
      /\ ChunkOffset(0) = 0 /\ ChunkOffset(Chunks) = blocks
  BY ChunksFacts, CallPartitions DEF CallOK, ChunksPartition
<1>2. ASSUME NEW c \in 0 .. Chunks
      PROVE  ChunkOffset(c) \in 0 .. blocks
  <2> DEFINE k == Chunks
             l == blocks * c
             q == l \div k
  <2>1. l \in Nat /\ k \in Nat \ {0} /\ c \in Nat /\ c <= k
    BY <1>1, <1>2
  <2>2. l <= k * blocks
    <3> HIDE DEF k
    <3>1. c * blocks <= k * blocks
      BY <1>1, <2>1
    <3> QED
      BY <1>1, <2>1, <3>1
  <2>3. q \in Nat /\ l % k \in 0 .. (k - 1) /\ l = k * q + (l % k)
    <3> HIDE DEF l, k
    <3> QED
      BY <2>1, DivMod
  <2> HIDE DEF k, l, q
  <2>4. q <= blocks
    <3> SUFFICES ASSUME blocks + 1 <= q PROVE FALSE
      BY <1>1, <2>3
    <3>1. k * (blocks + 1) <= k * q /\ k * (blocks + 1) = k * blocks + k
      BY <1>1, <2>1, <2>3
    <3>2. k * blocks \in Nat /\ k * q \in Nat
      BY <1>1, <2>1, <2>3
    <3> QED
      BY <2>1, <2>2, <2>3, <3>1, <3>2
  <2> QED
    BY <1>1, <2>3, <2>4 DEF ChunkOffset, k, l, q
<1>3. ASSUME NEW c \in ChunkIds
      PROVE  /\ ChunkOffset(c) < ChunkOffset(c + 1)
             /\ c \in 0 .. Chunks /\ c + 1 \in 0 .. Chunks
  BY <1>1, CallPartitions DEF ChunksPartition, ChunkIds
<1> QED
  BY <1>1, <1>2, <1>3

-----------------------------------------------------------------------------
(* The buffers of the chunks. *)

\* Each chunk goes through its own blocks, and is done after the last.
ProgressInv ==
  /\ SizesOK
  /\ next \in [ChunkIds -> Nat]
  /\ run \in [ChunkIds -> {"waiting", "running", "done"}]
  /\ \A c \in ChunkIds :
       /\ ChunkOffset(c) <= next[c]
       /\ IF run[c] = "done" THEN next[c] = ChunkOffset(c + 1)
                             ELSE next[c] < ChunkOffset(c + 1)

\* What a step that leaves the parameters of the call alone cannot change.
LEMMA CallFixed ==
  ASSUME UNCHANGED call
  PROVE  /\ Chunks' = Chunks /\ ChunkIds' = ChunkIds /\ Bits' = Bits
         /\ Prefix' = Prefix /\ NeedsCopy' = NeedsCopy /\ BufferBits' = BufferBits
         /\ SizesOK' = SizesOK /\ CallOK' = CallOK
         /\ \A c : ChunkOffset(c)' = ChunkOffset(c)
         /\ \A c : SerialOwner(c)' = SerialOwner(c)
<1>1. /\ blocks' = blocks /\ threads' = threads /\ chunkSize' = chunkSize
      /\ minbits' = minbits /\ maxbits' = maxbits /\ size' = size /\ start' = start
  BY DEF call
<1>2. Chunks' = Chunks /\ NeedsCopy' = NeedsCopy /\ CallOK' = CallOK
  BY <1>1 DEF Chunks, NeedsCopy, CallOK
<1>3. Prefix' = Prefix
  BY <1>1 DEF Prefix
<1>4. ChunkIds' = ChunkIds /\ BufferBits' = BufferBits /\ SizesOK' = SizesOK
  BY <1>1, <1>2 DEF ChunkIds, BufferBits, BufferElements, SizesOK
<1>5. \A c : ChunkOffset(c)' = ChunkOffset(c)
  BY <1>1, <1>2 DEF ChunkOffset
<1>6. Bits' = Bits /\ \A c : SerialOwner(c)' = SerialOwner(c)
  BY <1>1, <1>3 DEF Bits, SerialOwner
<1> QED
  BY <1>2, <1>3, <1>4, <1>5, <1>6

LEMMA InitProgress == Init => ProgressInv
<1> SUFFICES ASSUME Init PROVE ProgressInv
  OBVIOUS
<1>1. SizesOK /\ CallOK
  BY CallAssumption DEF Init, SizesOK, CallOK
<1>2. \A c \in ChunkIds : ChunkOffset(c) \in Nat /\ ChunkOffset(c) < ChunkOffset(c + 1)
  BY <1>1, CutFacts
<1> QED
  BY <1>1, <1>2 DEF Init, ProgressInv

LEMMA NextProgress ==
  ASSUME ProgressInv, [Next]_vars
  PROVE  ProgressInv'
<1>1. /\ SizesOK' /\ ChunkIds' = ChunkIds
      /\ \A c : ChunkOffset(c)' = ChunkOffset(c)
  BY NextCall, CallFixed DEF ProgressInv
<1>2. ASSUME NEW c \in ChunkIds, StartChunk(c)
      PROVE  ProgressInv'
  <2>1. /\ next' = next /\ run[c] = "waiting"
        /\ run' = run \/ run' = [run EXCEPT ![c] = "running"]
    BY <1>2 DEF StartChunk
  <2> QED
    BY <1>1, <2>1 DEF ProgressInv
<1>3. ASSUME NEW c \in ChunkIds, EncodeBlock(c)
      PROVE  ProgressInv'
  <2>1. /\ run[c] = "running"
        /\ next' = [next EXCEPT ![c] = next[c] + 1]
        /\ run' = [run EXCEPT
             ![c] = IF next[c] + 1 = ChunkOffset(c + 1) THEN "done" ELSE "running"]
    BY <1>3 DEF EncodeBlock
  <2>2. ChunkOffset(c) \in Nat /\ ChunkOffset(c + 1) \in Nat
    BY CutFacts DEF ProgressInv, SizesOK
  <2>3. next[c] \in Nat /\ ChunkOffset(c) <= next[c] /\ next[c] < ChunkOffset(c + 1)
    BY <2>1 DEF ProgressInv
  <2>4. next' \in [ChunkIds -> Nat]
    BY <2>1, <2>3 DEF ProgressInv
  <2>5. run' \in [ChunkIds -> {"waiting", "running", "done"}]
    BY <2>1 DEF ProgressInv
  <2>6. ASSUME NEW d \in ChunkIds
        PROVE  /\ ChunkOffset(d) <= next'[d]
               /\ IF run'[d] = "done" THEN next'[d] = ChunkOffset(d + 1)
                                      ELSE next'[d] < ChunkOffset(d + 1)
    <3>1. CASE d = c
      <4>1. /\ next'[d] = next[c] + 1
            /\ run'[d] = IF next[c] + 1 = ChunkOffset(c + 1) THEN "done" ELSE "running"
        BY <2>1, <3>1 DEF ProgressInv
      <4> QED
        BY <2>2, <2>3, <3>1, <4>1
    <3>2. CASE d # c
      <4>1. next'[d] = next[d] /\ run'[d] = run[d]
        BY <2>1, <3>2 DEF ProgressInv
      <4> QED
        BY <4>1 DEF ProgressInv
    <3> QED
      BY <3>1, <3>2
  <2> QED
    BY <1>1, <2>4, <2>5, <2>6 DEF ProgressInv
<1>4. CASE UNCHANGED <<run, next>>
  BY <1>1, <1>4 DEF ProgressInv
<1> QED
  BY <1>2, <1>3, <1>4
  DEF Next, vars, InitPar, InitParFails, OpenChunk, BufferFails, FreeChunk, GiveUp,
      FinishChunk, Join, FinishPar, Flush, Ended

\* A chunk's share of the blocks fits in its buffer.
LEMMA ShareFits ==
  ASSUME SizesOK, NEW c \in ChunkIds
  PROVE  /\ BufferBits \in Nat
         /\ (ChunkOffset(c + 1) - ChunkOffset(c)) * maxbits <= BufferBits
<1> DEFINE k == Chunks
           n == blocks
           e == (n + k - 1) \div k
           f == (4 * (n + k - 1)) \div k
           g == (f + 3) \div 4
           h == HeaderMaxBits + g * maxbits
<1>1. k \in Nat \ {0} /\ n \in Nat /\ c \in Nat /\ maxbits \in Nat
  BY CutFacts DEF SizesOK, CallOK, ChunkIds
<1>2. ChunkOffset(c + 1) - ChunkOffset(c) <= e
  <2>1. (n * (c + 1)) \div k <= (n * c) \div k + e
    <3> HIDE DEF k, n
    <3> QED
      BY <1>1, CutShare
  <2>2. ChunkOffset(c) \in Nat /\ ChunkOffset(c + 1) \in Nat
    BY CutFacts DEF SizesOK
  <2>3. e \in Nat
    <3> HIDE DEF k, n
    <3>1. n + k - 1 \in Nat
      BY <1>1
    <3> QED
      BY <1>1, <3>1, DivMod
  <2> HIDE DEF e
  <2> QED
    BY <2>1, <2>2, <2>3 DEF ChunkOffset
<1> HIDE DEF k, n
<1>3. /\ e \in Nat /\ (n + k - 1) % k \in 0 .. (k - 1)
      /\ n + k - 1 = k * e + ((n + k - 1) % k)
  <2>1. n + k - 1 \in Nat
    BY <1>1
  <2> QED
    BY <1>1, <2>1, DivMod
<1>4. /\ f \in Nat /\ (4 * (n + k - 1)) % k \in 0 .. (k - 1)
      /\ 4 * (n + k - 1) = k * f + ((4 * (n + k - 1)) % k)
  <2>1. 4 * (n + k - 1) \in Nat
    BY <1>1
  <2> QED
    BY <1>1, <2>1, DivMod
<1> HIDE DEF e, f
<1>5. 4 * e <= f
  <2> SUFFICES ASSUME f + 1 <= 4 * e PROVE FALSE
    BY <1>3, <1>4
  <2>1. k * (f + 1) <= k * (4 * e)
    BY <1>1, <1>3, <1>4
  <2>2. k * (f + 1) = k * f + k /\ k * (4 * e) = 4 * (k * e)
    BY <1>1, <1>3, <1>4
  <2>3. k * f \in Nat /\ k * e \in Nat
    BY <1>1, <1>3, <1>4
  <2> QED
    BY <1>1, <1>3, <1>4, <2>1, <2>2, <2>3
<1>6. g \in Nat /\ e <= g
  BY <1>3, <1>4, <1>5
<1> HIDE DEF g
<1>7. e * maxbits <= g * maxbits /\ g * maxbits \in Nat
  BY <1>1, <1>3, <1>6
<1>8. h \in Nat /\ g * maxbits <= h
  BY <1>7, CallAssumption
<1> HIDE DEF h
<1>9. RoundUp(h, WordBits) \in Nat /\ h <= RoundUp(h, WordBits)
  BY <1>8, CallAssumption, RoundUpFacts
<1>10. BufferBits = RoundUp(h, WordBits)
  BY DEF BufferBits, BufferElements, h, g, f, n, k
<1> DEFINE x == ChunkOffset(c + 1) - ChunkOffset(c)
<1>11. x \in Nat /\ x <= e
  BY <1>2, CutFacts DEF SizesOK
<1> HIDE DEF x
<1>12. x * maxbits <= e * maxbits /\ x * maxbits \in Nat /\ e * maxbits \in Nat
  BY <1>1, <1>3, <1>11
<1>13. x * maxbits <= BufferBits
  BY <1>7, <1>8, <1>9, <1>10, <1>12
<1> QED
  BY <1>9, <1>10, <1>13 DEF x

(***************************************************************************)
(* The buffer of a chunk holds whatever its blocks are encoded to, at      *)
(* every moment of the parallel loop and for every number of blocks,       *)
(* threads and chunks: zfp_stream_maximum_size of the field that           *)
(* compress_init_par makes up is enough, although the chunks are not of    *)
(* equal size.                                                             *)
(***************************************************************************)
THEOREM ChunksFitBuffers == Spec => []BufferFits
<1>1. ProgressInv /\ [Next]_vars => ProgressInv'
  BY NextProgress
<1>2. ProgressInv => BufferFits
  <2> SUFFICES ASSUME ProgressInv, NEW c \in ChunkIds
               PROVE  Prefix[next[c]] - Prefix[ChunkOffset(c)] <= BufferBits
    BY DEF BufferFits
  <2> DEFINE m == ChunkOffset(c)
             n == next[c]
             p == ChunkOffset(c + 1)
  <2>1. SizesOK
    BY DEF ProgressInv
  <2>2. m \in 0 .. blocks /\ p \in 0 .. blocks
    BY <2>1, CutFacts DEF SizesOK
  <2>3. n \in Nat /\ m <= n /\ n <= p
    BY <2>2 DEF ProgressInv
  <2>4. n \in 0 .. blocks /\ maxbits \in Nat /\ blocks \in Nat
    <3> HIDE DEF m, n, p
    <3> QED
      BY <2>1, <2>2, <2>3 DEF SizesOK, CallOK
  <2>5. BufferBits \in Nat /\ (p - m) * maxbits <= BufferBits
    BY <2>1, ShareFits
  <2> HIDE DEF m, n, p
  <2>6. Prefix[n] <= Prefix[m] + (n - m) * maxbits
    BY <2>1, <2>2, <2>3, <2>4, PrefixAscends
  <2>7. Prefix[n] \in Nat /\ Prefix[m] \in Nat
    BY <2>1, <2>2, <2>4, SizeFacts
  <2>8. n - m \in Nat /\ p - m \in Nat /\ n - m <= p - m
    BY <2>2, <2>3
  <2>9. (n - m) * maxbits <= (p - m) * maxbits
    BY <2>4, <2>8
  <2>10. (n - m) * maxbits \in Nat /\ (p - m) * maxbits \in Nat
    BY <2>4, <2>8
  <2> QED
    BY <2>5, <2>6, <2>7, <2>9, <2>10 DEF m, n
<1> QED
  BY <1>1, <1>2, InitProgress, PTL DEF Spec

-----------------------------------------------------------------------------
(* The stream that the call leaves. *)

\* Every bit of the destination before bit k belongs to whom it would belong
\* to after serial compression.
SerialUpTo(k) == \A j \in Bits : j < k => out[j] = SerialOwner(j)

\* The blocks that chunk c has encoded are in place in the destination.
InPlace(c) ==
  \A b \in ChunkOffset(c) .. (next[c] - 1), j \in Bits :
    Prefix[b] <= j /\ j < Prefix[b + 1] => out[j] = b

StreamInv ==
  /\ HeapInv
  /\ ProgressInv
  /\ pc \in {"init", "alloc"} => \A c \in ChunkIds : next[c] = ChunkOffset(c)
  /\ pc \in {"init", "alloc"} \/ (pc = "parallel" /\ copy) =>
       wtell = start /\ SerialUpTo(start)
  /\ pc = "parallel" /\ ~copy => \A c \in ChunkIds : InPlace(c)
  /\ pc = "finish" /\ ~copy => SerialUpTo(start + Prefix[blocks])
  /\ pc = "finish" /\ copy =>
       /\ wtell = start + Prefix[ChunkOffset(chunk)]
       /\ SerialUpTo(wtell)
  /\ pc = "flush" /\ chunk = Chunks =>
       /\ wtell = start + Prefix[blocks]
       /\ SerialUpTo(wtell)
  /\ SameAsSerial

\* The block that a bit of the encoded blocks belongs to.
LEMMA OwnerOf ==
  ASSUME SizesOK, NEW x \in Nat, x < Prefix[blocks]
  PROVE  \E b \in 0 .. (blocks - 1) :
           /\ Prefix[b] <= x /\ x < Prefix[b + 1]
           /\ \A d \in 0 .. (blocks - 1) :
                Prefix[d] <= x /\ x < Prefix[d + 1] => d = b
           /\ (CHOOSE d \in 0 .. (blocks - 1) :
                 Prefix[d] <= x /\ x < Prefix[d + 1]) = b
<1>1. PICK b \in 0 .. (blocks - 1) :
        /\ Prefix[b] <= x /\ x < Prefix[b + 1]
        /\ \A d \in 0 .. (blocks - 1) :
             Prefix[d] <= x /\ x < Prefix[d + 1] => d = b
  <2>1. /\ maxbits \in Nat /\ blocks \in Nat
        /\ \A b \in 0 .. (blocks - 1) : size[b] \in Nat /\ size[b] <= maxbits
    BY SizeFacts DEF SizesOK
  <2> QED
    BY <2>1, PrefixSums, SumOwner
<1> QED
  BY <1>1

LEMMA SerialOwnerIs ==
  ASSUME SizesOK, NEW j \in Nat, start <= j,
         NEW b \in 0 .. (blocks - 1),
         start + Prefix[b] <= j, j < start + Prefix[b + 1]
  PROVE  SerialOwner(j) = b
<1>1. /\ start \in Nat /\ blocks \in Nat \ {0}
      /\ \A n \in 0 .. blocks : Prefix[n] \in Nat
      /\ maxbits \in Nat
  BY SizeFacts DEF SizesOK
<1>2. Prefix[b + 1] <= Prefix[blocks]
  <2>1. b + 1 \in 0 .. blocks /\ blocks \in 0 .. blocks /\ b + 1 <= blocks
    BY <1>1
  <2> QED
    BY <2>1, PrefixAscends
<1>3. /\ j < start + Prefix[blocks]
      /\ j - start \in Nat /\ j - start < Prefix[blocks]
  <2>1. Prefix[b + 1] \in Nat /\ Prefix[blocks] \in Nat
    BY <1>1
  <2> QED
    BY <1>1, <1>2, <2>1
<1>4. \A d \in 0 .. (blocks - 1) :
        Prefix[d] \in Nat /\ Prefix[d + 1] \in Nat
  BY <1>1
<1>5. \A d \in 0 .. (blocks - 1) :
        start + Prefix[d] <= j /\ j < start + Prefix[d + 1] <=>
          Prefix[d] <= j - start /\ j - start < Prefix[d + 1]
  BY <1>1, <1>4
<1>6. PICK e \in 0 .. (blocks - 1) :
        \A d \in 0 .. (blocks - 1) :
          Prefix[d] <= j - start /\ j - start < Prefix[d + 1] => d = e
  BY <1>3, OwnerOf
<1>7. \A d \in 0 .. (blocks - 1) :
        start + Prefix[d] <= j /\ j < start + Prefix[d + 1] => d = b
  BY <1>5, <1>6
<1>8. (CHOOSE d \in 0 .. (blocks - 1) :
         start + Prefix[d] <= j /\ j < start + Prefix[d + 1]) = b
  BY <1>7
<1>9. ~ (j < start) /\ ~ (j >= start + Prefix[blocks])
  BY <1>1, <1>3
<1> QED
  BY <1>8, <1>9 DEF SerialOwner

\* Streams that are laid over the destination: every block is the same whole
\* number of words.
LEMMA WholeWords ==
  ASSUME SafeStart, SizesOK, ~NeedsCopy, NEW n \in 0 .. blocks
  PROVE  /\ start = 0
         /\ Prefix[n] = n * maxbits
         /\ RoundUp(Prefix[n], WordBits) = Prefix[n]
<1>1. minbits = maxbits /\ maxbits % WordBits = 0 /\ start % WordBits = 0
  BY DEF NeedsCopy
<1>2. start = 0
  BY <1>1 DEF SafeStart, SizesOK
<1>3. /\ blocks \in Nat /\ maxbits \in Nat
      /\ \A b \in 0 .. (blocks - 1) : size[b] = maxbits
  <2>1. blocks \in Nat /\ maxbits \in Nat
    BY DEF SizesOK, CallOK
  <2>2. ASSUME NEW b \in 0 .. (blocks - 1)
        PROVE  size[b] = maxbits
    <3>1. size[b] \in maxbits .. maxbits
      BY <1>1 DEF SizesOK
    <3> QED
      BY <2>1, <3>1
  <2> QED
    BY <2>1, <2>2
<1>4. Prefix[n] = n * maxbits
  BY <1>3, PrefixSums, SumConstant
<1>5. (n * maxbits) % WordBits = 0
  <2> DEFINE w == WordBits
             q == maxbits \div w
  <2>1. w \in Nat \ {0} /\ n \in Nat
    BY <1>3, CallAssumption
  <2>2. q \in Nat /\ maxbits = w * q
    <3>1. q \in Nat /\ maxbits = w * q + (maxbits % w)
      BY <1>3, <2>1, DivMod
    <3>2. maxbits % w = 0
      BY <1>1
    <3> HIDE DEF q, w
    <3>3. w * q \in Nat
      BY <2>1, <3>1
    <3> QED
      BY <3>1, <3>2, <3>3
  <2> HIDE DEF w, q
  <2>3. n * maxbits = w * (n * q) + 0 /\ n * q \in Nat
    BY <2>1, <2>2
  <2>4. 0 \in 0 .. (w - 1)
    BY <2>1
  <2>5. (w * (n * q) + 0) % w = 0
    BY <2>1, <2>3, <2>4, DivModUnique
  <2> QED
    BY <2>3, <2>5 DEF w
<1>6. n * maxbits \in Nat
  BY <1>3
<1> QED
  BY <1>2, <1>4, <1>5, <1>6, CallAssumption, RoundUpFacts

LEMMA BitsNat ==
  ASSUME SizesOK
  PROVE  Bits \subseteq Nat
BY DEF Bits

\* Encoding a block in place writes its own bits and no others.
LEMMA EncodeInPlace ==
  ASSUME SafeStart, ProgressInv, ~NeedsCopy, ~copy,
         NEW c \in ChunkIds, EncodeBlock(c),
         \A d \in ChunkIds : InPlace(d)
  PROVE  \A d \in ChunkIds : InPlace(d)'
<1> DEFINE n == next[c]
           p == InPlaceOffset(c) + Prefix[n] - Prefix[ChunkOffset(c)]
<1>1. /\ SizesOK
      /\ run[c] = "running" /\ next' = [next EXCEPT ![c] = n + 1]
      /\ out' = WithBlock(n, p)
  BY DEF ProgressInv, EncodeBlock
<1>2. /\ ChunkIds' = ChunkIds /\ Bits' = Bits /\ Prefix' = Prefix
      /\ \A d : ChunkOffset(d)' = ChunkOffset(d)
  BY CallFixed DEF EncodeBlock
<1>3. /\ \A d \in ChunkIds : /\ ChunkOffset(d) \in 0 .. blocks
                             /\ ChunkOffset(d + 1) \in 0 .. blocks
      /\ blocks \in Nat \ {0} /\ maxbits \in Nat
  BY <1>1, CutFacts DEF SizesOK, CallOK
<1>4. /\ n \in Nat /\ ChunkOffset(c) <= n /\ n < ChunkOffset(c + 1)
      /\ \A d \in ChunkIds : next[d] \in Nat /\ next[d] <= ChunkOffset(d + 1)
  BY <1>1, <1>3 DEF ProgressInv
<1>5. n \in 0 .. (blocks - 1) /\ n \in 0 .. blocks /\ n + 1 \in 0 .. blocks
  BY <1>3, <1>4
<1>6. p = Prefix[n]
  <2>1. /\ start = 0
        /\ Prefix[n] = n * maxbits
        /\ Prefix[ChunkOffset(c)] = ChunkOffset(c) * maxbits
    BY <1>1, <1>3, <1>5, WholeWords
  <2>2. InPlaceOffset(c) = Prefix[ChunkOffset(c)]
    BY <1>3, <2>1 DEF InPlaceOffset
  <2>3. Prefix[n] \in Nat /\ Prefix[ChunkOffset(c)] \in Nat
    BY <1>1, <1>3, <1>5, SizeFacts
  <2> QED
    BY <2>2, <2>3
<1>7. p + size[n] = Prefix[n + 1] /\ RoundUp(p + size[n], WordBits) = p + size[n]
  BY <1>1, <1>5, <1>6, SizeFacts, WholeWords
<1> HIDE DEF n, p
<1>8. ASSUME NEW j \in Bits
      PROVE  out'[j] = IF Prefix[n] <= j /\ j < Prefix[n + 1] THEN n ELSE out[j]
  <2>1. j \in Nat /\ Prefix[n + 1] \in Nat
    BY <1>1, <1>5, BitsNat, SizeFacts
  <2> QED
    BY <1>1, <1>6, <1>7, <2>1 DEF WithBlock
<1>9. ASSUME NEW d \in ChunkIds,
             NEW b \in ChunkOffset(d) .. (next'[d] - 1), NEW j \in Bits,
             Prefix[b] <= j, j < Prefix[b + 1]
      PROVE  out'[j] = b
  <2>1. CASE b = n
    BY <1>8, <1>9, <2>1
  <2>2. CASE b # n
    <3>0. next'[d] = (IF d = c THEN n + 1 ELSE next[d])
      BY <1>1 DEF ProgressInv
    <3>1. b \in ChunkOffset(d) .. (next[d] - 1)
      <4>1. CASE d = c
        BY <1>3, <1>4, <2>2, <3>0, <4>1 DEF n
      <4>2. CASE d # c
        BY <3>0, <4>2
      <4> QED
        BY <4>1, <4>2
    <3>2. out[j] = b
      BY <1>9, <3>1 DEF InPlace
    <3>3. b \in 0 .. (blocks - 1)
      <4>1. /\ ChunkOffset(d) \in Nat /\ next[d] \in Nat
            /\ next[d] <= ChunkOffset(d + 1) /\ ChunkOffset(d + 1) <= blocks
            /\ ChunkOffset(d + 1) \in Nat
        BY <1>3, <1>4
      <4> QED
        BY <1>3, <3>1, <4>1
    <3>4. ~ (Prefix[n] <= j /\ j < Prefix[n + 1])
      <4>0. j \in Nat /\ \A m \in 0 .. blocks : Prefix[m] \in Nat
        BY <1>1, BitsNat, SizeFacts
      <4>1. Prefix[b + 1] <= Prefix[blocks] /\ b + 1 \in 0 .. blocks
        <5>1. b + 1 \in 0 .. blocks /\ blocks \in 0 .. blocks /\ b + 1 <= blocks
          BY <1>3, <3>3
        <5> QED
          BY <1>1, <5>1, PrefixAscends
      <4>2. j < Prefix[blocks]
        BY <1>3, <1>9, <4>0, <4>1
      <4>3. PICK e \in 0 .. (blocks - 1) :
              \A a \in 0 .. (blocks - 1) :
                Prefix[a] <= j /\ j < Prefix[a + 1] => a = e
        BY <1>1, <4>0, <4>2, OwnerOf
      <4> QED
        BY <1>5, <1>9, <2>2, <3>3, <4>3
    <3> QED
      BY <1>8, <3>2, <3>4
  <2> QED
    BY <2>1, <2>2
<1> QED
  BY <1>2, <1>9 DEF InPlace

\* When all chunks have encoded all their blocks in place, all blocks are.
LEMMA JoinInPlace ==
  ASSUME SafeStart, ProgressInv, ~NeedsCopy,
         \A c \in ChunkIds : run[c] = "done",
         \A c \in ChunkIds : InPlace(c)
  PROVE  SerialUpTo(start + Prefix[blocks])
<1> SUFFICES ASSUME NEW j \in Bits, j < start + Prefix[blocks]
             PROVE  out[j] = SerialOwner(j)
  BY DEF SerialUpTo
<1>1. SizesOK /\ CallOK /\ blocks \in Nat \ {0} /\ j \in Nat
  BY BitsNat DEF ProgressInv, SizesOK, CallOK
<1>2. start = 0 /\ Prefix[blocks] \in Nat
  <2>1. blocks \in 0 .. blocks
    BY <1>1
  <2> QED
    BY <1>1, <2>1, WholeWords, SizeFacts
<1>3. PICK b \in 0 .. (blocks - 1) : Prefix[b] <= j /\ j < Prefix[b + 1]
  BY <1>1, <1>2, OwnerOf
<1>4. SerialOwner(j) = b
  <2>1. Prefix[b] \in Nat /\ Prefix[b + 1] \in Nat
    BY <1>1, SizeFacts
  <2> QED
    BY <1>1, <1>2, <1>3, <2>1, SerialOwnerIs
<1> DEFINE f == [c \in 0 .. Chunks |-> ChunkOffset(c)]
<1>5. /\ Chunks \in Nat \ {0}
      /\ \A c \in 0 .. Chunks : f[c] \in Nat
      /\ f[0] = 0 /\ f[Chunks] = blocks
      /\ \A c \in 0 .. (Chunks - 1) :
           /\ c \in ChunkIds
           /\ f[c] = ChunkOffset(c) /\ f[c + 1] = ChunkOffset(c + 1)
  BY <1>1, CutFacts DEF ChunkIds
<1> HIDE DEF f
<1>6. PICK c \in 0 .. (Chunks - 1) : f[c] <= b /\ b < f[c + 1]
  <2>1. b \in Nat /\ f[0] <= b /\ b < f[Chunks]
    BY <1>1, <1>5
  <2> QED
    BY <1>5, <2>1, BetweenCuts
<1>7. c \in ChunkIds /\ next[c] = ChunkOffset(c + 1)
  BY <1>5, <1>6 DEF ProgressInv
<1>8. b \in ChunkOffset(c) .. (next[c] - 1)
  <2>1. ChunkOffset(c) \in Nat /\ ChunkOffset(c + 1) \in Nat
    BY <1>1, <1>7, CutFacts
  <2> QED
    BY <1>5, <1>6, <1>7, <2>1
<1> QED
  BY <1>3, <1>4, <1>7, <1>8 DEF InPlace

\* compress_finish_par appends the stream of the next chunk.
LEMMA CopyChunk ==
  ASSUME SizesOK, copy, FinishCopies, chunk \in Nat, NEW c \in ChunkIds,
         FinishChunk(c), wtell = start + Prefix[ChunkOffset(chunk)],
         SerialUpTo(wtell)
  PROVE  /\ wtell' = start + Prefix[ChunkOffset(chunk + 1)]
         /\ \A j \in Bits : j < wtell' => out'[j] = SerialOwner(j)
<1> DEFINE p == Prefix[ChunkOffset(c)]
           q == Prefix[ChunkOffset(c + 1)]
<1>1. /\ c = chunk
      /\ out' = [j \in Bits |->
                   IF wtell <= j /\ j < wtell + ChunkBits(c)
                   THEN ChunkBit(c, j - wtell) ELSE out[j]]
      /\ wtell' = wtell + ChunkBits(c)
  BY DEF FinishChunk
<1>2. /\ ChunkOffset(c) \in 0 .. blocks /\ ChunkOffset(c + 1) \in 0 .. blocks
      /\ blocks \in Nat /\ maxbits \in Nat
  BY CutFacts DEF SizesOK, CallOK
<1>3. p \in Nat /\ q \in Nat /\ start \in Nat /\ Prefix[blocks] \in Nat
  BY <1>2, SizeFacts
<1>4. q <= Prefix[blocks]
  <2>1. blocks \in 0 .. blocks /\ ChunkOffset(c + 1) <= blocks
    BY <1>2
  <2> QED
    BY <1>2, <2>1, PrefixAscends
<1>5. wtell = start + p /\ ChunkBits(c) = q - p
  BY <1>1 DEF ChunkBits
<1> HIDE DEF p, q
<1>6. wtell' = start + q
  BY <1>1, <1>3, <1>5
<1>7. ASSUME NEW j \in Bits, j < wtell'
      PROVE  out'[j] = SerialOwner(j)
  <2>0. j \in Nat
    BY BitsNat
  <2>1. CASE j < wtell
    <3>1. out'[j] = out[j]
      BY <1>1, <1>3, <1>5, <2>0, <2>1
    <3> QED
      BY <2>1, <3>1 DEF SerialUpTo
  <2>2. CASE wtell <= j
    <3> DEFINE x == p + (j - wtell)
    <3>1. out'[j] = ChunkBit(c, j - wtell)
      BY <1>1, <1>3, <1>5, <1>6, <1>7, <2>0, <2>2
    <3>2. x = j - start /\ x \in Nat /\ x < Prefix[blocks]
      BY <1>3, <1>4, <1>5, <1>6, <1>7, <2>0, <2>2
    <3>3. ChunkBit(c, j - wtell) =
            CHOOSE d \in 0 .. (blocks - 1) : Prefix[d] <= x /\ x < Prefix[d + 1]
      BY DEF ChunkBit, p
    <3> HIDE DEF x
    <3>4. PICK b \in 0 .. (blocks - 1) :
            /\ Prefix[b] <= x /\ x < Prefix[b + 1]
            /\ (CHOOSE d \in 0 .. (blocks - 1) :
                  Prefix[d] <= x /\ x < Prefix[d + 1]) = b
      BY <3>2, OwnerOf
    <3>5. start <= j /\ start + Prefix[b] <= j /\ j < start + Prefix[b + 1]
      <4>1. Prefix[b] \in Nat /\ Prefix[b + 1] \in Nat
        BY <1>2, SizeFacts
      <4> QED
        BY <1>3, <1>5, <2>0, <2>2, <3>2, <3>4, <4>1
    <3>6. SerialOwner(j) = b
      BY <2>0, <3>5, SerialOwnerIs
    <3> QED
      BY <3>1, <3>3, <3>4, <3>6
  <2> QED
    BY <1>3, <1>5, <2>0, <2>1, <2>2
<1> QED
  BY <1>1, <1>6, <1>7 DEF q

\* The final flush pads the last word.
LEMMA FlushPads ==
  ASSUME SizesOK, Flush, wtell = start + Prefix[blocks], SerialUpTo(wtell)
  PROVE  /\ \A k \in Bits : out'[k] = SerialOwner(k)
         /\ wtell' = RoundUp(start + Prefix[blocks], WordBits)
<1>1. /\ wtell' = RoundUp(wtell, WordBits)
      /\ out' = [k \in Bits |->
                   IF wtell <= k /\ k < RoundUp(wtell, WordBits) THEN Padding
                   ELSE out[k]]
  BY DEF Flush
<1>2. start \in Nat /\ Prefix[blocks] \in Nat
  BY SizeFacts
<1>3. RoundUp(wtell, WordBits) \in Nat
  BY <1>2, CallAssumption, RoundUpFacts
<1>4. ASSUME NEW k \in Bits
      PROVE  out'[k] = SerialOwner(k)
  <2>1. k \in Nat /\ k < RoundUp(wtell, WordBits)
    BY <1>3 DEF Bits
  <2>2. CASE k < wtell
    <3>1. out'[k] = out[k]
      BY <1>1, <1>2, <2>1, <2>2
    <3> QED
      BY <2>2, <3>1 DEF SerialUpTo
  <2>3. CASE wtell <= k
    <3>1. out'[k] = Padding
      BY <1>1, <2>1, <2>3
    <3>2. ~ (k < start) /\ k >= start + Prefix[blocks]
      BY <1>2, <2>1, <2>3
    <3> QED
      BY <3>1, <3>2 DEF SerialOwner
  <2> QED
    BY <1>2, <2>1, <2>2, <2>3
<1> QED
  BY <1>1, <1>4

LEMMA InitStream == Init => StreamInv
<1> SUFFICES ASSUME Init PROVE StreamInv
  OBVIOUS
<1>1. HeapInv /\ ProgressInv
  BY InitHeap, InitProgress
<1>2. SerialUpTo(start)
  BY DEF Init, SerialUpTo, SerialOwner
<1> QED
  BY <1>1, <1>2 DEF Init, StreamInv, SameAsSerial

LEMMA NextStream ==
  ASSUME SafeStart, StreamInv, [Next]_vars
  PROVE  StreamInv'
<1>1. HeapInv' /\ ProgressInv' /\ HeapInv /\ ProgressInv /\ SizesOK /\ CallOK
  BY NextHeap, NextProgress DEF StreamInv, ProgressInv, SizesOK
<1>2. /\ Chunks' = Chunks /\ ChunkIds' = ChunkIds /\ Bits' = Bits
      /\ Prefix' = Prefix /\ blocks' = blocks /\ start' = start
      /\ \A c : ChunkOffset(c)' = ChunkOffset(c)
      /\ \A c : SerialOwner(c)' = SerialOwner(c)
  BY NextCall, CallFixed DEF call
<1>3. Chunks \in Nat \ {0} /\ ChunkOffset(Chunks) = blocks
  BY <1>1, CutFacts
<1>4. CASE InitPar \/ OpenChunk
  <2>1. /\ pc \in {"init", "alloc"} /\ pc' \in {"alloc", "parallel"}
        /\ UNCHANGED <<out, wtell, next>>
    BY <1>4 DEF InitPar, OpenChunk
  <2>2. wtell = start /\ SerialUpTo(start)
    BY <2>1 DEF StreamInv
  <2>3. SerialUpTo(start)'
    BY <1>2, <2>1, <2>2 DEF SerialUpTo
  <2>4. \A c \in ChunkIds : next[c] = ChunkOffset(c)
    BY <2>1 DEF StreamInv
  <2>5. \A c \in ChunkIds : InPlace(c)'
    <3>1. \A c \in ChunkIds : ChunkOffset(c) .. (next[c] - 1) = {}
      BY <1>1, <2>4, CutFacts
    <3> QED
      BY <1>2, <2>1, <3>1 DEF InPlace
  <2> QED
    BY <1>1, <1>2, <2>1, <2>2, <2>3, <2>4, <2>5 DEF StreamInv, SameAsSerial
<1>5. CASE InitParFails \/ BufferFails \/ FreeChunk \/ GiveUp
  <2>1. /\ pc' \in {"flush", "cleanup", "crashed"}
        /\ pc' = "flush" => chunk' = 0
    BY <1>1, <1>5 DEF InitParFails, BufferFails, FreeChunk, GiveUp, HeapInv
  <2> QED
    BY <1>1, <1>2, <1>3, <2>1 DEF StreamInv, SameAsSerial
<1>6. ASSUME NEW c \in ChunkIds, StartChunk(c)
      PROVE  StreamInv'
  <2>1. /\ pc = "parallel" /\ pc' \in {"parallel", "crashed"}
        /\ UNCHANGED <<copy, next, out, wtell>>
    BY <1>6 DEF StartChunk
  <2>2. SerialUpTo(start) => SerialUpTo(start)'
    BY <1>2, <2>1 DEF SerialUpTo
  <2>3. \A d \in ChunkIds : InPlace(d) => InPlace(d)'
    BY <1>2, <2>1 DEF InPlace
  <2> QED
    BY <1>1, <1>2, <2>1, <2>2, <2>3 DEF StreamInv, SameAsSerial
<1>7. ASSUME NEW c \in ChunkIds, EncodeBlock(c)
      PROVE  StreamInv'
  <2>1. pc = "parallel" /\ pc' = "parallel" /\ UNCHANGED <<copy, wtell>>
    BY <1>7 DEF EncodeBlock
  <2>2. CASE copy
    <3>1. out' = out
      BY <1>7, <2>2 DEF EncodeBlock
    <3>2. SerialUpTo(start) => SerialUpTo(start)'
      BY <1>2, <3>1 DEF SerialUpTo
    <3> QED
      BY <1>1, <1>2, <2>1, <2>2, <3>2 DEF StreamInv, SameAsSerial
  <2>3. CASE ~copy
    <3>1. ~NeedsCopy /\ \A d \in ChunkIds : InPlace(d)
      BY <1>1, <2>1, <2>3 DEF StreamInv, HeapInv
    <3>2. \A d \in ChunkIds : InPlace(d)'
      BY <1>1, <1>7, <2>3, <3>1, EncodeInPlace
    <3> QED
      BY <1>1, <1>2, <2>1, <2>3, <3>2 DEF StreamInv, SameAsSerial
  <2> QED
    BY <2>2, <2>3
<1>8. CASE Join
  <2>1. /\ pc = "parallel" /\ pc' = "finish" /\ \A c \in ChunkIds : run[c] = "done"
        /\ UNCHANGED <<copy, out, wtell, chunk>>
    BY <1>8 DEF Join
  <2>2. CASE copy
    <3>1. chunk = 0 /\ wtell = start /\ SerialUpTo(start)
      BY <1>1, <2>1, <2>2 DEF StreamInv, HeapInv
    <3>2. ChunkOffset(0) = 0 /\ Prefix[0] = 0 /\ start \in Nat
      BY <1>1, CutFacts, SizeFacts
    <3>3. wtell = start + Prefix[ChunkOffset(chunk)]
      BY <3>1, <3>2
    <3>4. SerialUpTo(wtell)'
      BY <1>2, <2>1, <3>1 DEF SerialUpTo
    <3> QED
      BY <1>1, <1>2, <2>1, <2>2, <3>3, <3>4 DEF StreamInv, SameAsSerial
  <2>3. CASE ~copy
    <3>1. SerialUpTo(start + Prefix[blocks])
      BY <1>1, <2>1, <2>3, JoinInPlace DEF StreamInv, HeapInv
    <3>2. SerialUpTo(start + Prefix[blocks])'
      BY <1>2, <2>1, <3>1 DEF SerialUpTo
    <3> QED
      BY <1>1, <1>2, <2>1, <2>3, <3>2 DEF StreamInv, SameAsSerial
  <2> QED
    BY <2>2, <2>3
<1>9. ASSUME NEW c \in ChunkIds, FinishChunk(c)
      PROVE  StreamInv'
  <2>1. /\ pc = "finish" /\ pc' = "finish" /\ copy' = copy
        /\ chunk \in Nat /\ chunk' = chunk + 1
    BY <1>1, <1>3, <1>9 DEF FinishChunk, HeapInv
  <2>2. FinishCopies <=> copy
    BY <1>1, <2>1, SameDecision DEF HeapInv
  <2>3. CASE copy
    <3>1. wtell = start + Prefix[ChunkOffset(chunk)] /\ SerialUpTo(wtell)
      BY <2>1, <2>3 DEF StreamInv
    <3>2. /\ wtell' = start + Prefix[ChunkOffset(chunk')]
          /\ \A j \in Bits : j < wtell' => out'[j] = SerialOwner(j)
      BY <1>1, <1>9, <2>1, <2>2, <2>3, <3>1, CopyChunk
    <3>3. SerialUpTo(wtell)'
      BY <1>2, <3>2 DEF SerialUpTo
    <3>4. wtell' = start' + Prefix'[ChunkOffset(chunk)']
      BY <1>2, <2>1, <3>2 DEF ChunkOffset
    <3> QED
      BY <1>1, <2>1, <2>3, <3>3, <3>4 DEF StreamInv, SameAsSerial
  <2>4. CASE ~copy
    <3>1. out' = out
      BY <1>9, <2>2, <2>4 DEF FinishChunk
    <3>2. SerialUpTo(start + Prefix[blocks])'
      BY <1>2, <2>1, <2>4, <3>1 DEF StreamInv, SerialUpTo
    <3> QED
      BY <1>1, <2>1, <2>4, <3>2 DEF StreamInv, SameAsSerial
  <2> QED
    BY <2>3, <2>4
<1>10. CASE FinishPar
  <2>1. /\ pc = "finish" /\ pc' = "flush" /\ chunk = Chunks /\ chunk' = chunk
        /\ out' = out
        /\ wtell' = IF FinishCopies THEN wtell ELSE start + Prefix[blocks]
    BY <1>10 DEF FinishPar
  <2>2. FinishCopies <=> copy
    BY <1>1, <2>1, SameDecision DEF HeapInv
  <2>3. wtell' = start + Prefix[blocks] /\ SerialUpTo(start + Prefix[blocks])
    <3>1. CASE copy
      BY <1>3, <2>1, <2>2, <3>1 DEF StreamInv
    <3>2. CASE ~copy
      BY <2>1, <2>2, <3>2 DEF StreamInv
    <3> QED
      BY <3>1, <3>2
  <2>4. SerialUpTo(wtell)'
    BY <1>2, <2>1, <2>3 DEF SerialUpTo
  <2> QED
    BY <1>1, <1>2, <2>1, <2>3, <2>4 DEF StreamInv, SameAsSerial
<1>11. CASE Flush
  <2>1. pc = "flush" /\ pc' = "return" /\ chunk' = chunk
    BY <1>11 DEF Flush
  <2>2. CASE chunk = Chunks
    <3>1. wtell = start + Prefix[blocks] /\ SerialUpTo(wtell)
      BY <2>1, <2>2 DEF StreamInv
    <3>2. /\ \A k \in Bits : out'[k] = SerialOwner(k)
          /\ wtell' = RoundUp(start + Prefix[blocks], WordBits)
      BY <1>1, <1>11, <3>1, FlushPads
    <3>3. SameAsSerial'
      BY <1>2, <3>2 DEF SameAsSerial, RoundUp
    <3> QED
      BY <1>1, <2>1, <3>3 DEF StreamInv
  <2>3. CASE chunk # Chunks
    BY <1>1, <1>2, <2>1, <2>3 DEF StreamInv, SameAsSerial
  <2> QED
    BY <2>2, <2>3
<1>12. CASE Ended \/ UNCHANGED vars
  <2>1. UNCHANGED <<pc, copy, next, out, wtell, chunk>>
    BY <1>12 DEF Ended, vars
  <2>2. \A k : SerialUpTo(k) => \A j \in Bits : j < k => out'[j] = SerialOwner(j)
    BY <2>1 DEF SerialUpTo
  <2>3. /\ SerialUpTo(start) => SerialUpTo(start)'
        /\ SerialUpTo(wtell) => SerialUpTo(wtell)'
        /\ SerialUpTo(start + Prefix[blocks]) =>
             SerialUpTo(start + Prefix[blocks])'
    BY <1>2, <2>1 DEF SerialUpTo
  <2>4. \A d \in ChunkIds : InPlace(d) => InPlace(d)'
    BY <1>2, <2>1 DEF InPlace
  <2>5. ChunkOffset(chunk)' = ChunkOffset(chunk)
    BY <1>2, <2>1 DEF ChunkOffset
  <2>6. SameAsSerial'
    BY <1>2, <2>1 DEF StreamInv, SameAsSerial, RoundUp
  <2> QED
    BY <1>1, <1>2, <2>1, <2>3, <2>4, <2>5, <2>6 DEF StreamInv
<1> QED
  BY <1>4, <1>5, <1>6, <1>7, <1>8, <1>9, <1>10, <1>11, <1>12 DEF Next

(***************************************************************************)
(* zfp_compress with the OpenMP policy leaves the stream that serial       *)
(* compression leaves, bit for bit and padded to the same word, in every   *)
(* interleaving of the threads and for every number of blocks, threads and *)
(* chunks, whether the chunks are laid over the destination or copied.     *)
(***************************************************************************)
THEOREM ParallelIsSerial ==
  ASSUME SafeStart
  PROVE  Spec => []SameAsSerial
<1>1. StreamInv /\ [Next]_vars => StreamInv'
  BY NextStream
<1>2. StreamInv => SameAsSerial
  BY DEF StreamInv
<1> QED
  BY <1>1, <1>2, InitStream, PTL DEF Spec
=============================================================================
