------------------------ MODULE ViewPartition_proofs ------------------------
(***************************************************************************)
(* For views of any dimensionality, size and number of pieces: pieces of a *)
(* view that begins at block boundaries lie within it, begin at block      *)
(* boundaries, share no block, and between them leave out no element.      *)
(* (The first piece of a view that begins elsewhere may end before it      *)
(* begins: TLC refutes PiecesWithin for such views.)                       *)
(***************************************************************************)
EXTENDS ViewPartition, TLAPS

\* Division with remainder by a positive divisor.
LEMMA DivMod ==
  ASSUME NEW n \in Nat, NEW d \in Nat \ {0}
  PROVE  /\ n \div d \in Nat
         /\ n % d \in 0 .. (d - 1)
         /\ n = d * (n \div d) + (n % d)
  OBVIOUS

\* Rounded quotients are monotonic.
LEMMA DivMono ==
  ASSUME NEW m \in Nat, NEW n \in Nat, NEW d \in Nat \ {0}, m <= n
  PROVE  m \div d <= n \div d
<1> DEFINE p == m \div d
           q == n \div d
<1>1. /\ p \in Nat /\ q \in Nat
      /\ m % d \in 0 .. (d - 1) /\ n % d \in 0 .. (d - 1)
      /\ m = d * p + (m % d) /\ n = d * q + (n % d)
  BY DivMod
<1>2. SUFFICES ASSUME q < p PROVE FALSE
  BY <1>1
<1>3. d * (q + 1) <= d * p /\ d * (q + 1) = d * q + d
  BY <1>1, <1>2
<1> HIDE DEF p, q
<1> QED
  BY <1>1, <1>3

\* A quotient of less than d times m is less than m.
LEMMA DivLess ==
  ASSUME NEW n \in Nat, NEW m \in Nat, NEW d \in Nat \ {0}, n < d * m
  PROVE  n \div d < m
<1> DEFINE q == n \div d
<1>1. q \in Nat /\ n % d \in 0 .. (d - 1) /\ n = d * q + (n % d)
  BY DivMod
<1>2. SUFFICES ASSUME m <= q PROVE FALSE
  BY <1>1
<1>3. d * m <= d * q
  BY <1>1, <1>2
<1> HIDE DEF q
<1> QED
  BY <1>1, <1>3

\* Cuts are at block boundaries, in order, and before the last block unless
\* they are the last.
LEMMA CutFacts ==
  ASSUME NEW lo \in Nat, NEW hi \in Nat, lo <= hi,
         NEW c \in Nat \ {0}, NEW i \in 0 .. c
  PROVE  \E q \in Nat :
           /\ Cut(lo, hi, i, c) = BlockSize * q
           /\ lo <= q /\ q <= hi
           /\ i < c /\ lo < hi => q < hi
<1> DEFINE n == hi - lo
           q == lo + (n * i) \div c
<1>1. n \in Nat /\ i \in Nat /\ n * i \in Nat
  OBVIOUS
<1>2. (n * i) \div c \in Nat
  BY <1>1, DivMod
<1>3. (n * i) \div c <= n
  <2>1. n * i <= c * n
    BY <1>1
  <2>2. n * i < c * (n + 1)
    BY <1>1, <2>1
  <2>3. (n * i) \div c < n + 1
    BY <1>1, <2>2, DivLess
  <2> QED
    BY <1>1, <1>2, <2>3
<1>4. ASSUME i < c, lo < hi PROVE (n * i) \div c < n
  <2>1. n \in Nat \ {0} /\ i + 1 <= c
    BY <1>4
  <2>2. n * (i + 1) <= n * c /\ n * (i + 1) = n * i + n
    BY <1>1, <2>1
  <2>3. n * i < c * n
    BY <1>1, <2>1, <2>2
  <2> QED
    BY <1>1, <2>3, DivLess
<1>5. Cut(lo, hi, i, c) = BlockSize * q
  BY DEF Cut
<1> QED
  BY <1>1, <1>2, <1>3, <1>4, <1>5

LEMMA CutMono ==
  ASSUME NEW lo \in Nat, NEW hi \in Nat, lo <= hi,
         NEW c \in Nat \ {0}, NEW i \in 0 .. c, NEW j \in 0 .. c, i <= j
  PROVE  Cut(lo, hi, i, c) <= Cut(lo, hi, j, c)
<1> DEFINE n == hi - lo
           p == (n * i) \div c
           q == (n * j) \div c
<1>1. n \in Nat /\ i \in Nat /\ j \in Nat /\ n * i \in Nat /\ n * j \in Nat /\ n * i <= n * j
  OBVIOUS
<1>2. p \in Nat /\ q \in Nat
  BY <1>1, DivMod
<1>3. p <= q
  BY <1>1, DivMono
<1>4. BlockSize \in Nat \ {0}
  BY SizesAssumption
<1>5. Cut(lo, hi, i, c) = BlockSize * (lo + p) /\ Cut(lo, hi, j, c) = BlockSize * (lo + q)
  BY DEF Cut
<1> HIDE DEF n, p, q
<1>6. BlockSize * (lo + p) <= BlockSize * (lo + q)
  BY <1>2, <1>3, <1>4
<1> QED
  BY <1>5, <1>6

\* The first block and the block after the last one of [x, x + n).
LEMMA BlockBounds ==
  ASSUME NEW p \in Nat, NEW n \in Nat
  PROVE  LET x == BlockSize * p
             hi == Bmax(x, n)
         IN  /\ x \in Nat /\ Bmin(x) = p
             /\ hi \in Nat /\ p <= hi
             /\ x + n <= BlockSize * hi
             /\ n > 0 => p < hi /\ BlockSize * hi < x + n + BlockSize
             /\ n = 0 => p = hi
<1> DEFINE x == BlockSize * p
           m == x + n + BlockSize - 1
           hi == m \div BlockSize
<1>1. BlockSize \in Nat \ {0} /\ x \in Nat /\ m \in Nat
  BY SizesAssumption
<1>2. Bmax(x, n) = hi
  BY DEF Bmax
<1>3. hi \in Nat /\ m % BlockSize \in 0 .. (BlockSize - 1) /\ m = BlockSize * hi + (m % BlockSize)
  BY <1>1, DivMod
<1>4. Bmin(x) = p
  <2> DEFINE r == x \div BlockSize
  <2>1. r \in Nat /\ x % BlockSize \in 0 .. (BlockSize - 1) /\ x = BlockSize * r + (x % BlockSize)
    BY <1>1, DivMod
  <2>2. r = p
    <3>1. CASE r < p
      <4>1. BlockSize * (r + 1) <= BlockSize * p /\ BlockSize * (r + 1) = BlockSize * r + BlockSize
        BY <1>1, <2>1, <3>1
      <4> HIDE DEF r
      <4> QED
        BY <1>1, <2>1, <4>1
    <3>2. CASE p < r
      <4>1. BlockSize * (p + 1) <= BlockSize * r /\ BlockSize * (p + 1) = BlockSize * p + BlockSize
        BY <1>1, <2>1, <3>2
      <4> HIDE DEF r
      <4> QED
        BY <1>1, <2>1, <4>1
    <3> QED
      BY <2>1, <3>1, <3>2
  <2> QED
    BY <2>2 DEF Bmin
<1>5. x + n <= BlockSize * hi /\ BlockSize * hi < x + n + BlockSize
  <2> HIDE DEF hi
  <2> QED
    BY <1>1, <1>3
<1>6. p <= hi
  <2> SUFFICES ASSUME hi < p PROVE FALSE
    BY <1>3
  <2>1. BlockSize * (hi + 1) <= BlockSize * p /\ BlockSize * (hi + 1) = BlockSize * hi + BlockSize
    BY <1>1, <1>3
  <2> HIDE DEF hi
  <2> QED
    BY <1>1, <1>3, <1>5, <2>1
<1>7. ASSUME n > 0 PROVE p < hi
  <2> SUFFICES ASSUME hi = p PROVE FALSE
    BY <1>3, <1>6
  <2> HIDE DEF hi
  <2> QED
    BY <1>1, <1>3, <1>5, <1>7
<1>8. ASSUME n = 0 PROVE p = hi
  <2> SUFFICES ASSUME p < hi PROVE FALSE
    BY <1>3, <1>6
  <2>1. BlockSize * (p + 1) <= BlockSize * hi /\ BlockSize * (p + 1) = BlockSize * p + BlockSize
    BY <1>1, <1>3
  <2> HIDE DEF hi
  <2> QED
    BY <1>1, <1>3, <1>5, <1>8, <2>1
<1> QED
  BY <1>1, <1>2, <1>3, <1>4, <1>5, <1>6, <1>7, <1>8

\* One piece of [x, x + n), x a block boundary, of those that c threads take.
LEMMA PieceBounds ==
  ASSUME NEW p \in Nat, NEW n \in Nat, NEW c \in Nat \ {0}, NEW i \in 0 .. (c - 1)
  PROVE  LET x == BlockSize * p
         IN  /\ Xmin(x, n, i, c) \in Nat /\ Xmax(x, n, i, c) \in Nat
             /\ \E q \in Nat : Xmin(x, n, i, c) = BlockSize * q
             /\ Xmin(x, n, i, c) = Cut(Bmin(x), Bmax(x, n), i, c)
             /\ Xmax(x, n, i, c) <= Cut(Bmin(x), Bmax(x, n), i + 1, c)
             /\ x <= Xmin(x, n, i, c)
             /\ Xmin(x, n, i, c) <= Xmax(x, n, i, c)
             /\ Xmax(x, n, i, c) <= x + n
<1> DEFINE x == BlockSize * p
           hi == Bmax(x, n)
           lower == Cut(p, hi, i, c)
           upper == Cut(p, hi, i + 1, c)
<1>0. BlockSize \in Nat \ {0} /\ i \in 0 .. c /\ i + 1 \in 0 .. c /\ i < c
  BY SizesAssumption
<1>1. /\ x \in Nat /\ Bmin(x) = p
      /\ hi \in Nat /\ p <= hi
      /\ n > 0 => p < hi /\ BlockSize * hi < x + n + BlockSize
      /\ n = 0 => p = hi
  BY BlockBounds
<1>2. PICK q \in Nat : /\ lower = BlockSize * q
                       /\ p <= q /\ q <= hi
                       /\ p < hi => q < hi
  BY <1>0, <1>1, CutFacts
<1>3. PICK r \in Nat : upper = BlockSize * r /\ p <= r
  BY <1>0, <1>1, CutFacts
<1>4. lower <= upper
  BY <1>0, <1>1, CutMono
<1>5. x <= lower /\ x <= upper /\ lower \in Nat /\ upper \in Nat
  BY <1>0, <1>2, <1>3
<1>6. lower <= x + n
  <2>1. CASE n = 0
    <3>1. q = p
      BY <1>1, <1>2, <2>1
    <3> QED
      BY <1>0, <1>1, <1>2, <2>1, <3>1
  <2>2. CASE n > 0
    <3>1. q + 1 <= hi
      BY <1>1, <1>2, <2>2
    <3>2. BlockSize * (q + 1) <= BlockSize * hi /\ BlockSize * (q + 1) = BlockSize * q + BlockSize
      BY <1>0, <1>1, <1>2, <3>1
    <3> HIDE DEF x, hi
    <3> QED
      BY <1>0, <1>1, <1>2, <2>2, <3>2
  <2> QED
    BY <2>1, <2>2
<1>7. Xmin(x, n, i, c) = lower
  BY <1>1, <1>5 DEF Xmin, Most
<1>8. Xmax(x, n, i, c) = IF x + n < upper THEN x + n ELSE upper
  BY <1>1 DEF Xmax, Fewest
<1> HIDE DEF x, hi, lower, upper
<1> QED
  BY <1>1, <1>2, <1>4, <1>5, <1>6, <1>7, <1>8 DEF x, hi, lower, upper

\* A piece ends before the next one begins.
LEMMA PiecesOrdered ==
  ASSUME NEW p \in Nat, NEW n \in Nat, NEW c \in Nat \ {0},
         NEW i \in 0 .. (c - 1), NEW j \in 0 .. (c - 1), i < j
  PROVE  Xmax(BlockSize * p, n, i, c) <= Xmin(BlockSize * p, n, j, c)
<1> DEFINE x == BlockSize * p
<1>1. x \in Nat /\ Bmin(x) = p /\ Bmax(x, n) \in Nat /\ p <= Bmax(x, n)
  BY BlockBounds
<1>2. i + 1 \in 0 .. c /\ j \in 0 .. c /\ i + 1 <= j
  OBVIOUS
<1>3. Cut(Bmin(x), Bmax(x, n), i + 1, c) <= Cut(Bmin(x), Bmax(x, n), j, c)
  BY <1>1, <1>2, CutMono
<1>4. /\ Xmin(x, n, j, c) = Cut(Bmin(x), Bmax(x, n), j, c)
      /\ Xmax(x, n, i, c) <= Cut(Bmin(x), Bmax(x, n), i + 1, c)
      /\ Xmax(x, n, i, c) \in Nat /\ Xmin(x, n, j, c) \in Nat
  BY PieceBounds, ZenonT(40)
<1>5. Cut(Bmin(x), Bmax(x, n), i + 1, c) \in Nat
  <2> DEFINE k == i + 1
  <2>1. k \in 0 .. (c - 1)
    OBVIOUS
  <2> HIDE DEF k
  <2>2. Xmin(x, n, k, c) = Cut(Bmin(x), Bmax(x, n), k, c) /\ Xmin(x, n, k, c) \in Nat
    BY <2>1, PieceBounds
  <2> QED
    BY <2>2 DEF k
<1> HIDE DEF x
<1> QED
  BY <1>3, <1>4, <1>5 DEF x

\* Every element of [x, x + n) is in a piece: with q blocks before its own of
\* the m blocks, in piece (c * (q + 1) - 1) \div m.
LEMMA SomePiece ==
  ASSUME NEW p \in Nat, NEW n \in Nat, NEW c \in Nat \ {0}, NEW e \in Nat,
         BlockSize * p <= e, e < BlockSize * p + n
  PROVE  \E i \in 0 .. (c - 1) :
           Xmin(BlockSize * p, n, i, c) <= e /\ e < Xmax(BlockSize * p, n, i, c)
<1> DEFINE x == BlockSize * p
           hi == Bmax(x, n)
           b == e \div BlockSize
           m == hi - p
           q == b - p
           t == c * (q + 1) - 1
           i == t \div m
<1>0. BlockSize \in Nat \ {0}
  BY SizesAssumption
<1>1. x \in Nat /\ Bmin(x) = p /\ hi \in Nat /\ p <= hi /\ x + n <= BlockSize * hi
  BY BlockBounds
<1>2. b \in Nat /\ e % BlockSize \in 0 .. (BlockSize - 1) /\ e = BlockSize * b + (e % BlockSize)
  BY <1>0, DivMod
<1>3. p <= b
  <2> SUFFICES ASSUME b < p PROVE FALSE
    BY <1>2
  <2>1. BlockSize * (b + 1) <= BlockSize * p /\ BlockSize * (b + 1) = BlockSize * b + BlockSize
    BY <1>0, <1>2
  <2> HIDE DEF b
  <2> QED
    BY <1>0, <1>2, <2>1
<1>4. b < hi
  <2>1. e < BlockSize * hi
    <3> HIDE DEF hi
    <3> QED
      BY <1>0, <1>1
  <2> HIDE DEF hi
  <2> QED
    BY <1>0, <1>1, <2>1, DivLess
<1> HIDE DEF x, hi, b
<1>5. m \in Nat \ {0} /\ q \in Nat /\ q + 1 <= m
  BY <1>1, <1>2, <1>3, <1>4
<1>6. p + m = hi /\ p + q = b
  BY <1>1, <1>2
<1> HIDE DEF m, q
<1>7. c * (q + 1) <= c * m /\ c * (q + 1) \in Nat \ {0} /\ c * m = m * c /\ m * c \in Nat
  BY <1>5
<1>8. t \in Nat /\ t < m * c /\ t + 1 = c * (q + 1)
  <2> DEFINE k == c * (q + 1)
             l == c * m
  <2>1. k \in Nat \ {0} /\ k <= l /\ l = m * c /\ m * c \in Nat
    BY <1>7
  <2> HIDE DEF k, l
  <2>2. k - 1 \in Nat /\ k - 1 < l /\ k - 1 + 1 = k
    BY <2>1
  <2> QED
    BY <2>1, <2>2 DEF k, l
<1> HIDE DEF t
<1>9. i \in Nat /\ t % m \in 0 .. (m - 1) /\ t = m * i + (t % m)
  BY <1>5, <1>8, DivMod
<1>10. i < c
  BY <1>5, <1>8, DivLess
<1> HIDE DEF i
<1>11. m * i \in Nat /\ m * (i + 1) \in Nat /\ m * (i + 1) = m * i + m
  BY <1>5, <1>9
<1>12. m * i < c * (q + 1) /\ c * (q + 1) <= m * (i + 1)
  <2> DEFINE k == c * (q + 1)
             l == m * i
             r == t % m
  <2>1. k \in Nat /\ l \in Nat /\ r \in 0 .. (m - 1) /\ t = l + r /\ t + 1 = k /\ m \in Nat
    BY <1>5, <1>7, <1>8, <1>9, <1>11
  <2> HIDE DEF k, l, r
  <2>2. l < k /\ k <= l + m
    BY <2>1
  <2> QED
    BY <1>11, <2>2 DEF k, l
<1>13. (m * i) \div c < q + 1
  <2> DEFINE l == m * i
             k == q + 1
  <2>1. l \in Nat /\ k \in Nat /\ l < c * k
    BY <1>5, <1>11, <1>12
  <2> HIDE DEF l, k
  <2>2. l \div c < k
    BY <2>1, DivLess
  <2> QED
    BY <2>2 DEF l, k
<1>14. (m * i) \div c \in Nat
  BY <1>11, DivMod
<1>15. (m * (i + 1)) \div c \in Nat /\ q + 1 <= (m * (i + 1)) \div c
  <2> DEFINE j == m * (i + 1)
             s == j \div c
  <2>1. j \in Nat
    BY <1>11
  <2> HIDE DEF j
  <2>2. s \in Nat /\ j % c \in 0 .. (c - 1) /\ j = c * s + (j % c)
    BY <2>1, DivMod
  <2>3. SUFFICES ASSUME s < q + 1 PROVE FALSE
    BY <1>5, <2>2 DEF j
  <2> HIDE DEF s
  <2>4. c * (s + 1) <= c * (q + 1) /\ c * (s + 1) = c * s + c
    BY <1>5, <2>2, <2>3
  <2>5. c * (q + 1) <= j
    BY <1>12 DEF j
  <2>6. c * s \in Nat /\ c * (q + 1) \in Nat
    BY <1>7, <2>2
  <2> HIDE DEF j
  <2> QED
    BY <2>1, <2>2, <2>4, <2>5, <2>6
<1>16. Cut(p, hi, i, c) <= e
  <2> DEFINE s == (m * i) \div c
  <2>1. s \in Nat /\ p + s <= b
    BY <1>5, <1>6, <1>13, <1>14
  <2>2. Cut(p, hi, i, c) = BlockSize * (p + s)
    BY DEF Cut, m
  <2> HIDE DEF s
  <2>3. BlockSize * (p + s) <= BlockSize * b
    BY <1>0, <1>2, <2>1
  <2> QED
    BY <1>0, <1>2, <2>1, <2>2, <2>3
<1>17. e < Cut(p, hi, i + 1, c)
  <2> DEFINE s == (m * (i + 1)) \div c
  <2>1. s \in Nat /\ b + 1 <= p + s
    BY <1>5, <1>6, <1>15
  <2>2. Cut(p, hi, i + 1, c) = BlockSize * (p + s)
    BY DEF Cut, m
  <2> HIDE DEF s
  <2>3. BlockSize * (b + 1) <= BlockSize * (p + s) /\ BlockSize * (b + 1) = BlockSize * b + BlockSize
    BY <1>0, <1>2, <2>1
  <2>4. BlockSize * (p + s) \in Nat
    BY <1>0, <2>1
  <2> QED
    BY <1>0, <1>2, <2>2, <2>3, <2>4
<1>18. x <= e /\ e < x + n
  BY DEF x
<1>19. Xmin(x, n, i, c) <= e /\ e < Xmax(x, n, i, c)
  BY <1>1, <1>16, <1>17, <1>18 DEF Xmin, Xmax, Most, Fewest, hi
<1>20. i \in 0 .. (c - 1)
  BY <1>9, <1>10
<1> QED
  BY <1>19, <1>20 DEF x

-----------------------------------------------------------------------------
\* The dimensions of the views, and the views in so many dimensions.
Axes == DOMAIN root.x
Boxes == [x : [Axes -> Nat], n : [Axes -> Nat]]

\* View v begins at block boundaries.
AtBoundary(v) == \A d \in Axes : \E q \in Nat : v.x[d] = BlockSize * q

\* View v is part of view w.
Within(v, w) ==
  \A d \in Axes : w.x[d] <= v.x[d] /\ v.x[d] + v.n[d] <= w.x[d] + w.n[d]

\* Views v and w have elements of one block.
Overlap(v, w) == \E b \in [Axes -> Nat] : Touches(v, b) /\ Touches(w, b)

\* The whole view begins at block boundaries, as documented.
RootAligned == \A d \in DOMAIN root.x : root.x[d] % BlockSize = 0

PartitionInv ==
  /\ \E D \in Dims : root \in Roots(D)
  /\ views \subseteq Boxes
  /\ \A v \in views : AtBoundary(v) /\ Within(v, root)
  /\ \A v, w \in views : v # w => ~Overlap(v, w)

\* The whole view is a view, in one to four dimensions.
LEMMA RootBox ==
  ASSUME NEW D \in Dims, root \in Roots(D)
  PROVE  /\ D \in 1 .. 4 /\ Axes = 1 .. D
         /\ root.x \in [Axes -> Nat] /\ root.n \in [Axes -> Nat]
         /\ \A d \in Axes : root.x[d] + root.n[d] < SizeRange
BY SizesAssumption DEF Axes

\* A view is partitioned along one of its dimensions.
LEMMA SplitDimType ==
  ASSUME NEW D \in 1 .. 4, NEW n \in [1 .. D -> Nat]
  PROVE  SplitDim(n) \in 1 .. D
<1>1. DOMAIN n = 1 .. D
  OBVIOUS
<1>2. /\ 1 .. 1 # 1 .. 2 /\ 1 .. 1 # 1 .. 3 /\ 1 .. 1 # 1 .. 4
      /\ 1 .. 2 # 1 .. 3 /\ 1 .. 2 # 1 .. 4 /\ 1 .. 3 # 1 .. 4
  <2>1. 2 \in 1 .. 2 /\ 2 \notin 1 .. 1 /\ 3 \in 1 .. 3 /\ 3 \notin 1 .. 2 /\ 3 \notin 1 .. 1
    OBVIOUS
  <2>2. 4 \in 1 .. 4 /\ 4 \notin 1 .. 3 /\ 4 \notin 1 .. 2 /\ 4 \notin 1 .. 1
    OBVIOUS
  <2> QED
    BY <2>1, <2>2, Zenon
<1>3. CASE D = 1
  BY <1>1, <1>2, <1>3 DEF SplitDim
<1>4. CASE D = 2
  BY <1>1, <1>2, <1>4 DEF SplitDim
<1>5. CASE D = 3
  BY <1>1, <1>2, <1>5 DEF SplitDim
<1>6. CASE D = 4
  BY <1>1, <1>2, <1>6 DEF SplitDim
<1> QED
  BY <1>3, <1>4, <1>5, <1>6

\* What partition(i, c) makes of a view that begins at block boundaries and
\* is part of the whole view.
LEMMA PieceFacts ==
  ASSUME PartitionInv, NEW v \in views, NEW c \in Nat \ {0}, NEW i \in 0 .. (c - 1)
  PROVE  LET d == SplitDim(v.n)
             lo == Xmin(v.x[d], v.n[d], i, c)
             hi == Xmax(v.x[d], v.n[d], i, c)
         IN  /\ d \in Axes
             /\ lo \in Nat /\ hi \in Nat /\ lo <= hi
             /\ Piece(v, i, c) = [x |-> [v.x EXCEPT ![d] = lo],
                                  n |-> [v.n EXCEPT ![d] = hi - lo]]
             /\ Piece(v, i, c) \in Boxes
             /\ AtBoundary(Piece(v, i, c))
             /\ Within(Piece(v, i, c), v)
<1> DEFINE d == SplitDim(v.n)
           lo == Xmin(v.x[d], v.n[d], i, c)
           hi == Xmax(v.x[d], v.n[d], i, c)
           w == Piece(v, i, c)
<1>1. PICK D \in Dims : root \in Roots(D)
  BY DEF PartitionInv
<1>2. /\ D \in 1 .. 4 /\ Axes = 1 .. D
      /\ root.x \in [Axes -> Nat] /\ root.n \in [Axes -> Nat]
      /\ \A e \in Axes : root.x[e] + root.n[e] < SizeRange
  BY <1>1, RootBox
<1>3. v \in Boxes /\ v.x \in [Axes -> Nat] /\ v.n \in [Axes -> Nat]
  BY DEF PartitionInv, Boxes
<1>4. d \in Axes
  BY <1>2, <1>3, SplitDimType
<1>5. PICK p \in Nat : v.x[d] = BlockSize * p
  BY <1>4 DEF PartitionInv, AtBoundary
<1>6. v.n[d] \in Nat /\ v.x[d] \in Nat
  BY <1>3, <1>4
<1>7. /\ lo \in Nat /\ hi \in Nat
      /\ \E q \in Nat : lo = BlockSize * q
      /\ v.x[d] <= lo /\ lo <= hi /\ hi <= v.x[d] + v.n[d]
  <2> DEFINE n == v.n[d]
             x == BlockSize * p
  <2>1. n \in Nat /\ lo = Xmin(x, n, i, c) /\ hi = Xmax(x, n, i, c) /\ v.x[d] = x
    BY <1>5, <1>6
  <2> HIDE DEF d, n, lo, hi
  <2>2. /\ Xmin(x, n, i, c) \in Nat /\ Xmax(x, n, i, c) \in Nat
        /\ \E q \in Nat : Xmin(x, n, i, c) = BlockSize * q
        /\ x <= Xmin(x, n, i, c)
        /\ Xmin(x, n, i, c) <= Xmax(x, n, i, c)
        /\ Xmax(x, n, i, c) <= x + n
    BY <2>1, PieceBounds
  <2> HIDE DEF x
  <2> QED
    BY <2>1, <2>2 DEF n
<1>8. v.x[d] + v.n[d] < SizeRange
  <2>1. v.x[d] + v.n[d] <= root.x[d] + root.n[d]
    BY <1>4 DEF PartitionInv, Within
  <2>2. root.x[d] \in Nat /\ root.n[d] \in Nat
    BY <1>2, <1>4
  <2>3. root.x[d] + root.n[d] < SizeRange
    BY <1>2, <1>4
  <2>4. SizeRange \in Nat
    BY SizesAssumption
  <2> HIDE DEF d
  <2> QED
    BY ONLY <1>6, <2>1, <2>2, <2>3, <2>4
<1>9. (hi - lo) % SizeRange = hi - lo
  <2>1. hi - lo \in 0 .. (SizeRange - 1) /\ SizeRange \in Nat \ {0}
    <3> HIDE DEF d, lo, hi
    <3> QED
      BY <1>6, <1>7, <1>8, SizesAssumption
  <2> HIDE DEF d, lo, hi
  <2> QED
    BY <2>1
<1>10. w = [x |-> [v.x EXCEPT ![d] = lo], n |-> [v.n EXCEPT ![d] = hi - lo]]
  BY <1>9 DEF Piece
<1> HIDE DEF d, lo, hi, w
<1>11. /\ w.x = [v.x EXCEPT ![d] = lo] /\ w.n = [v.n EXCEPT ![d] = hi - lo]
       /\ hi - lo \in Nat
  BY <1>7, <1>10
<1>12. w.x \in [Axes -> Nat] /\ w.n \in [Axes -> Nat]
  BY <1>3, <1>4, <1>7, <1>11
<1>13. w \in Boxes
  BY <1>10, <1>11, <1>12 DEF Boxes
<1>14. /\ w.x[d] = lo /\ w.n[d] = hi - lo
       /\ \A e \in Axes : e # d => w.x[e] = v.x[e] /\ w.n[e] = v.n[e]
  BY <1>3, <1>4, <1>11
<1>15. AtBoundary(w)
  BY <1>7, <1>14 DEF AtBoundary, PartitionInv
<1>16. Within(w, v)
  <2> SUFFICES ASSUME NEW e \in Axes
               PROVE  v.x[e] <= w.x[e] /\ w.x[e] + w.n[e] <= v.x[e] + v.n[e]
    BY DEF Within
  <2>1. CASE e = d
    BY <1>6, <1>7, <1>14, <2>1
  <2>2. CASE e # d
    BY <1>3, <1>14, <2>2
  <2> QED
    BY <2>1, <2>2
<1> QED
  BY <1>4, <1>7, <1>10, <1>13, <1>15, <1>16 DEF d, lo, hi, w

\* A part of a view touches no block that the view does not touch.
LEMMA WithinTouches ==
  ASSUME NEW v \in Boxes, NEW w \in Boxes, Within(w, v),
         NEW b \in [Axes -> Nat], Touches(w, b)
  PROVE  Touches(v, b)
<1>1. BlockSize \in Nat
  BY SizesAssumption
<1>2. DOMAIN v.x = Axes /\ DOMAIN w.x = Axes
  BY DEF Boxes
<1> SUFFICES ASSUME NEW d \in Axes
             PROVE  /\ v.n[d] > 0
                    /\ v.x[d] < (b[d] + 1) * BlockSize
                    /\ b[d] * BlockSize < v.x[d] + v.n[d]
  BY <1>2 DEF Touches
<1>3. /\ v.x[d] \in Nat /\ v.n[d] \in Nat /\ w.x[d] \in Nat /\ w.n[d] \in Nat /\ b[d] \in Nat
  BY DEF Boxes
<1>4. /\ w.n[d] > 0
      /\ w.x[d] < (b[d] + 1) * BlockSize
      /\ b[d] * BlockSize < w.x[d] + w.n[d]
  BY <1>2 DEF Touches
<1>5. v.x[d] <= w.x[d] /\ w.x[d] + w.n[d] <= v.x[d] + v.n[d]
  BY DEF Within
<1>6. (b[d] + 1) * BlockSize \in Nat /\ b[d] * BlockSize \in Nat
  BY <1>1, <1>3
<1> QED
  BY <1>3, <1>4, <1>5, <1>6

\* Different pieces of a view share no block.
LEMMA SiblingsApart ==
  ASSUME PartitionInv, NEW v \in views, NEW c \in Nat \ {0},
         NEW i \in 0 .. (c - 1), NEW j \in 0 .. (c - 1), i < j
  PROVE  ~Overlap(Piece(v, i, c), Piece(v, j, c))
<1> DEFINE d == SplitDim(v.n)
           left == Piece(v, i, c)
           right == Piece(v, j, c)
           lo(k) == Xmin(v.x[d], v.n[d], k, c)
           hi(k) == Xmax(v.x[d], v.n[d], k, c)
<1>1. /\ d \in Axes /\ lo(i) \in Nat /\ hi(i) \in Nat /\ lo(i) <= hi(i)
      /\ left = [x |-> [v.x EXCEPT ![d] = lo(i)], n |-> [v.n EXCEPT ![d] = hi(i) - lo(i)]]
      /\ left \in Boxes
  BY PieceFacts
<1>2. /\ lo(j) \in Nat /\ hi(j) \in Nat /\ lo(j) <= hi(j)
      /\ right = [x |-> [v.x EXCEPT ![d] = lo(j)], n |-> [v.n EXCEPT ![d] = hi(j) - lo(j)]]
      /\ right \in Boxes /\ AtBoundary(right)
  BY PieceFacts
<1>3. v.x \in [Axes -> Nat] /\ v.n \in [Axes -> Nat]
  BY DEF PartitionInv, Boxes
<1>4. PICK p \in Nat : v.x[d] = BlockSize * p
  BY <1>1 DEF PartitionInv, AtBoundary
<1>5. v.n[d] \in Nat
  BY <1>1, <1>3
<1>6. hi(i) <= lo(j)
  <2> HIDE DEF d
  <2> QED
    BY <1>4, <1>5, PiecesOrdered
<1>7. /\ left.x[d] = lo(i) /\ left.n[d] = hi(i) - lo(i)
      /\ right.x[d] = lo(j) /\ right.n[d] = hi(j) - lo(j)
  <2> HIDE DEF d, lo, hi, left, right
  <2> QED
    BY <1>1, <1>2, <1>3
<1>8. PICK q \in Nat : lo(j) = BlockSize * q
  <2> HIDE DEF d, lo, hi, left, right
  <2> QED
    BY <1>1, <1>2, <1>7 DEF AtBoundary
<1> HIDE DEF d, lo, hi, left, right
<1>9. ASSUME NEW b \in [Axes -> Nat], Touches(left, b), Touches(right, b)
      PROVE  FALSE
  <2>1. DOMAIN left.x = Axes /\ DOMAIN right.x = Axes
    BY <1>1, <1>2 DEF Boxes
  <2>2. b[d] \in Nat /\ BlockSize \in Nat \ {0}
    BY <1>1, SizesAssumption
  <2>3. b[d] * BlockSize < left.x[d] + left.n[d]
    BY <1>1, <1>9, <2>1 DEF Touches
  <2>4. right.x[d] < (b[d] + 1) * BlockSize
    BY <1>1, <1>9, <2>1 DEF Touches
  <2>5. b[d] * BlockSize < BlockSize * q /\ BlockSize * q < (b[d] + 1) * BlockSize
    <3>1. b[d] * BlockSize \in Nat /\ BlockSize * q \in Nat
      BY <2>2
    <3> QED
      BY <1>1, <1>2, <1>6, <1>7, <1>8, <2>3, <2>4, <3>1
  <2>6. CASE q <= b[d]
    <3>1. BlockSize * q <= b[d] * BlockSize
      BY <2>2, <2>6
    <3> QED
      BY <2>2, <2>5, <3>1
  <2>7. CASE b[d] + 1 <= q
    <3>1. (b[d] + 1) * BlockSize <= BlockSize * q
      BY <2>2, <2>7
    <3> QED
      BY <2>2, <2>5, <3>1
  <2> QED
    BY <2>2, <2>6, <2>7
<1> QED
  BY <1>9 DEF Overlap, left, right

LEMMA InitPartition == Init /\ RootAligned => PartitionInv
<1> SUFFICES ASSUME Init, RootAligned PROVE PartitionInv
  OBVIOUS
<1>1. PICK D \in Dims : root \in Roots(D)
  BY DEF Init
<1>2. root.x \in [Axes -> Nat] /\ root.n \in [Axes -> Nat]
  BY <1>1, RootBox
<1>3. root = [x |-> root.x, n |-> root.n]
  BY <1>1, SizesAssumption
<1>4. root \in Boxes
  BY <1>2, <1>3 DEF Boxes
<1>5. AtBoundary(root)
  <2> SUFFICES ASSUME NEW d \in Axes PROVE \E q \in Nat : root.x[d] = BlockSize * q
    BY DEF AtBoundary
  <2>1. root.x[d] \in Nat /\ root.x[d] % BlockSize = 0
    BY <1>2 DEF RootAligned, Axes
  <2>2. BlockSize \in Nat \ {0}
    BY SizesAssumption
  <2>3. /\ root.x[d] \div BlockSize \in Nat
        /\ root.x[d] = BlockSize * (root.x[d] \div BlockSize) + (root.x[d] % BlockSize)
    BY <2>1, <2>2, DivMod
  <2> QED
    BY <2>1, <2>2, <2>3
<1>6. Within(root, root)
  BY <1>2 DEF Within
<1> QED
  BY <1>1, <1>4, <1>5, <1>6 DEF PartitionInv, Init

LEMMA PartitionStep ==
  ASSUME PartitionInv, NEW v \in views, NEW c \in 1 .. MaxCount, Partition(v, c)
  PROVE  PartitionInv'
<1>1. c \in Nat \ {0}
  BY SizesAssumption
<1>2. root' = root /\ views' = (views \ {v}) \cup {Piece(v, i, c) : i \in 0 .. (c - 1)}
  BY DEF Partition
<1>3. /\ Axes' = Axes /\ Boxes' = Boxes
      /\ \A w : AtBoundary(w)' <=> AtBoundary(w)
      /\ \A w, u : (Within(w, u)' <=> Within(w, u)) /\ (Overlap(w, u)' <=> Overlap(w, u))
  BY <1>2 DEF Axes, Boxes, AtBoundary, Within, Overlap, Touches
<1>4. \A i \in 0 .. (c - 1) :
        /\ Piece(v, i, c) \in Boxes /\ AtBoundary(Piece(v, i, c))
        /\ Within(Piece(v, i, c), v)
  BY <1>1, PieceFacts
<1>5. views \subseteq Boxes /\ v \in Boxes
  BY DEF PartitionInv
<1>6. PICK D \in Dims : root \in Roots(D)
  BY DEF PartitionInv
<1>7. root.x \in [Axes -> Nat] /\ root.n \in [Axes -> Nat]
  BY <1>6, RootBox
<1>8. \A w \in views' : w \in Boxes /\ AtBoundary(w) /\ Within(w, root)
  <2> SUFFICES ASSUME NEW w \in views'
               PROVE  w \in Boxes /\ AtBoundary(w) /\ Within(w, root)
    OBVIOUS
  <2>1. CASE w \in views
    BY <2>1 DEF PartitionInv
  <2>2. ASSUME NEW i \in 0 .. (c - 1), w = Piece(v, i, c)
        PROVE  w \in Boxes /\ AtBoundary(w) /\ Within(w, root)
    <3>1. w \in Boxes /\ AtBoundary(w) /\ Within(w, v) /\ Within(v, root)
      BY <1>4, <2>2 DEF PartitionInv
    <3>2. \A d \in Axes : /\ w.x[d] \in Nat /\ w.n[d] \in Nat
                          /\ v.x[d] \in Nat /\ v.n[d] \in Nat
                          /\ root.x[d] \in Nat /\ root.n[d] \in Nat
      BY <1>5, <1>7, <3>1 DEF Boxes
    <3>3. Within(w, root)
      BY <3>1, <3>2 DEF Within
    <3> QED
      BY <3>1, <3>3
  <2> QED
    BY <1>2, <2>1, <2>2
<1>9. \A i, j \in 0 .. (c - 1) : Piece(v, i, c) # Piece(v, j, c) =>
        ~Overlap(Piece(v, i, c), Piece(v, j, c))
  <2> SUFFICES ASSUME NEW i \in 0 .. (c - 1), NEW j \in 0 .. (c - 1),
                      Piece(v, i, c) # Piece(v, j, c)
               PROVE  ~Overlap(Piece(v, i, c), Piece(v, j, c))
    OBVIOUS
  <2>1. CASE i < j
    BY <1>1, <2>1, SiblingsApart
  <2>2. CASE j < i
    <3>1. ~Overlap(Piece(v, j, c), Piece(v, i, c))
      BY <1>1, <2>2, SiblingsApart
    <3> QED
      BY <3>1 DEF Overlap
  <2>3. i # j
    OBVIOUS
  <2> QED
    BY <2>1, <2>2, <2>3
<1>10. \A u \in views \ {v} : \A i \in 0 .. (c - 1) :
         ~Overlap(u, Piece(v, i, c)) /\ ~Overlap(Piece(v, i, c), u)
  <2> SUFFICES ASSUME NEW u \in views \ {v}, NEW i \in 0 .. (c - 1),
                      NEW b \in [Axes -> Nat], Touches(u, b), Touches(Piece(v, i, c), b)
               PROVE  FALSE
    BY DEF Overlap
  <2>1. Touches(v, b)
    BY <1>4, <1>5, WithinTouches
  <2> QED
    BY <2>1 DEF PartitionInv, Overlap
<1>11. \A u, w \in views' : u # w => ~Overlap(u, w)
  BY <1>2, <1>9, <1>10 DEF PartitionInv
<1> QED
  BY <1>2, <1>3, <1>6, <1>8, <1>11 DEF PartitionInv

\* Pieces begin at block boundaries, lie within the whole view and share no
\* block, however often views are partitioned (private_view::partition).
THEOREM PartitionInvariant == Spec /\ RootAligned => []PartitionInv
<1>1. PartitionInv /\ [Next]_vars => PartitionInv'
  <2> SUFFICES ASSUME PartitionInv, [Next]_vars PROVE PartitionInv'
    OBVIOUS
  <2>1. CASE Next
    BY <2>1, PartitionStep DEF Next
  <2>2. CASE UNCHANGED vars
    BY <2>2 DEF vars, PartitionInv, Axes, Boxes, AtBoundary, Within, Overlap, Touches
  <2> QED
    BY <2>1, <2>2
<1> QED
  BY <1>1, InitPartition, PTL DEF Spec

\* No block belongs to two of the views that the threads hold, so that
\* blocks may be compressed without locks (private_view::partition).
THEOREM PiecesShareNoBlock == Spec /\ RootAligned => []NoSharedBlock
<1>1. PartitionInv => NoSharedBlock
  <2> SUFFICES ASSUME PartitionInv, NEW v \in views, NEW w \in views, v # w,
                      NEW b \in RootBlocks, Touches(v, b), Touches(w, b)
               PROVE  FALSE
    BY DEF NoSharedBlock
  <2>1. b \in [Axes -> Nat]
    <3>1. PICK D \in Dims : root \in Roots(D)
      BY DEF PartitionInv
    <3>2. root.x \in [Axes -> Nat] /\ root.n \in [Axes -> Nat]
      BY <3>1, RootBox
    <3>3. ASSUME NEW d \in Axes PROVE b[d] \in Nat
      <4>1. PICK e \in Axes : b[d] \in Bmin(root.x[e]) .. Bmax(root.x[e], root.n[e])
        BY DEF RootBlocks, Axes
      <4>2. root.x[e] \in Nat /\ BlockSize \in Nat \ {0}
        BY <3>2, SizesAssumption
      <4>3. Bmin(root.x[e]) \in Nat
        BY <4>2, DivMod DEF Bmin
      <4> QED
        BY <4>1, <4>3
    <3>4. b \in [Axes -> UNION {Bmin(root.x[d]) .. Bmax(root.x[d], root.n[d]) : d \in DOMAIN root.x}]
      BY DEF RootBlocks, Axes
    <3> QED
      BY <3>3, <3>4
  <2> QED
    BY <2>1 DEF PartitionInv, Overlap
<1> QED
  BY <1>1, PartitionInvariant, PTL

-----------------------------------------------------------------------------
\* No element of the whole view is outside all the views.
Covered == \A e \in [Axes -> Nat] : Contains(root, e) => \E v \in views : Contains(v, e)

LEMMA PieceContains ==
  ASSUME PartitionInv, NEW v \in views, NEW c \in Nat \ {0},
         NEW e \in [Axes -> Nat], Contains(v, e)
  PROVE  \E i \in 0 .. (c - 1) : Contains(Piece(v, i, c), e)
<1> DEFINE d == SplitDim(v.n)
<1>1. v \in Boxes /\ v.x \in [Axes -> Nat] /\ v.n \in [Axes -> Nat]
  BY DEF PartitionInv, Boxes
<1>2. d \in Axes
  <2>1. 0 \in 0 .. (c - 1)
    OBVIOUS
  <2> QED
    BY <2>1, PieceFacts
<1>3. PICK p \in Nat : v.x[d] = BlockSize * p
  BY <1>2 DEF PartitionInv, AtBoundary
<1>4. \A a \in Axes : v.x[a] <= e[a] /\ e[a] < v.x[a] + v.n[a]
  BY <1>1 DEF Contains
<1> HIDE DEF d
<1>5. PICK i \in 0 .. (c - 1) :
        Xmin(v.x[d], v.n[d], i, c) <= e[d] /\ e[d] < Xmax(v.x[d], v.n[d], i, c)
  <2>1. v.n[d] \in Nat /\ e[d] \in Nat
    BY <1>1, <1>2
  <2>2. BlockSize * p <= e[d] /\ e[d] < BlockSize * p + v.n[d]
    BY <1>2, <1>3, <1>4
  <2> QED
    BY <1>3, <2>1, <2>2, SomePiece
<1> DEFINE lo == Xmin(v.x[d], v.n[d], i, c)
           hi == Xmax(v.x[d], v.n[d], i, c)
           w == Piece(v, i, c)
<1>6. /\ lo \in Nat /\ hi \in Nat /\ lo <= hi
      /\ w = [x |-> [v.x EXCEPT ![d] = lo], n |-> [v.n EXCEPT ![d] = hi - lo]]
  BY PieceFacts DEF d
<1>7. lo <= e[d] /\ e[d] < hi /\ e[d] \in Nat
  BY <1>2, <1>5
<1> HIDE DEF lo, hi, w
<1>8. /\ w.x[d] = lo /\ w.n[d] = hi - lo /\ DOMAIN w.x = Axes
      /\ \A a \in Axes : a # d => w.x[a] = v.x[a] /\ w.n[a] = v.n[a]
  BY <1>1, <1>2, <1>6
<1>9. lo + (hi - lo) = hi
  BY <1>6
<1>10. Contains(w, e)
  <2> SUFFICES ASSUME NEW a \in Axes PROVE w.x[a] <= e[a] /\ e[a] < w.x[a] + w.n[a]
    BY <1>8 DEF Contains
  <2>1. CASE a = d
    BY <1>7, <1>8, <1>9, <2>1
  <2>2. CASE a # d
    BY <1>4, <1>8, <2>2
  <2> QED
    BY <2>1, <2>2
<1> QED
  BY <1>10 DEF w

\* Pieces lie within the view that was partitioned (private_view::partition),
\* so that no extent is negative and none wraps, and every element of the view
\* is in one of them, however often pieces are partitioned again.
THEOREM PiecesMakeUpTheView == Spec /\ RootAligned => []PiecesTile
<1>1. Init => Covered
  BY DEF Init, Covered
<1>2. PartitionInv /\ Covered /\ [Next]_vars => Covered'
  <2> SUFFICES ASSUME PartitionInv, Covered, [Next]_vars PROVE Covered'
    OBVIOUS
  <2>1. ASSUME NEW v \in views, NEW c \in 1 .. MaxCount, Partition(v, c)
        PROVE  Covered'
    <3>1. /\ root' = root /\ Axes' = Axes /\ c \in Nat \ {0}
          /\ views' = (views \ {v}) \cup {Piece(v, i, c) : i \in 0 .. (c - 1)}
      BY <2>1, SizesAssumption DEF Partition, Axes
    <3> SUFFICES ASSUME NEW e \in [Axes -> Nat], Contains(root, e)
                 PROVE  \E w \in views' : Contains(w, e)
      BY <3>1 DEF Covered
    <3>2. PICK u \in views : Contains(u, e)
      BY DEF Covered
    <3>3. CASE u # v
      BY <3>1, <3>2, <3>3
    <3>4. CASE u = v
      BY <3>1, <3>2, <3>4, PieceContains
    <3> QED
      BY <3>3, <3>4
  <2>2. CASE UNCHANGED vars
    BY <2>2 DEF vars, Covered, Axes
  <2> QED
    BY <2>1, <2>2 DEF Next
<1>3. PartitionInv /\ Covered => PiecesCover
  <2> SUFFICES ASSUME PartitionInv, Covered,
                      NEW e \in [Axes -> UNION {root.x[d] .. (root.x[d] + root.n[d] - 1) : d \in Axes}],
                      Contains(root, e)
               PROVE  \E v \in views : Contains(v, e)
    BY DEF PiecesCover, Axes
  <2>1. PICK D \in Dims : root \in Roots(D)
    BY DEF PartitionInv
  <2>2. root.x \in [Axes -> Nat] /\ root.n \in [Axes -> Nat]
    BY <2>1, RootBox
  <2>3. ASSUME NEW d \in Axes PROVE e[d] \in Nat
    <3>1. PICK a \in Axes : e[d] \in root.x[a] .. (root.x[a] + root.n[a] - 1)
      OBVIOUS
    <3>2. root.x[a] \in Nat
      BY <2>2
    <3> QED
      BY <3>1, <3>2
  <2>4. e \in [Axes -> Nat]
    BY <2>3
  <2> QED
    BY <2>4 DEF Covered
<1>4. PartitionInv => PiecesWithin
  BY DEF PartitionInv, PiecesWithin, Within, Axes
<1>5. PartitionInv /\ Covered => PiecesTile
  BY <1>3, <1>4 DEF PiecesTile
<1> QED
  BY <1>1, <1>2, <1>5, PartitionInvariant, PTL DEF Spec
=============================================================================
