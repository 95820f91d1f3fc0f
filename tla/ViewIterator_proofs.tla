-------------------------- MODULE ViewIterator_proofs --------------------------
(***************************************************************************)
(* For any views of arrays of one to four dimensions, and after any steps  *)
(* of a cursor - an iterator, a pointer or a handle of the C++ classes or  *)
(* of their C bindings: the cursor is at the element that its count says,  *)
(* or is end(); comparisons and differences of cursors are those of their  *)
(* counts; and the indices that it reports lead back to its element.       *)
(*                                                                         *)
(* Elements are numbered by digits of mixed radices.  RowRank is the       *)
(* number of an element in the order of pointers, BlockRank that in the    *)
(* order of iterators, which visit a block, of what the view clips it to,  *)
(* before the next one.  The two parts of the argument are that the offset *)
(* functions of the code compute these numbers, the index functions invert *)
(* them and ++ and -- step from one to the next; and that the elements are *)
(* ordered as they are numbered, so that as many are ahead of one as its   *)
(* number says.  The invariant, CursorInv, says where a cursor is by its   *)
(* number alone.                                                           *)
(***************************************************************************)
EXTENDS ViewIterator, FiniteSetTheorems, FunctionTheorems, TLAPS

-----------------------------------------------------------------------------
\* Quotients.

\* Products of positive numbers are positive.
LEMMA ProductType == \A i, j \in Nat \ {0} : i * j \in Nat \ {0}
  OBVIOUS

\* Division with remainder by a positive divisor.
LEMMA DivMod ==
  ASSUME NEW n \in Nat, NEW d \in Nat \ {0}
  PROVE  /\ n \div d \in Nat
         /\ n % d \in 0 .. (d - 1)
         /\ n = d * (n \div d) + (n % d)
  OBVIOUS

\* Quotient and remainder are determined by the equation they satisfy.
LEMMA DivModUnique ==
  ASSUME NEW d \in Nat \ {0}, NEW q \in Nat, NEW r \in 0 .. (d - 1)
  PROVE  (d * q + r) \div d = q /\ (d * q + r) % d = r
<1> DEFINE n == d * q + r
           p == n \div d
           t == n % d
<1>1. n \in Nat
  OBVIOUS
<1>2. p \in Nat /\ t \in 0 .. (d - 1) /\ n = d * p + t
  BY <1>1, DivMod
<1>3. d * q + r = d * p + t
  BY <1>2
<1> HIDE DEF n, p, t
<1>4. p = q
  <2>1. CASE p < q
    <3>1. d * p + d <= d * q
      BY <1>2, <2>1
    <3> QED
      BY <1>2, <1>3, <3>1
  <2>2. CASE q < p
    <3>1. d * q + d <= d * p
      BY <1>2, <2>2
    <3> QED
      BY <1>2, <1>3, <3>1
  <2> QED
    BY <1>2, <2>1, <2>2
<1>5. t = r
  BY <1>2, <1>3, <1>4
<1> QED
  BY <1>4, <1>5 DEF n, p, t

\* A quotient of less than d times m is less than m.
LEMMA DivLess ==
  ASSUME NEW n \in Nat, NEW m \in Nat, NEW d \in Nat \ {0}, n < d * m
  PROVE  n \div d < m
<1> DEFINE q == n \div d
<1>1. q \in Nat /\ n % d \in 0 .. (d - 1) /\ n = d * q + (n % d)
  BY DivMod
<1>2. SUFFICES ASSUME m <= q PROVE FALSE
  BY <1>1
<1>3. d * m <= d * q
  BY <1>1, <1>2
<1> HIDE DEF q
<1> QED
  BY <1>1, <1>3

\* Two divisions are one.
LEMMA DivDiv ==
  \A x \in Nat, a \in Nat \ {0}, b \in Nat \ {0} : (x \div a) \div b = x \div (a * b)
<1> SUFFICES ASSUME NEW x \in Nat, NEW a \in Nat \ {0}, NEW b \in Nat \ {0}
             PROVE  (x \div a) \div b = x \div (a * b)
  OBVIOUS
<1> DEFINE q == x \div a
           r == x % a
           u == q \div b
           v == q % b
<1>1. q \in Nat /\ r \in 0 .. (a - 1) /\ x = a * q + r
  BY DivMod
<1>2. u \in Nat /\ v \in 0 .. (b - 1) /\ q = b * u + v
  <2> HIDE DEF q
  <2> QED
    BY <1>1, DivMod
<1> HIDE DEF q, r, u, v
<1>3. a * b \in Nat \ {0}
  OBVIOUS
<1>4. a * v \in Nat /\ a * v <= a * (b - 1) /\ a * (b - 1) = a * b - a
  BY <1>2
<1>5. a * v + r \in 0 .. (a * b - 1)
  BY <1>1, <1>3, <1>4
<1>6. x = (a * b) * u + (a * v + r)
  <2>1. a * (b * u + v) = (a * b) * u + a * v
    BY <1>2
  <2> QED
    BY <1>1, <1>2, <1>4, <2>1
<1>7. x \div (a * b) = u
  <2> DEFINE d == a * b
             s == a * v + r
  <2>1. d \in Nat \ {0} /\ s \in 0 .. (d - 1) /\ x = d * u + s
    BY <1>3, <1>5, <1>6
  <2> HIDE DEF d, s
  <2>2. x \div d = u
    BY <1>2, <2>1, DivModUnique
  <2> QED
    BY <2>2 DEF d
<1> QED
  BY <1>7 DEF q, u

-----------------------------------------------------------------------------
\* Blocks along one dimension, of a view with bounds m and M.

\* Where the block of x begins and ends within the view.
Lo(m, x) == Most(Floor(x), m)
Hi(M, x) == Fewest(Floor(x + BlockSize), M)

\* Blocks have elements.
LEMMA BlockSizeType == BlockSize \in Nat /\ BlockSize > 0
  BY ViewsAssumption

\* The multiple of the block size before x, and the next one.
LEMMA FloorFacts ==
  ASSUME NEW x \in Nat
  PROVE  LET q == x \div BlockSize
         IN  /\ q \in Nat
             /\ Floor(x) = BlockSize * q
             /\ Floor(x + BlockSize) = BlockSize * q + BlockSize
             /\ BlockSize * q <= x /\ x < BlockSize * q + BlockSize
             /\ x % BlockSize = x - BlockSize * q
<1> DEFINE q == x \div BlockSize
           r == x % BlockSize
<1>1. q \in Nat /\ r \in 0 .. (BlockSize - 1) /\ x = BlockSize * q + r /\ BlockSize \in Nat \ {0}
  BY BlockSizeType, DivMod
<1>2. (x + BlockSize) % BlockSize = r
  <2> HIDE DEF q, r
  <2>1. x + BlockSize = BlockSize * (q + 1) + r
    BY <1>1
  <2>2. (BlockSize * (q + 1) + r) % BlockSize = r
    BY <1>1, DivModUnique
  <2> QED
    BY <2>1, <2>2
<1>3. Floor(x) = x - r /\ Floor(x + BlockSize) = x + BlockSize - r
  <2>1. Floor(x) = x - r
    BY DEF Floor
  <2>2. Floor(x + BlockSize) = (x + BlockSize) - ((x + BlockSize) % BlockSize)
    BY Zenon DEF Floor
  <2> HIDE DEF q, r
  <2> QED
    BY <1>1, <1>2, <2>1, <2>2
<1> HIDE DEF q, r
<1>4. /\ q \in Nat
      /\ Floor(x) = BlockSize * q
      /\ Floor(x + BlockSize) = BlockSize * q + BlockSize
      /\ BlockSize * q <= x /\ x < BlockSize * q + BlockSize
      /\ r = x - BlockSize * q
  BY <1>1, <1>3
<1> QED
  BY <1>4 DEF q, r

\* The block of x is the one whose multiples of the block size enclose it.
LEMMA FloorOf ==
  ASSUME NEW x \in Nat, NEW q \in Nat, BlockSize * q <= x, x < BlockSize * q + BlockSize
  PROVE  /\ x \div BlockSize = q
         /\ Floor(x) = BlockSize * q /\ Floor(x + BlockSize) = BlockSize * q + BlockSize
         /\ x % BlockSize = x - BlockSize * q
<1>1. x - BlockSize * q \in 0 .. (BlockSize - 1) /\ BlockSize \in Nat \ {0}
  BY BlockSizeType
<1>2. x = BlockSize * q + (x - BlockSize * q)
  BY <1>1
<1>3. x \div BlockSize = q
  <2> DEFINE r == x - BlockSize * q
  <2>1. (BlockSize * q + r) \div BlockSize = q
    <3> HIDE DEF r
    <3> QED
      BY <1>1, DivModUnique DEF r
  <2> QED
    BY <1>2, <2>1
<1> QED
  BY <1>3, FloorFacts

\* A block of a view holds the elements between its ends, and they agree on it.
LEMMA BlockFacts ==
  ASSUME NEW m \in Nat, NEW M \in Nat, NEW x \in m .. (M - 1)
  PROVE  /\ Lo(m, x) \in Nat /\ Hi(M, x) \in Nat
         /\ m <= Lo(m, x) /\ Lo(m, x) <= x /\ x < Hi(M, x) /\ Hi(M, x) <= M
         /\ \A y \in Lo(m, x) .. (Hi(M, x) - 1) : Lo(m, y) = Lo(m, x) /\ Hi(M, y) = Hi(M, x)
<1> DEFINE q == x \div BlockSize
           f == BlockSize * q
<1>1. /\ q \in Nat /\ Floor(x) = f /\ Floor(x + BlockSize) = f + BlockSize
      /\ f <= x /\ x < f + BlockSize
  BY FloorFacts
<1>2. f \in Nat /\ BlockSize \in Nat \ {0}
  BY <1>1, BlockSizeType
<1>3. /\ Lo(m, x) = IF f > m THEN f ELSE m
      /\ Hi(M, x) = IF f + BlockSize < M THEN f + BlockSize ELSE M
  BY <1>1 DEF Lo, Hi, Most, Fewest
<1>4. ASSUME NEW y \in Lo(m, x) .. (Hi(M, x) - 1)
      PROVE  Lo(m, y) = Lo(m, x) /\ Hi(M, y) = Hi(M, x)
  <2>1. y \in Nat /\ f <= y /\ y < f + BlockSize
    <3> HIDE DEF f
    <3> QED
      BY <1>2, <1>3
  <2>2. Floor(y) = f /\ Floor(y + BlockSize) = f + BlockSize
    BY <1>1, <2>1, FloorOf
  <2> QED
    BY <1>1, <2>2 DEF Lo, Hi
<1> HIDE DEF f
<1>5. /\ Lo(m, x) \in Nat /\ Hi(M, x) \in Nat
      /\ m <= Lo(m, x) /\ Lo(m, x) <= x /\ x < Hi(M, x) /\ Hi(M, x) <= M
  BY <1>1, <1>2, <1>3
<1> QED
  BY <1>4, <1>5

\* How the increment of iterators finds the end of a block, and the next one.
LEMMA BlockEnds ==
  ASSUME NEW m \in Nat, NEW M \in Nat, NEW x \in m .. (M - 1)
  PROVE  /\ (x + 1) % BlockSize = 0 \/ x + 1 = M <=> x + 1 = Hi(M, x)
         /\ Floor(Lo(m, x) + BlockSize) >= M <=> Hi(M, x) = M
         /\ Hi(M, x) < M => /\ Floor(Lo(m, x) + BlockSize) = Hi(M, x)
                            /\ Lo(m, Hi(M, x)) = Hi(M, x)
<1> DEFINE q == x \div BlockSize
           f == BlockSize * q
           b == Lo(m, x)
           e == Hi(M, x)
<1>1. /\ q \in Nat /\ Floor(x) = f /\ Floor(x + BlockSize) = f + BlockSize
      /\ f <= x /\ x < f + BlockSize
  BY FloorFacts
<1>2. f \in Nat /\ BlockSize \in Nat \ {0} /\ m \in Nat /\ M \in Nat /\ x \in Nat /\ m <= x /\ x < M
  BY <1>1, BlockSizeType
<1>3. /\ b = IF f > m THEN f ELSE m
      /\ e = IF f + BlockSize < M THEN f + BlockSize ELSE M
  BY <1>1 DEF Lo, Hi, Most, Fewest
<1>4. Floor(b + BlockSize) = f + BlockSize
  <2>1. b \in Nat /\ f <= b /\ b < f + BlockSize
    <3> HIDE DEF f, b, e
    <3> QED
      BY <1>1, <1>2, <1>3
  <2> HIDE DEF b, e
  <2> QED
    BY <1>1, <2>1, FloorOf
<1>5. BlockSize * (q + 1) = f + BlockSize
  BY <1>1, <1>2
<1>6. (x + 1) % BlockSize = 0 <=> x + 1 = f + BlockSize
  <2>1. CASE x + 1 = f + BlockSize
    <3>1. x + 1 \in Nat /\ q + 1 \in Nat /\ BlockSize * (q + 1) <= x + 1
          /\ x + 1 < BlockSize * (q + 1) + BlockSize
      <4> HIDE DEF f
      <4> QED
        BY <1>1, <1>2, <1>5, <2>1
    <3>2. (x + 1) % BlockSize = (x + 1) - BlockSize * (q + 1)
      BY <3>1, FloorOf
    <3> QED
      <4> HIDE DEF f
      <4> QED
        BY <1>2, <1>5, <2>1, <3>2
  <2>2. CASE x + 1 # f + BlockSize
    <3>1. x + 1 \in Nat /\ f <= x + 1 /\ x + 1 < f + BlockSize
      <4> HIDE DEF f
      <4> QED
        BY <1>1, <1>2, <2>2
    <3>2. (x + 1) % BlockSize = (x + 1) - BlockSize * q
      BY <1>1, <3>1, FloorOf
    <3> QED
      BY <1>1, <1>2, <2>2, <3>2
  <2> QED
    BY <2>1, <2>2
<1>7. ASSUME e < M
      PROVE  Lo(m, e) = e
  <2>1. e = f + BlockSize /\ e \in Nat
    <3> HIDE DEF f, b, e
    <3> QED
      BY <1>2, <1>3, <1>7
  <2>2. BlockSize * (q + 1) <= e /\ e < BlockSize * (q + 1) + BlockSize
    <3> HIDE DEF f, b, e
    <3> QED
      BY <1>2, <1>5, <2>1
  <2>3. Floor(e) = BlockSize * (q + 1)
    <3> HIDE DEF f, b, e
    <3> QED
      BY <1>1, <2>1, <2>2, FloorOf
  <2>4. Floor(e) = e /\ e >= m
    <3> HIDE DEF f, b, e
    <3> QED
      BY <1>1, <1>2, <1>5, <2>1, <2>3
  <2> QED
    <3> HIDE DEF e
    <3> QED
      BY <1>2, <2>1, <2>4 DEF Lo, Most
<1>8. /\ (x + 1) % BlockSize = 0 \/ x + 1 = M <=> x + 1 = e
      /\ Floor(b + BlockSize) >= M <=> e = M
      /\ e < M => Floor(b + BlockSize) = e
  <2> HIDE DEF f, b, e
  <2> QED
    BY <1>1, <1>2, <1>3, <1>4, <1>6
<1> QED
  BY <1>7, <1>8

\* How the decrement of iterators finds the beginning of a block, and the one before.
LEMMA BlockBegins ==
  ASSUME NEW m \in Nat, NEW M \in Nat, NEW x \in m .. (M - 1)
  PROVE  /\ x % BlockSize = 0 \/ x = m <=> x = Lo(m, x)
         /\ Floor(Hi(M, x) - 1) <= m <=> Lo(m, x) = m
         /\ Lo(m, x) > m => /\ Floor(Hi(M, x) - 1) = Lo(m, x)
                            /\ Hi(M, Lo(m, x) - 1) = Lo(m, x)
<1> DEFINE q == x \div BlockSize
           f == BlockSize * q
           b == Lo(m, x)
           e == Hi(M, x)
<1>1. /\ q \in Nat /\ Floor(x) = f /\ Floor(x + BlockSize) = f + BlockSize
      /\ f <= x /\ x < f + BlockSize /\ x % BlockSize = x - f
  BY FloorFacts
<1>2. f \in Nat /\ BlockSize \in Nat \ {0} /\ m \in Nat /\ M \in Nat /\ x \in Nat /\ m <= x /\ x < M
  BY <1>1, BlockSizeType
<1>3. /\ b = IF f > m THEN f ELSE m
      /\ e = IF f + BlockSize < M THEN f + BlockSize ELSE M
  BY <1>1 DEF Lo, Hi, Most, Fewest
<1>4. Floor(e - 1) = f
  <2>1. e - 1 \in Nat /\ f <= e - 1 /\ e - 1 < f + BlockSize
    <3> HIDE DEF f, b, e
    <3> QED
      BY <1>1, <1>2, <1>3
  <2> HIDE DEF b, e
  <2> QED
    BY <1>1, <2>1, FloorOf
<1>5. ASSUME b > m
      PROVE  Hi(M, b - 1) = b
  <2>1. b = f /\ f > 0 /\ f <= x
    <3> HIDE DEF f, b, e
    <3> QED
      BY <1>1, <1>2, <1>3, <1>5
  <2>2. q - 1 \in Nat /\ BlockSize * (q - 1) = f - BlockSize
    <3>1. q # 0
      BY <1>2, <2>1
    <3> QED
      BY <1>1, <1>2, <3>1
  <2>3. b - 1 \in Nat /\ BlockSize * (q - 1) <= b - 1 /\ b - 1 < BlockSize * (q - 1) + BlockSize
    <3> HIDE DEF f, b, e
    <3> QED
      BY <1>2, <2>1, <2>2
  <2>4. Floor((b - 1) + BlockSize) = BlockSize * (q - 1) + BlockSize
    <3> HIDE DEF f, b, e
    <3> QED
      BY <2>2, <2>3, FloorOf
  <2>5. Floor((b - 1) + BlockSize) = b /\ b < M
    <3> HIDE DEF f, b, e
    <3> QED
      BY <1>2, <2>1, <2>2, <2>4
  <2> QED
    <3> HIDE DEF b
    <3> QED
      BY <2>5 DEF Hi, Fewest
<1>6. /\ x % BlockSize = 0 \/ x = m <=> x = b
      /\ Floor(e - 1) <= m <=> b = m
      /\ b > m => Floor(e - 1) = b
  <2> HIDE DEF f, b, e
  <2> QED
    BY <1>1, <1>2, <1>3, <1>4
<1> QED
  BY <1>5, <1>6

\* Blocks are in the order of their elements.
LEMMA BlocksOrdered ==
  ASSUME NEW m \in Nat, NEW M \in Nat, NEW x \in m .. (M - 1), NEW y \in m .. (M - 1)
  PROVE  /\ x \div BlockSize \in Nat
         /\ x \div BlockSize = y \div BlockSize => Lo(m, x) = Lo(m, y) /\ Hi(M, x) = Hi(M, y)
         /\ x \div BlockSize < y \div BlockSize => Hi(M, x) <= Lo(m, y)
<1> DEFINE q == x \div BlockSize
           r == y \div BlockSize
           f == BlockSize * q
           g == BlockSize * r
<1>1. /\ q \in Nat /\ Floor(x) = f /\ Floor(x + BlockSize) = f + BlockSize
      /\ r \in Nat /\ Floor(y) = g /\ Floor(y + BlockSize) = g + BlockSize
      /\ y < M /\ g <= y
  BY FloorFacts
<1>2. f \in Nat /\ g \in Nat /\ BlockSize \in Nat \ {0}
  BY <1>1, BlockSizeType
<1>3. q = r => Lo(m, x) = Lo(m, y) /\ Hi(M, x) = Hi(M, y)
  BY <1>1 DEF Lo, Hi
<1>4. ASSUME q < r
      PROVE  Hi(M, x) <= Lo(m, y)
  <2>1. f + BlockSize <= g
    <3>1. q + 1 <= r /\ BlockSize * (q + 1) = f + BlockSize
      BY <1>1, <1>2, <1>4
    <3>2. BlockSize * (q + 1) <= BlockSize * r
      BY <1>1, <1>2, <3>1
    <3> QED
      BY <3>1, <3>2
  <2>2. /\ Hi(M, x) = IF f + BlockSize < M THEN f + BlockSize ELSE M
        /\ Lo(m, y) = IF g > m THEN g ELSE m
    BY <1>1 DEF Lo, Hi, Most, Fewest
  <2> HIDE DEF f, g
  <2> QED
    BY <1>1, <1>2, <2>1, <2>2
<1> QED
  BY <1>1, <1>3, <1>4

-----------------------------------------------------------------------------
\* The four dimensions of a view: those that it does not have are of extent one.

min_(v, d) == IF d <= Dim(v) THEN v.min[d] ELSE 0
max_(v, d) == IF d <= Dim(v) THEN v.max[d] ELSE 1
\* Of element x: its index along d, where its block begins, and where it ends.
ind(v, x, d) == IF d <= Dim(v) THEN x[d] ELSE 0
lo(v, x, d) == IF d <= Dim(v) THEN Lo(v.min[d], x[d]) ELSE 0
hi(v, x, d) == IF d <= Dim(v) THEN Hi(v.max[d], x[d]) ELSE 1
\* Extent of the view and of the block; the block's place in the view, the element's in the block.
ext(v, d) == max_(v, d) - min_(v, d)
siz(v, x, d) == hi(v, x, d) - lo(v, x, d)
pos(v, x, d) == lo(v, x, d) - min_(v, d)
loc(v, x, d) == ind(v, x, d) - lo(v, x, d)

\* The same for all four dimensions.
Ext(v) == [d \in 1 .. 4 |-> ext(v, d)]
Siz(v, x) == [d \in 1 .. 4 |-> siz(v, x, d)]
Pos(v, x) == [d \in 1 .. 4 |-> pos(v, x, d)]
Loc(v, x) == [d \in 1 .. 4 |-> loc(v, x, d)]

\* The offset of an element at place l within its block of size s, at c in a view of size n: the
\* sums over the places of the lower dimensions within the block, then of blocks.
Local2(s, l) == l[2] * s[1] + l[1]
Local3(s, l) == l[3] * (s[1] * s[2]) + Local2(s, l)
Local4(s, l) == l[4] * (s[1] * s[2] * s[3]) + Local3(s, l)
Blocks1(s, c, l) == c[1] * (s[2] * s[3] * s[4]) + Local4(s, l)
Blocks2(n, s, c, l) == c[2] * (n[1] * s[3] * s[4]) + Blocks1(s, c, l)
Blocks3(n, s, c, l) == c[3] * (n[1] * n[2] * s[4]) + Blocks2(n, s, c, l)
Sequential(n, s, c, l) == c[4] * (n[1] * n[2] * n[3]) + Blocks3(n, s, c, l)
BlockRank(v, x) == Sequential(Ext(v), Siz(v, x), Pos(v, x), Loc(v, x))
\* Row by row: the place of the element in the view, which is taken for one block.
Row(v, x) == [d \in 1 .. 4 |-> ind(v, x, d) - min_(v, d)]
RowRank(v, x) == Local4(Ext(v), Row(v, x))

\* What a view is.
LEMMA ViewFacts ==
  ASSUME NEW v \in Views
  PROVE  /\ Dim(v) \in 1 .. 4
         /\ v.min \in [1 .. Dim(v) -> Nat] /\ v.max \in [1 .. Dim(v) -> Nat]
         /\ \A d \in 1 .. Dim(v) : v.min[d] \in Nat /\ v.max[d] \in Nat /\ v.min[d] < v.max[d]
         /\ \A d \in 1 .. 4 : /\ min_(v, d) \in Nat /\ max_(v, d) \in Nat /\ min_(v, d) < max_(v, d)
                              /\ ext(v, d) \in Nat \ {0}
<1>1. /\ v \in [min : Seq(Nat), max : Seq(Nat)]
      /\ Len(v.min) \in 1 .. 4 /\ Len(v.max) = Len(v.min)
      /\ \A d \in 1 .. Len(v.min) : v.min[d] < v.max[d]
  BY ViewsAssumption
<1>2. v.min \in Seq(Nat) /\ v.max \in Seq(Nat)
  BY <1>1
<1>3. v.min \in [1 .. Len(v.min) -> Nat] /\ v.max \in [1 .. Len(v.min) -> Nat]
  BY <1>1, <1>2
<1>4. /\ Dim(v) \in 1 .. 4
      /\ v.min \in [1 .. Dim(v) -> Nat] /\ v.max \in [1 .. Dim(v) -> Nat]
      /\ \A d \in 1 .. Dim(v) : v.min[d] \in Nat /\ v.max[d] \in Nat /\ v.min[d] < v.max[d]
  BY <1>1, <1>3 DEF Dim
<1>5. ASSUME NEW d \in 1 .. 4
      PROVE  /\ min_(v, d) \in Nat /\ max_(v, d) \in Nat /\ min_(v, d) < max_(v, d)
             /\ ext(v, d) \in Nat \ {0}
  <2>1. CASE d <= Dim(v)
    <3>1. d \in 1 .. Dim(v)
      BY <1>4, <2>1
    <3>2. min_(v, d) = v.min[d] /\ max_(v, d) = v.max[d]
      BY <2>1 DEF min_, max_
    <3> QED
      BY <1>4, <3>1, <3>2 DEF ext
  <2>2. CASE ~ (d <= Dim(v))
    BY <2>2 DEF min_, max_, ext
  <2> QED
    BY <2>1, <2>2
<1> QED
  BY <1>4, <1>5

\* What an element is.
LEMMA IsElement ==
  ASSUME NEW v \in Views, NEW x
  PROVE  x \in Elements(v) <=>
           /\ x = [d \in 1 .. Dim(v) |-> x[d]]
           /\ \A d \in 1 .. Dim(v) : x[d] \in v.min[d] .. (v.max[d] - 1)
<1> DEFINE U == UNION {v.min[d] .. (v.max[d] - 1) : d \in 1 .. Dim(v)}
<1>1. \A d \in 1 .. Dim(v) : v.min[d] .. (v.max[d] - 1) \subseteq U
  OBVIOUS
<1>2. \A d \in 1 .. Dim(v) : v.min[d] \in Nat /\ v.max[d] \in Nat
  BY ViewFacts
<1>3. \A k \in U : k \in Nat
  BY <1>2
<1>4. x \in Elements(v) <=>
        /\ x \in [1 .. Dim(v) -> U]
        /\ \A d \in 1 .. Dim(v) : v.min[d] <= x[d] /\ x[d] < v.max[d]
  BY DEF Elements
<1> HIDE DEF U
<1>5. ASSUME x \in Elements(v)
      PROVE  /\ x = [d \in 1 .. Dim(v) |-> x[d]]
             /\ \A d \in 1 .. Dim(v) : x[d] \in v.min[d] .. (v.max[d] - 1)
  <2>1. \A d \in 1 .. Dim(v) : x[d] \in Nat
    BY <1>3, <1>4, <1>5
  <2>2. x = [d \in 1 .. Dim(v) |-> x[d]]
    BY <1>4, <1>5
  <2>3. \A d \in 1 .. Dim(v) : x[d] \in v.min[d] .. (v.max[d] - 1)
    BY <1>2, <1>4, <1>5, <2>1
  <2> QED
    BY <2>2, <2>3
<1>6. ASSUME /\ x = [d \in 1 .. Dim(v) |-> x[d]]
             /\ \A d \in 1 .. Dim(v) : x[d] \in v.min[d] .. (v.max[d] - 1)
      PROVE  x \in Elements(v)
  <2>1. \A d \in 1 .. Dim(v) : x[d] \in U
    BY <1>1, <1>6
  <2>2. x \in [1 .. Dim(v) -> U]
    BY <1>6, <2>1
  <2> QED
    BY <1>2, <1>4, <1>6, <2>2
<1> QED
  BY <1>5, <1>6

\* Where an element is within its block, and its block within the view.
LEMMA ElementFacts ==
  ASSUME NEW v \in Views, NEW x \in Elements(v), NEW d \in 1 .. 4
  PROVE  /\ min_(v, d) <= lo(v, x, d) /\ lo(v, x, d) <= ind(v, x, d)
         /\ ind(v, x, d) < hi(v, x, d) /\ hi(v, x, d) <= max_(v, d)
         /\ lo(v, x, d) \in Nat /\ ind(v, x, d) \in Nat /\ hi(v, x, d) \in Nat
         /\ siz(v, x, d) \in Nat \ {0} /\ pos(v, x, d) \in Nat /\ loc(v, x, d) \in Nat
         /\ loc(v, x, d) < siz(v, x, d) /\ pos(v, x, d) + siz(v, x, d) <= ext(v, d)
<1>1. min_(v, d) \in Nat /\ max_(v, d) \in Nat
  BY ViewFacts
<1>2. /\ min_(v, d) <= lo(v, x, d) /\ lo(v, x, d) <= ind(v, x, d)
      /\ ind(v, x, d) < hi(v, x, d) /\ hi(v, x, d) <= max_(v, d)
      /\ lo(v, x, d) \in Nat /\ ind(v, x, d) \in Nat /\ hi(v, x, d) \in Nat
  <2>1. CASE d <= Dim(v)
    <3>1. d \in 1 .. Dim(v) /\ v.min[d] \in Nat /\ v.max[d] \in Nat
      <4>1. Dim(v) \in 1 .. 4 /\ \A i \in 1 .. Dim(v) : v.min[i] \in Nat /\ v.max[i] \in Nat
        BY ViewFacts
      <4> QED
        BY <2>1, <4>1
    <3>2. x[d] \in v.min[d] .. (v.max[d] - 1)
      BY <3>1, IsElement
    <3>3. /\ Lo(v.min[d], x[d]) \in Nat /\ Hi(v.max[d], x[d]) \in Nat
          /\ v.min[d] <= Lo(v.min[d], x[d]) /\ Lo(v.min[d], x[d]) <= x[d]
          /\ x[d] < Hi(v.max[d], x[d]) /\ Hi(v.max[d], x[d]) <= v.max[d]
      BY <3>1, <3>2, BlockFacts
    <3> QED
      BY <2>1, <3>1, <3>2, <3>3 DEF min_, max_, lo, hi, ind
  <2>2. CASE ~ (d <= Dim(v))
    BY <2>2 DEF min_, max_, lo, hi, ind
  <2> QED
    BY <2>1, <2>2
<1> QED
  BY <1>1, <1>2 DEF siz, pos, loc, ext

-----------------------------------------------------------------------------
\* Mixed radices.

\* A digit c of a number, with units u, that steps by s when the rest r is s units.
LEMMA DigitBound ==
  ASSUME NEW c \in Nat, NEW s \in Nat, NEW u \in Nat, NEW r \in Nat, NEW n \in Nat,
         r < s * u, c + s <= n
  PROVE  c * u + r \in Nat /\ c * u + r < n * u
<1>1. (c + s) * u <= n * u /\ (c + s) * u = c * u + s * u
  OBVIOUS
<1>2. c * u \in Nat /\ s * u \in Nat /\ n * u \in Nat
  OBVIOUS
<1> QED
  BY <1>1, <1>2

\* A higher digit makes a greater number.
LEMMA DigitOrder ==
  ASSUME NEW c \in Nat, NEW s \in Nat, NEW u \in Nat, NEW r \in Nat,
         NEW d \in Nat, NEW t \in Nat, r < s * u, c + s <= d
  PROVE  c * u + r < d * u + t
<1>1. c * u + r < d * u
  BY DigitBound
<1>2. c * u \in Nat /\ d * u \in Nat
  OBVIOUS
<1> QED
  BY <1>1, <1>2

\* What the sums of the lower places stay below.
LEMMA SequentialBound ==
  ASSUME NEW n \in [1 .. 4 -> Nat], NEW s \in [1 .. 4 -> Nat], NEW c \in [1 .. 4 -> Nat],
         NEW l \in [1 .. 4 -> Nat],
         \A d \in 1 .. 4 : l[d] < s[d] /\ c[d] + s[d] <= n[d]
  PROVE  /\ Local2(s, l) \in Nat /\ Local3(s, l) \in Nat /\ Local4(s, l) \in Nat
         /\ Blocks1(s, c, l) \in Nat /\ Blocks2(n, s, c, l) \in Nat /\ Blocks3(n, s, c, l) \in Nat
         /\ Sequential(n, s, c, l) \in Nat
         /\ Local2(s, l) < 1 * (s[1] * s[2])
         /\ Local3(s, l) < 1 * (s[1] * s[2] * s[3])
         /\ Local4(s, l) < s[1] * (s[2] * s[3] * s[4])
         /\ Blocks1(s, c, l) < s[2] * (n[1] * s[3] * s[4])
         /\ Blocks2(n, s, c, l) < s[3] * (n[1] * n[2] * s[4])
         /\ Blocks3(n, s, c, l) < s[4] * (n[1] * n[2] * n[3])
         /\ Sequential(n, s, c, l) < n[1] * n[2] * n[3] * n[4]
<1> DEFINE n1 == n[1]  n2 == n[2]  n3 == n[3]  n4 == n[4]
           s1 == s[1]  s2 == s[2]  s3 == s[3]  s4 == s[4]
           c1 == c[1]  c2 == c[2]  c3 == c[3]  c4 == c[4]
           l1 == l[1]  l2 == l[2]  l3 == l[3]  l4 == l[4]
           r2 == Local2(s, l)
           r3 == Local3(s, l)
           r4 == Local4(s, l)
           q1 == Blocks1(s, c, l)
           q2 == Blocks2(n, s, c, l)
           q3 == Blocks3(n, s, c, l)
           q4 == Sequential(n, s, c, l)
           u3 == s1 * s2
           u4 == s1 * s2 * s3
           w1 == s2 * s3 * s4
           w2 == n1 * s3 * s4
           w3 == n1 * n2 * s4
           w4 == n1 * n2 * n3
<1>1. /\ n1 \in Nat /\ n2 \in Nat /\ n3 \in Nat /\ n4 \in Nat
      /\ s1 \in Nat /\ s2 \in Nat /\ s3 \in Nat /\ s4 \in Nat
      /\ c1 \in Nat /\ c2 \in Nat /\ c3 \in Nat /\ c4 \in Nat
      /\ l1 \in Nat /\ l2 \in Nat /\ l3 \in Nat /\ l4 \in Nat
      /\ l1 < s1 /\ l2 < s2 /\ l3 < s3 /\ l4 < s4
      /\ c1 + s1 <= n1 /\ c2 + s2 <= n2 /\ c3 + s3 <= n3 /\ c4 + s4 <= n4
  OBVIOUS
<1>2. /\ r2 = l2 * s1 + l1 /\ r3 = l3 * u3 + r2 /\ r4 = l4 * u4 + r3 /\ q1 = c1 * w1 + r4
      /\ q2 = c2 * w2 + q1 /\ q3 = c3 * w3 + q2 /\ q4 = c4 * w4 + q3
  BY DEF Local2, Local3, Local4, Blocks1, Blocks2, Blocks3, Sequential
<1> HIDE DEF r2, r3, r4, q1, q2, q3, q4, n1, n2, n3, n4, s1, s2, s3, s4, c1, c2, c3, c4, l1, l2, l3, l4
<1>3. /\ l1 < 1 * s1 /\ l2 + 1 <= s2 /\ l3 + 1 <= s3 /\ l4 + 1 <= s4
      /\ u3 \in Nat /\ u4 \in Nat /\ w1 \in Nat /\ w2 \in Nat /\ w3 \in Nat /\ w4 \in Nat
  BY <1>1
<1>4. /\ s2 * s1 = 1 * u3 /\ s3 * u3 = 1 * u4 /\ s4 * u4 = s1 * w1
      /\ n1 * w1 = s2 * w2 /\ n2 * w2 = s3 * w3 /\ n3 * w3 = s4 * w4
      /\ n4 * w4 = n1 * n2 * n3 * n4
  BY <1>1
<1> HIDE DEF u3, u4, w1, w2, w3, w4
<1>5. r2 \in Nat /\ r2 < 1 * u3
  BY <1>1, <1>2, <1>3, <1>4, DigitBound
<1>6. r3 \in Nat /\ r3 < 1 * u4
  BY <1>1, <1>2, <1>3, <1>4, <1>5, DigitBound
<1>7. r4 \in Nat /\ r4 < s1 * w1
  BY <1>1, <1>2, <1>3, <1>4, <1>6, DigitBound
<1>8. q1 \in Nat /\ q1 < s2 * w2
  BY <1>1, <1>2, <1>3, <1>4, <1>7, DigitBound
<1>9. q2 \in Nat /\ q2 < s3 * w3
  BY <1>1, <1>2, <1>3, <1>4, <1>8, DigitBound
<1>10. q3 \in Nat /\ q3 < s4 * w4
  BY <1>1, <1>2, <1>3, <1>4, <1>9, DigitBound
<1>11. q4 \in Nat /\ q4 < n1 * n2 * n3 * n4
  BY <1>1, <1>2, <1>3, <1>4, <1>10, DigitBound
<1> QED
  BY <1>5, <1>6, <1>7, <1>8, <1>9, <1>10, <1>11
  DEF r2, r3, r4, q1, q2, q3, q4, u3, u4, w1, w2, w3, w4,
      n1, n2, n3, n4, s1, s2, s3, s4

\* Offsets are in the order of blocks, and of elements within a block.
LEMMA SequentialOrder ==
  ASSUME NEW n \in [1 .. 4 -> Nat],
         NEW s \in [1 .. 4 -> Nat], NEW c \in [1 .. 4 -> Nat], NEW l \in [1 .. 4 -> Nat],
         NEW t \in [1 .. 4 -> Nat], NEW b \in [1 .. 4 -> Nat], NEW k \in [1 .. 4 -> Nat],
         \A d \in 1 .. 4 : l[d] < s[d] /\ c[d] + s[d] <= n[d],
         \A d \in 1 .. 4 : k[d] < t[d] /\ b[d] + t[d] <= n[d],
         \/ \E d \in 1 .. 4 : /\ c[d] + s[d] <= b[d]
                              /\ \A e \in 1 .. 4 : e > d => c[e] = b[e] /\ s[e] = t[e]
         \/ /\ \A e \in 1 .. 4 : c[e] = b[e] /\ s[e] = t[e]
            /\ \E d \in 1 .. 4 : l[d] < k[d] /\ \A e \in 1 .. 4 : e > d => l[e] = k[e]
  PROVE  Sequential(n, s, c, l) < Sequential(n, t, b, k)
<1> DEFINE r1 == l[1]
           r2 == Local2(s, l)
           r3 == Local3(s, l)
           r4 == Local4(s, l)
           q1 == Blocks1(s, c, l)
           q2 == Blocks2(n, s, c, l)
           q3 == Blocks3(n, s, c, l)
           q4 == Sequential(n, s, c, l)
           g1 == k[1]
           g2 == Local2(t, k)
           g3 == Local3(t, k)
           g4 == Local4(t, k)
           h1 == Blocks1(t, b, k)
           h2 == Blocks2(n, t, b, k)
           h3 == Blocks3(n, t, b, k)
           h4 == Sequential(n, t, b, k)
           s1 == s[1]
           u3 == s[1] * s[2]
           u4 == s[1] * s[2] * s[3]
           w1 == s[2] * s[3] * s[4]
           w2 == n[1] * s[3] * s[4]
           w3 == n[1] * n[2] * s[4]
           w4 == n[1] * n[2] * n[3]
<1>1. /\ r2 \in Nat /\ r3 \in Nat /\ r4 \in Nat /\ q1 \in Nat /\ q2 \in Nat /\ q3 \in Nat /\ q4 \in Nat
      /\ r2 < 1 * u3 /\ r3 < 1 * u4
      /\ r4 < s[1] * w1 /\ q1 < s[2] * w2 /\ q2 < s[3] * w3 /\ q3 < s[4] * w4
  BY SequentialBound
<1>2. /\ g2 \in Nat /\ g3 \in Nat /\ g4 \in Nat /\ h1 \in Nat /\ h2 \in Nat /\ h3 \in Nat /\ h4 \in Nat
  BY SequentialBound
<1>3. /\ r2 = l[2] * s1 + r1 /\ r3 = l[3] * u3 + r2 /\ r4 = l[4] * u4 + r3 /\ q1 = c[1] * w1 + r4
      /\ q2 = c[2] * w2 + q1 /\ q3 = c[3] * w3 + q2 /\ q4 = c[4] * w4 + q3
  BY DEF Local2, Local3, Local4, Blocks1, Blocks2, Blocks3, Sequential
<1>4. /\ h4 = b[4] * w4 + h3
      /\ s[4] = t[4] => h3 = b[3] * w3 + h2
      /\ s[4] = t[4] /\ s[3] = t[3] => h2 = b[2] * w2 + h1
      /\ s[4] = t[4] /\ s[3] = t[3] /\ s[2] = t[2] => h1 = b[1] * w1 + g4
      /\ s[3] = t[3] /\ s[2] = t[2] /\ s[1] = t[1] => g4 = k[4] * u4 + g3
      /\ s[2] = t[2] /\ s[1] = t[1] => g3 = k[3] * u3 + g2
      /\ s[1] = t[1] => g2 = k[2] * s1 + g1
  BY DEF Local2, Local3, Local4, Blocks1, Blocks2, Blocks3, Sequential
<1>5. /\ s1 \in Nat /\ u3 \in Nat /\ u4 \in Nat /\ w1 \in Nat /\ w2 \in Nat /\ w3 \in Nat /\ w4 \in Nat
      /\ r1 \in Nat /\ g1 \in Nat /\ r1 < 1 * s1
  <2>1. /\ s[1] \in Nat /\ s[2] \in Nat /\ s[3] \in Nat /\ s[4] \in Nat
        /\ n[1] \in Nat /\ n[2] \in Nat /\ n[3] \in Nat /\ l[1] \in Nat /\ k[1] \in Nat /\ l[1] < s[1]
    OBVIOUS
  <2> QED
    BY <2>1
<1> HIDE DEF r1, r2, r3, r4, q1, q2, q3, q4, g1, g2, g3, g4, h1, h2, h3, h4, s1, u3, u4, w1, w2, w3, w4
<1>6. ASSUME NEW d \in 1 .. 4, c[d] + s[d] <= b[d],
             \A e \in 1 .. 4 : e > d => c[e] = b[e] /\ s[e] = t[e]
      PROVE  q4 < h4
  <2>1. CASE d = 4
    <3>1. c[4] \in Nat /\ s[4] \in Nat /\ b[4] \in Nat /\ c[4] + s[4] <= b[4]
      BY <1>6, <2>1
    <3>2. c[4] * w4 + q3 < b[4] * w4 + h3
      BY <1>1, <1>2, <1>5, <3>1, DigitOrder
    <3> QED
      BY <1>3, <1>4, <3>2
  <2>2. CASE d = 3
    <3>1. c[4] = b[4] /\ s[4] = t[4]
      BY <1>6, <2>2
    <3>2. q3 < h3
      <4>1. c[3] \in Nat /\ s[3] \in Nat /\ b[3] \in Nat /\ c[3] + s[3] <= b[3]
        BY <1>6, <2>2
      <4>2. c[3] * w3 + q2 < b[3] * w3 + h2
        BY <1>1, <1>2, <1>5, <4>1, DigitOrder
      <4> QED
        BY <1>3, <1>4, <3>1, <4>2
    <3> QED
      BY <1>1, <1>2, <1>3, <1>4, <1>5, <3>1, <3>2
  <2>3. CASE d = 2
    <3>1. c[4] = b[4] /\ s[4] = t[4] /\ c[3] = b[3] /\ s[3] = t[3]
      BY <1>6, <2>3
    <3>2. q2 < h2
      <4>1. c[2] \in Nat /\ s[2] \in Nat /\ b[2] \in Nat /\ c[2] + s[2] <= b[2]
        BY <1>6, <2>3
      <4>2. c[2] * w2 + q1 < b[2] * w2 + h1
        BY <1>1, <1>2, <1>5, <4>1, DigitOrder
      <4> QED
        BY <1>3, <1>4, <3>1, <4>2
    <3> QED
      BY <1>1, <1>2, <1>3, <1>4, <1>5, <3>1, <3>2
  <2>4. CASE d = 1
    <3>1. /\ c[4] = b[4] /\ s[4] = t[4] /\ c[3] = b[3] /\ s[3] = t[3] /\ c[2] = b[2] /\ s[2] = t[2]
      BY <1>6, <2>4
    <3>2. q1 < h1
      <4>1. c[1] \in Nat /\ s[1] \in Nat /\ b[1] \in Nat /\ c[1] + s[1] <= b[1]
        BY <1>6, <2>4
      <4>2. c[1] * w1 + r4 < b[1] * w1 + g4
        BY <1>1, <1>2, <1>5, <4>1, DigitOrder
      <4> QED
        BY <1>3, <1>4, <3>1, <4>2
    <3> QED
      BY <1>1, <1>2, <1>3, <1>4, <1>5, <3>1, <3>2
  <2> QED
    BY <2>1, <2>2, <2>3, <2>4
<1>7. ASSUME \A e \in 1 .. 4 : c[e] = b[e] /\ s[e] = t[e],
             NEW d \in 1 .. 4, l[d] < k[d], \A e \in 1 .. 4 : e > d => l[e] = k[e]
      PROVE  q4 < h4
  <2>1. /\ c[4] = b[4] /\ s[4] = t[4] /\ c[3] = b[3] /\ s[3] = t[3]
        /\ c[2] = b[2] /\ s[2] = t[2] /\ c[1] = b[1] /\ s[1] = t[1]
    BY <1>7
  <2>2. l[d] \in Nat /\ k[d] \in Nat /\ l[d] + 1 <= k[d]
    BY <1>7
  <2>3. SUFFICES r4 < g4
    BY <1>1, <1>2, <1>3, <1>4, <1>5, <2>1
  <2>4. CASE d = 4
    <3>1. l[4] \in Nat /\ k[4] \in Nat /\ l[4] + 1 <= k[4]
      BY <2>2, <2>4
    <3>2. l[4] * u4 + r3 < k[4] * u4 + g3
      BY <1>1, <1>2, <1>5, <3>1, DigitOrder
    <3> QED
      BY <1>3, <1>4, <2>1, <3>2
  <2>5. CASE d = 3
    <3>1. l[4] = k[4]
      BY <1>7, <2>5
    <3>2. r3 < g3
      <4>1. l[3] \in Nat /\ k[3] \in Nat /\ l[3] + 1 <= k[3]
        BY <2>2, <2>5
      <4>2. l[3] * u3 + r2 < k[3] * u3 + g2
        BY <1>1, <1>2, <1>5, <4>1, DigitOrder
      <4> QED
        BY <1>3, <1>4, <2>1, <3>1, <4>2
    <3> QED
      BY <1>1, <1>2, <1>3, <1>4, <1>5, <2>1, <3>1, <3>2
  <2>6. CASE d = 2
    <3>1. l[4] = k[4] /\ l[3] = k[3]
      BY <1>7, <2>6
    <3>2. r2 < g2
      <4>1. l[2] \in Nat /\ k[2] \in Nat /\ l[2] + 1 <= k[2]
        BY <2>2, <2>6
      <4>2. l[2] * s1 + r1 < k[2] * s1 + g1
        BY <1>1, <1>2, <1>5, <4>1, DigitOrder
      <4> QED
        BY <1>3, <1>4, <2>1, <3>1, <4>2
    <3> QED
      BY <1>1, <1>2, <1>3, <1>4, <1>5, <2>1, <3>1, <3>2
  <2>7. CASE d = 1
    <3>1. l[4] = k[4] /\ l[3] = k[3] /\ l[2] = k[2] /\ r1 < g1
      BY <1>7, <2>7 DEF r1, g1
    <3> QED
      BY <1>1, <1>2, <1>3, <1>4, <1>5, <2>1, <3>1
  <2> QED
    BY <2>4, <2>5, <2>6, <2>7
<1>8. q4 < h4
  BY <1>6, <1>7
<1> QED
  BY <1>8 DEF q4, h4

-----------------------------------------------------------------------------
\* The offsets that the code computes.

\* Dimensions that a view lacks.
LEMMA Padding ==
  ASSUME NEW v \in Views, NEW x \in Elements(v), NEW d \in 1 .. 4, d > Dim(v)
  PROVE  /\ Ext(v)[d] = 1 /\ Siz(v, x)[d] = 1 /\ Pos(v, x)[d] = 0 /\ Loc(v, x)[d] = 0
         /\ Row(v, x)[d] = 0
<1>1. Dim(v) \in 1 .. 4
  BY ViewFacts
<1>2. ~ (d <= Dim(v))
  BY <1>1
<1>3. min_(v, d) = 0 /\ max_(v, d) = 1 /\ ind(v, x, d) = 0 /\ lo(v, x, d) = 0 /\ hi(v, x, d) = 1
  BY <1>2 DEF min_, max_, lo, hi, ind
<1> QED
  BY <1>3 DEF Ext, Siz, Pos, Loc, Row, ext, siz, pos, loc

\* Dimensions that it has.
LEMMA Along ==
  ASSUME NEW v \in Views, NEW x \in Elements(v), NEW d \in 1 .. Dim(v)
  PROVE  /\ d \in 1 .. 4
         /\ v.min[d] \in Nat /\ v.max[d] \in Nat /\ x[d] \in v.min[d] .. (v.max[d] - 1)
         /\ Extent(v)[d] = Ext(v)[d] /\ Ext(v)[d] = v.max[d] - v.min[d]
         /\ BlockMin(v, d, x[d]) = Lo(v.min[d], x[d])
         /\ BlockExtent(v, d, Lo(v.min[d], x[d])) = Siz(v, x)[d]
         /\ Pos(v, x)[d] = Lo(v.min[d], x[d]) - v.min[d]
         /\ Loc(v, x)[d] = x[d] - Lo(v.min[d], x[d])
         /\ Siz(v, x)[d] = Hi(v.max[d], x[d]) - Lo(v.min[d], x[d])
         /\ Row(v, x)[d] = x[d] - v.min[d]
<1>1. d \in 1 .. 4 /\ d <= Dim(v) /\ v.min[d] \in Nat /\ v.max[d] \in Nat
  <2>1. /\ Dim(v) \in 1 .. 4
        /\ \A i \in 1 .. Dim(v) : v.min[i] \in Nat /\ v.max[i] \in Nat
    BY ViewFacts
  <2> QED
    BY <2>1
<1>2. x[d] \in v.min[d] .. (v.max[d] - 1)
  BY IsElement
<1>3. BlockMin(v, d, x[d]) = Lo(v.min[d], x[d])
  BY DEF BlockMin, Lo
<1>4. Hi(v.max[d], Lo(v.min[d], x[d])) = Hi(v.max[d], x[d])
  <2>1. /\ Lo(v.min[d], x[d]) \in Nat /\ Hi(v.max[d], x[d]) \in Nat
        /\ Lo(v.min[d], x[d]) <= x[d] /\ x[d] < Hi(v.max[d], x[d])
        /\ \A y \in Lo(v.min[d], x[d]) .. (Hi(v.max[d], x[d]) - 1) :
             Hi(v.max[d], y) = Hi(v.max[d], x[d])
    BY <1>1, <1>2, BlockFacts, ZenonT(40)
  <2>2. Lo(v.min[d], x[d]) \in Lo(v.min[d], x[d]) .. (Hi(v.max[d], x[d]) - 1)
    BY <1>1, <1>2, <2>1
  <2> DEFINE L == Lo(v.min[d], x[d])
             H == Hi(v.max[d], x[d])
  <2>3. L \in L .. (H - 1) /\ \A y \in L .. (H - 1) : Hi(v.max[d], y) = H
    BY <2>1, <2>2
  <2> HIDE DEF L, H
  <2>4. Hi(v.max[d], L) = H
    BY <2>3
  <2> QED
    BY <2>4 DEF L, H
<1>5. BlockExtent(v, d, Lo(v.min[d], x[d])) = Hi(v.max[d], Lo(v.min[d], x[d])) - Lo(v.min[d], x[d])
  BY DEF BlockExtent, Hi
<1>6. /\ Extent(v)[d] = v.max[d] - v.min[d]
      /\ Ext(v)[d] = v.max[d] - v.min[d]
      /\ Pos(v, x)[d] = Lo(v.min[d], x[d]) - v.min[d]
      /\ Loc(v, x)[d] = x[d] - Lo(v.min[d], x[d])
      /\ Siz(v, x)[d] = Hi(v.max[d], x[d]) - Lo(v.min[d], x[d])
      /\ Row(v, x)[d] = x[d] - v.min[d]
  BY <1>1 DEF Extent, Ext, Pos, Loc, Siz, Row, ext, pos, loc, siz, ind, lo, hi, min_, max_
<1> QED
  BY <1>1, <1>2, <1>3, <1>4, <1>5, <1>6

\* Of all four dimensions.
LEMMA Shape ==
  ASSUME NEW v \in Views, NEW x \in Elements(v)
  PROVE  /\ Ext(v) \in [1 .. 4 -> Nat] /\ Siz(v, x) \in [1 .. 4 -> Nat]
         /\ Pos(v, x) \in [1 .. 4 -> Nat] /\ Loc(v, x) \in [1 .. 4 -> Nat]
         /\ Row(v, x) \in [1 .. 4 -> Nat]
         /\ \A d \in 1 .. 4 : /\ Loc(v, x)[d] < Siz(v, x)[d]
                              /\ Pos(v, x)[d] + Siz(v, x)[d] <= Ext(v)[d]
                              /\ Row(v, x)[d] < Ext(v)[d]
                              /\ Row(v, x)[d] = Pos(v, x)[d] + Loc(v, x)[d]
<1>1. ASSUME NEW d \in 1 .. 4
      PROVE  /\ Ext(v)[d] \in Nat /\ Siz(v, x)[d] \in Nat /\ Pos(v, x)[d] \in Nat
             /\ Loc(v, x)[d] \in Nat /\ Row(v, x)[d] \in Nat
             /\ Loc(v, x)[d] < Siz(v, x)[d]
             /\ Pos(v, x)[d] + Siz(v, x)[d] <= Ext(v)[d]
             /\ Row(v, x)[d] < Ext(v)[d]
             /\ Row(v, x)[d] = Pos(v, x)[d] + Loc(v, x)[d]
  <2>1. /\ min_(v, d) <= lo(v, x, d) /\ lo(v, x, d) <= ind(v, x, d)
        /\ ind(v, x, d) < hi(v, x, d) /\ hi(v, x, d) <= max_(v, d)
        /\ lo(v, x, d) \in Nat /\ ind(v, x, d) \in Nat /\ hi(v, x, d) \in Nat
    BY ElementFacts
  <2>2. min_(v, d) \in Nat /\ max_(v, d) \in Nat
    BY ViewFacts
  <2> QED
    BY <2>1, <2>2 DEF Ext, Siz, Pos, Loc, Row, ext, siz, pos, loc
<1> QED
  BY <1>1 DEF Ext, Siz, Pos, Loc, Row

\* Comparing and moving an iterator starts from its rank.
LEMMA BlockOffset ==
  ASSUME NEW v \in Views, NEW x \in Elements(v)
  PROVE  BlockRank(v, x) = ByDim(v, iterator1_offset(v, x), iterator2_offset(v, x),
                                 iterator3_offset(v, x), iterator4_offset(v, x))
<1> DEFINE n == Ext(v)
           s == Siz(v, x)
           c == Pos(v, x)
           l == Loc(v, x)
<1>1. /\ \A d \in 1 .. 4 : n[d] \in Nat /\ s[d] \in Nat /\ c[d] \in Nat /\ l[d] \in Nat
      /\ \A d \in 1 .. 4 : d > Dim(v) => n[d] = 1 /\ s[d] = 1 /\ c[d] = 0 /\ l[d] = 0
      /\ Dim(v) \in 1 .. 4
  <2>1. /\ n \in [1 .. 4 -> Nat] /\ s \in [1 .. 4 -> Nat] /\ c \in [1 .. 4 -> Nat]
        /\ l \in [1 .. 4 -> Nat]
    BY Shape
  <2>2. \A d \in 1 .. 4 : d > Dim(v) => n[d] = 1 /\ s[d] = 1 /\ c[d] = 0 /\ l[d] = 0
    BY Padding
  <2>3. Dim(v) \in 1 .. 4
    BY ViewFacts
  <2> HIDE DEF n, s, c, l
  <2> QED
    BY <2>1, <2>2, <2>3
<1>2. BlockRank(v, x) = c[4] * (n[1] * n[2] * n[3]) + (c[3] * (n[1] * n[2] * s[4])
                        + (c[2] * (n[1] * s[3] * s[4]) + (c[1] * (s[2] * s[3] * s[4])
                        + (l[4] * (s[1] * s[2] * s[3]) + (l[3] * (s[1] * s[2])
                        + (l[2] * s[1] + l[1]))))))
  BY Zenon DEF BlockRank, Sequential, Blocks3, Blocks2, Blocks1, Local4, Local3, Local2
<1> HIDE DEF n, s, c, l
<1>8. /\ n[1] \in Nat /\ n[2] \in Nat /\ n[3] \in Nat
      /\ s[1] \in Nat /\ s[2] \in Nat /\ s[3] \in Nat /\ s[4] \in Nat
      /\ c[1] \in Nat /\ c[2] \in Nat /\ c[3] \in Nat /\ c[4] \in Nat
      /\ l[1] \in Nat /\ l[2] \in Nat /\ l[3] \in Nat /\ l[4] \in Nat
  BY <1>1
<1>3. \A d \in 1 .. Dim(v) :
        /\ v.min[d] \in Nat /\ v.max[d] \in Nat /\ x[d] \in v.min[d] .. (v.max[d] - 1)
        /\ Extent(v)[d] = n[d]
        /\ BlockMin(v, d, x[d]) = Lo(v.min[d], x[d])
        /\ BlockExtent(v, d, Lo(v.min[d], x[d])) = s[d]
        /\ c[d] = Lo(v.min[d], x[d]) - v.min[d]
        /\ l[d] = x[d] - Lo(v.min[d], x[d])
        /\ Lo(v.min[d], x[d]) \in Nat
  <2> TAKE d \in 1 .. Dim(v)
  <2>1. /\ v.min[d] \in Nat /\ v.max[d] \in Nat /\ x[d] \in v.min[d] .. (v.max[d] - 1)
        /\ Extent(v)[d] = n[d]
        /\ BlockMin(v, d, x[d]) = Lo(v.min[d], x[d])
        /\ BlockExtent(v, d, Lo(v.min[d], x[d])) = s[d]
        /\ c[d] = Lo(v.min[d], x[d]) - v.min[d]
        /\ l[d] = x[d] - Lo(v.min[d], x[d])
    BY Along DEF n, s, c, l
  <2>2. Lo(v.min[d], x[d]) \in Nat
    BY <2>1, BlockFacts
  <2> QED
    BY <2>1, <2>2
<1>4. CASE Dim(v) = 1
  <2>1. BlockRank(v, x) = c[1] + l[1]
    <3>1. /\ n[2] = 1 /\ s[2] = 1 /\ c[2] = 0 /\ l[2] = 0
          /\ n[3] = 1 /\ s[3] = 1 /\ c[3] = 0 /\ l[3] = 0
          /\ n[4] = 1 /\ s[4] = 1 /\ c[4] = 0 /\ l[4] = 0
      BY <1>1, <1>4
    <3> QED
      BY <1>2, <1>8, <3>1
  <2>2. BlockRank(v, x) = x[1] - v.min[1]
    BY <1>1, <1>3, <1>4, <2>1
  <2> QED
    BY <1>4, <2>2 DEF ByDim, iterator1_offset
<1>5. CASE Dim(v) = 2
  <2>1. BlockRank(v, x) = c[2] * n[1] + c[1] * s[2] + l[2] * s[1] + l[1]
    <3>1. /\ n[3] = 1 /\ s[3] = 1 /\ c[3] = 0 /\ l[3] = 0
          /\ n[4] = 1 /\ s[4] = 1 /\ c[4] = 0 /\ l[4] = 0
      BY <1>1, <1>5
    <3> QED
      BY <1>2, <1>8, <3>1
  <2>2. iterator2_offset(v, x) = c[2] * n[1] + c[1] * s[2] + l[2] * s[1] + l[1]
    <3>1. x[2] # v.max[2]
      BY <1>3, <1>5
    <3>2. /\ BlockMin(v, 1, x[1]) = Lo(v.min[1], x[1]) /\ BlockMin(v, 2, x[2]) = Lo(v.min[2], x[2])
          /\ BlockExtent(v, 1, Lo(v.min[1], x[1])) = s[1]
          /\ BlockExtent(v, 2, Lo(v.min[2], x[2])) = s[2]
          /\ Extent(v)[1] = n[1]
          /\ Lo(v.min[1], x[1]) - v.min[1] = c[1] /\ Lo(v.min[2], x[2]) - v.min[2] = c[2]
          /\ x[1] - Lo(v.min[1], x[1]) = l[1] /\ x[2] - Lo(v.min[2], x[2]) = l[2]
      BY <1>3, <1>5
    <3> QED
      BY <3>1, <3>2 DEF iterator2_offset
  <2> QED
    BY <1>5, <2>1, <2>2 DEF ByDim
<1>6. CASE Dim(v) = 3
  <2>1. BlockRank(v, x) = c[3] * n[1] * n[2] + c[2] * n[1] * s[3] + c[1] * s[2] * s[3]
                          + l[3] * s[1] * s[2] + l[2] * s[1] + l[1]
    <3>1. /\ n[4] = 1 /\ s[4] = 1 /\ c[4] = 0 /\ l[4] = 0
      BY <1>1, <1>6
    <3> QED
      BY <1>2, <1>8, <3>1
  <2>2. iterator3_offset(v, x) = c[3] * n[1] * n[2] + c[2] * n[1] * s[3] + c[1] * s[2] * s[3]
                                 + l[3] * s[1] * s[2] + l[2] * s[1] + l[1]
    <3>1. x[3] # v.max[3]
      BY <1>3, <1>6
    <3>2. /\ BlockMin(v, 1, x[1]) = Lo(v.min[1], x[1]) /\ BlockMin(v, 2, x[2]) = Lo(v.min[2], x[2])
          /\ BlockMin(v, 3, x[3]) = Lo(v.min[3], x[3])
          /\ BlockExtent(v, 1, Lo(v.min[1], x[1])) = s[1]
          /\ BlockExtent(v, 2, Lo(v.min[2], x[2])) = s[2]
          /\ BlockExtent(v, 3, Lo(v.min[3], x[3])) = s[3]
          /\ Extent(v)[1] = n[1] /\ Extent(v)[2] = n[2]
          /\ Lo(v.min[1], x[1]) - v.min[1] = c[1] /\ Lo(v.min[2], x[2]) - v.min[2] = c[2]
          /\ Lo(v.min[3], x[3]) - v.min[3] = c[3]
          /\ x[1] - Lo(v.min[1], x[1]) = l[1] /\ x[2] - Lo(v.min[2], x[2]) = l[2]
          /\ x[3] - Lo(v.min[3], x[3]) = l[3]
      BY <1>3, <1>6
    <3> QED
      BY <3>1, <3>2 DEF iterator3_offset
  <2> QED
    BY <1>6, <2>1, <2>2 DEF ByDim
<1>7. CASE Dim(v) = 4
  <2>1. BlockRank(v, x) = c[4] * n[1] * n[2] * n[3] + c[3] * n[1] * n[2] * s[4]
                          + c[2] * n[1] * s[3] * s[4] + c[1] * s[2] * s[3] * s[4]
                          + l[4] * s[1] * s[2] * s[3]
                          + l[3] * s[1] * s[2] + l[2] * s[1] + l[1]
    BY <1>2, <1>8
  <2>2. iterator4_offset(v, x) = c[4] * n[1] * n[2] * n[3] + c[3] * n[1] * n[2] * s[4]
                                 + c[2] * n[1] * s[3] * s[4] + c[1] * s[2] * s[3] * s[4]
                                 + l[4] * s[1] * s[2] * s[3]
                                 + l[3] * s[1] * s[2] + l[2] * s[1] + l[1]
    <3>1. x[4] # v.max[4]
      BY <1>3, <1>7
    <3>2. /\ BlockMin(v, 1, x[1]) = Lo(v.min[1], x[1]) /\ BlockMin(v, 2, x[2]) = Lo(v.min[2], x[2])
          /\ BlockMin(v, 3, x[3]) = Lo(v.min[3], x[3]) /\ BlockMin(v, 4, x[4]) = Lo(v.min[4], x[4])
          /\ BlockExtent(v, 1, Lo(v.min[1], x[1])) = s[1]
          /\ BlockExtent(v, 2, Lo(v.min[2], x[2])) = s[2]
          /\ BlockExtent(v, 3, Lo(v.min[3], x[3])) = s[3]
          /\ BlockExtent(v, 4, Lo(v.min[4], x[4])) = s[4]
          /\ Extent(v)[1] = n[1] /\ Extent(v)[2] = n[2] /\ Extent(v)[3] = n[3]
          /\ Lo(v.min[1], x[1]) - v.min[1] = c[1] /\ Lo(v.min[2], x[2]) - v.min[2] = c[2]
          /\ Lo(v.min[3], x[3]) - v.min[3] = c[3] /\ Lo(v.min[4], x[4]) - v.min[4] = c[4]
          /\ x[1] - Lo(v.min[1], x[1]) = l[1] /\ x[2] - Lo(v.min[2], x[2]) = l[2]
          /\ x[3] - Lo(v.min[3], x[3]) = l[3] /\ x[4] - Lo(v.min[4], x[4]) = l[4]
      BY <1>3, <1>7
    <3> QED
      BY <3>1, <3>2 DEF iterator4_offset
  <2> QED
    BY <1>7, <2>1, <2>2 DEF ByDim
<1> QED
  BY <1>1, <1>4, <1>5, <1>6, <1>7

\* The number of elements.
LEMMA SizeIs ==
  ASSUME NEW v \in Views
  PROVE  /\ Size(v) = Ext(v)[1] * Ext(v)[2] * Ext(v)[3] * Ext(v)[4]
         /\ Size(v) \in Nat /\ Size(v) > 0
<1> DEFINE n == Ext(v)
<1>1. \A d \in 1 .. 4 : n[d] \in Nat \ {0}
  BY ViewFacts DEF Ext
<1>2. \A d \in 1 .. 4 : d > Dim(v) => n[d] = 1
  <2> TAKE d \in 1 .. 4
  <2> HAVE d > Dim(v)
  <2>1. Dim(v) \in 1 .. 4
    BY ViewFacts
  <2>2. ~ (d <= Dim(v))
    BY <2>1
  <2> QED
    BY <2>2 DEF Ext, ext, max_, min_
<1>3. \A d \in 1 .. 4 : d <= Dim(v) => Extent(v)[d] = n[d]
  BY ViewFacts DEF Extent, Ext, ext, min_, max_
<1>4. Dim(v) \in 1 .. 4
  BY ViewFacts
<1> HIDE DEF n
<1>5. n[1] \in Nat \ {0} /\ n[2] \in Nat \ {0} /\ n[3] \in Nat \ {0} /\ n[4] \in Nat \ {0}
  BY <1>1
<1>6. /\ n[1] * n[2] \in Nat \ {0} /\ n[1] * n[2] * n[3] \in Nat \ {0}
      /\ n[1] * n[2] * n[3] * n[4] \in Nat \ {0}
  BY <1>5, ProductType
<1>7. Size(v) = n[1] * n[2] * n[3] * n[4]
  <2>1. CASE Dim(v) = 1
    <3>1. n[2] = 1 /\ n[3] = 1 /\ n[4] = 1 /\ Extent(v)[1] = n[1]
      BY <1>2, <1>3, <2>1
    <3> QED
      BY <1>5, <2>1, <3>1 DEF Size, ByDim
  <2>2. CASE Dim(v) = 2
    <3>1. n[3] = 1 /\ n[4] = 1 /\ Extent(v)[1] = n[1] /\ Extent(v)[2] = n[2]
      BY <1>2, <1>3, <2>2
    <3> QED
      BY <1>5, <1>6, <2>2, <3>1 DEF Size, ByDim
  <2>3. CASE Dim(v) = 3
    <3>1. /\ n[4] = 1 /\ Extent(v)[1] = n[1] /\ Extent(v)[2] = n[2] /\ Extent(v)[3] = n[3]
      BY <1>2, <1>3, <2>3
    <3> QED
      BY <1>5, <1>6, <2>3, <3>1 DEF Size, ByDim
  <2>4. CASE Dim(v) = 4
    <3>1. /\ Extent(v)[1] = n[1] /\ Extent(v)[2] = n[2] /\ Extent(v)[3] = n[3]
          /\ Extent(v)[4] = n[4]
      BY <1>3, <2>4
    <3> QED
      BY <2>4, <3>1 DEF Size, ByDim
  <2> QED
    BY <1>4, <2>1, <2>2, <2>3, <2>4
<1> QED
  BY <1>6, <1>7 DEF n

\* Ranks are below the number of elements.
LEMMA RankBound ==
  ASSUME NEW v \in Views, NEW x \in Elements(v)
  PROVE  BlockRank(v, x) \in 0 .. (Size(v) - 1) /\ RowRank(v, x) \in 0 .. (Size(v) - 1)
<1> DEFINE Zero == [d \in 1 .. 4 |-> 0]
<1>1. /\ Ext(v) \in [1 .. 4 -> Nat] /\ Siz(v, x) \in [1 .. 4 -> Nat]
      /\ Pos(v, x) \in [1 .. 4 -> Nat] /\ Loc(v, x) \in [1 .. 4 -> Nat]
      /\ Row(v, x) \in [1 .. 4 -> Nat]
      /\ \A d \in 1 .. 4 : /\ Loc(v, x)[d] < Siz(v, x)[d]
                           /\ Pos(v, x)[d] + Siz(v, x)[d] <= Ext(v)[d]
                           /\ Row(v, x)[d] < Ext(v)[d]
  BY Shape
<1>2. /\ Sequential(Ext(v), Siz(v, x), Pos(v, x), Loc(v, x)) \in Nat
      /\ Sequential(Ext(v), Siz(v, x), Pos(v, x), Loc(v, x))
           < Ext(v)[1] * Ext(v)[2] * Ext(v)[3] * Ext(v)[4]
  BY <1>1, SequentialBound
<1>3. /\ Local4(Ext(v), Row(v, x)) \in Nat
      /\ Local4(Ext(v), Row(v, x)) < Ext(v)[1] * (Ext(v)[2] * Ext(v)[3] * Ext(v)[4])
  <2>1. Zero \in [1 .. 4 -> Nat] /\ \A d \in 1 .. 4 : Zero[d] + Ext(v)[d] <= Ext(v)[d]
    BY <1>1
  <2> HIDE DEF Zero
  <2> QED
    BY <1>1, <2>1, SequentialBound
<1>4. Size(v) = Ext(v)[1] * Ext(v)[2] * Ext(v)[3] * Ext(v)[4]
  BY SizeIs
<1>5. Ext(v)[1] * (Ext(v)[2] * Ext(v)[3] * Ext(v)[4]) = Ext(v)[1] * Ext(v)[2] * Ext(v)[3] * Ext(v)[4]
  BY <1>1
<1>6. Size(v) \in Nat
  BY SizeIs
<1> QED
  <2>1. BlockRank(v, x) \in Nat /\ BlockRank(v, x) < Size(v)
    BY <1>2, <1>4 DEF BlockRank
  <2>2. RowRank(v, x) \in Nat /\ RowRank(v, x) < Size(v)
    BY <1>3, <1>4, <1>5 DEF RowRank
  <2> QED
    BY <1>6, <2>1, <2>2

\* Comparing and moving a pointer starts from its rank, in C too, where arrays begin at 0.
LEMMA RowOffset ==
  ASSUME NEW v \in Views, NEW x \in Elements(v)
  PROVE  /\ RowRank(v, x) = ByDim(v, pointer1_offset(v, x), pointer2_offset(v, x),
                                  pointer3_offset(v, x), pointer4_offset(v, x))
         /\ (\A d \in 1 .. Dim(v) : v.min[d] = 0) =>
              RowRank(v, x) = ByDim(v, cfp1_ref_offset(v, x), cfp2_ref_offset(v, x),
                                    cfp3_ref_offset(v, x), cfp4_ref_offset(v, x))
<1> DEFINE n == Ext(v)
           r == Row(v, x)
<1>1. /\ \A d \in 1 .. 4 : n[d] \in Nat /\ r[d] \in Nat
      /\ \A d \in 1 .. 4 : d > Dim(v) => n[d] = 1 /\ r[d] = 0
      /\ Dim(v) \in 1 .. 4
  <2>1. n \in [1 .. 4 -> Nat] /\ r \in [1 .. 4 -> Nat]
    BY Shape
  <2>2. \A d \in 1 .. 4 : d > Dim(v) => n[d] = 1 /\ r[d] = 0
    BY Padding
  <2>3. Dim(v) \in 1 .. 4
    BY ViewFacts
  <2> HIDE DEF n, r
  <2> QED
    BY <2>1, <2>2, <2>3
<1>2. RowRank(v, x) = r[4] * (n[1] * n[2] * n[3]) + (r[3] * (n[1] * n[2]) + (r[2] * n[1] + r[1]))
  BY Zenon DEF RowRank, Local4, Local3, Local2
<1>3. \A d \in 1 .. Dim(v) : /\ v.min[d] \in Nat /\ x[d] \in Nat
                             /\ Extent(v)[d] = n[d] /\ x[d] - v.min[d] = r[d]
  <2> TAKE d \in 1 .. Dim(v)
  <2>1. /\ v.min[d] \in Nat /\ v.max[d] \in Nat /\ x[d] \in v.min[d] .. (v.max[d] - 1)
        /\ Extent(v)[d] = n[d] /\ x[d] - v.min[d] = r[d]
    BY Along
  <2> QED
    BY <2>1
<1> HIDE DEF n, r
<1>4. /\ n[1] \in Nat /\ n[2] \in Nat /\ n[3] \in Nat
      /\ r[1] \in Nat /\ r[2] \in Nat /\ r[3] \in Nat /\ r[4] \in Nat
  BY <1>1
<1>5. CASE Dim(v) = 1
  <2>1. RowRank(v, x) = r[1]
    <3>1. n[2] = 1 /\ n[3] = 1 /\ n[4] = 1 /\ r[2] = 0 /\ r[3] = 0 /\ r[4] = 0
      BY <1>1, <1>5
    <3> QED
      BY <1>2, <1>4, <3>1
  <2>2. x[1] - v.min[1] = r[1]
    BY <1>3, <1>5
  <2>4. pointer1_offset(v, x) = r[1]
    BY <2>2 DEF pointer1_offset
  <2>5. (\A d \in 1 .. Dim(v) : v.min[d] = 0) => cfp1_ref_offset(v, x) = r[1]
    <3> HAVE \A d \in 1 .. Dim(v) : v.min[d] = 0
    <3>1. x[1] = r[1]
      BY <1>3, <1>5
    <3> QED
      BY <3>1 DEF cfp1_ref_offset
  <2> QED
    BY <1>5, <2>1, <2>4, <2>5 DEF ByDim
<1>6. CASE Dim(v) = 2
  <2>1. RowRank(v, x) = r[1] + n[1] * r[2]
    <3>1. n[3] = 1 /\ n[4] = 1 /\ r[3] = 0 /\ r[4] = 0
      BY <1>1, <1>6
    <3> QED
      BY <1>2, <1>4, <3>1
  <2>2. x[1] - v.min[1] = r[1] /\ x[2] - v.min[2] = r[2]
    BY <1>3, <1>6
  <2>3. Extent(v)[1] = n[1]
    BY <1>3, <1>6
  <2>4. pointer2_offset(v, x) = r[1] + n[1] * r[2]
    BY <2>2, <2>3 DEF pointer2_offset
  <2>5. (\A d \in 1 .. Dim(v) : v.min[d] = 0) => cfp2_ref_offset(v, x) = r[1] + n[1] * r[2]
    <3> HAVE \A d \in 1 .. Dim(v) : v.min[d] = 0
    <3>1. x[1] = r[1] /\ x[2] = r[2]
      BY <1>3, <1>6
    <3> QED
      BY <3>1, <2>3 DEF cfp2_ref_offset
  <2> QED
    BY <1>6, <2>1, <2>4, <2>5 DEF ByDim
<1>7. CASE Dim(v) = 3
  <2>1. RowRank(v, x) = r[1] + n[1] * (r[2] + n[2] * r[3])
    <3>1. n[4] = 1 /\ r[4] = 0
      BY <1>1, <1>7
    <3> QED
      BY <1>2, <1>4, <3>1
  <2>2. x[1] - v.min[1] = r[1] /\ x[2] - v.min[2] = r[2] /\ x[3] - v.min[3] = r[3]
    BY <1>3, <1>7
  <2>3. Extent(v)[1] = n[1] /\ Extent(v)[2] = n[2]
    BY <1>3, <1>7
  <2>4. pointer3_offset(v, x) = r[1] + n[1] * (r[2] + n[2] * r[3])
    BY <2>2, <2>3 DEF pointer3_offset
  <2>5. (\A d \in 1 .. Dim(v) : v.min[d] = 0) => cfp3_ref_offset(v, x) = r[1] + n[1] * (r[2] + n[2] * r[3])
    <3> HAVE \A d \in 1 .. Dim(v) : v.min[d] = 0
    <3>1. x[1] = r[1] /\ x[2] = r[2] /\ x[3] = r[3]
      BY <1>3, <1>7
    <3> QED
      BY <3>1, <2>3 DEF cfp3_ref_offset
  <2> QED
    BY <1>7, <2>1, <2>4, <2>5 DEF ByDim
<1>8. CASE Dim(v) = 4
  <2>1. RowRank(v, x) = r[1] + n[1] * (r[2] + n[2] * (r[3] + n[3] * r[4]))
    BY <1>2, <1>4
  <2>2. x[1] - v.min[1] = r[1] /\ x[2] - v.min[2] = r[2] /\ x[3] - v.min[3] = r[3] /\ x[4] - v.min[4] = r[4]
    BY <1>3, <1>8
  <2>3. Extent(v)[1] = n[1] /\ Extent(v)[2] = n[2] /\ Extent(v)[3] = n[3]
    BY <1>3, <1>8
  <2>4. pointer4_offset(v, x) = r[1] + n[1] * (r[2] + n[2] * (r[3] + n[3] * r[4]))
    BY <2>2, <2>3 DEF pointer4_offset
  <2>5. (\A d \in 1 .. Dim(v) : v.min[d] = 0)
            => cfp4_ref_offset(v, x) = r[1] + n[1] * (r[2] + n[2] * (r[3] + n[3] * r[4]))
    <3> HAVE \A d \in 1 .. Dim(v) : v.min[d] = 0
    <3>1. x[1] = r[1] /\ x[2] = r[2] /\ x[3] = r[3] /\ x[4] = r[4]
      BY <1>3, <1>8
    <3> QED
      BY <3>1, <2>3 DEF cfp4_ref_offset
  <2> QED
    BY <1>8, <2>1, <2>4, <2>5 DEF ByDim
<1> QED
  BY <1>1, <1>5, <1>6, <1>7, <1>8

\* The offset of the end is the number of elements.
LEMMA EndOffset ==
  ASSUME NEW v \in Views
  PROVE  /\ Size(v) = ByDim(v, iterator1_offset(v, End(v)), iterator2_offset(v, End(v)),
                            iterator3_offset(v, End(v)), iterator4_offset(v, End(v)))
         /\ Size(v) = ByDim(v, pointer1_offset(v, End(v)), pointer2_offset(v, End(v)),
                            pointer3_offset(v, End(v)), pointer4_offset(v, End(v)))
         /\ (\A d \in 1 .. Dim(v) : v.min[d] = 0) =>
              Size(v) = ByDim(v, cfp1_ref_offset(v, End(v)), cfp2_ref_offset(v, End(v)),
                              cfp3_ref_offset(v, End(v)), cfp4_ref_offset(v, End(v)))
<1> DEFINE n == Extent(v)
           e == End(v)
<1>1. Dim(v) \in 1 .. 4
  BY ViewFacts
<1>2. \A d \in 1 .. Dim(v) : /\ v.min[d] \in Nat /\ v.max[d] \in Nat
                             /\ n[d] \in Nat /\ n[d] = v.max[d] - v.min[d]
                             /\ e[d] = IF d = Dim(v) THEN v.max[d] ELSE v.min[d]
  <2>1. /\ v.min \in [1 .. Dim(v) -> Nat] /\ v.max \in [1 .. Dim(v) -> Nat]
        /\ \A d \in 1 .. Dim(v) : v.min[d] \in Nat /\ v.max[d] \in Nat /\ v.min[d] < v.max[d]
    BY ViewFacts
  <2>2. \A d \in 1 .. Dim(v) : n[d] = v.max[d] - v.min[d]
    BY DEF Extent
  <2>3. \A d \in 1 .. Dim(v) : e[d] = IF d = Dim(v) THEN v.max[d] ELSE v.min[d]
    BY <1>1, <2>1 DEF End
  <2> HIDE DEF n, e
  <2> QED
    BY <2>1, <2>2, <2>3
<1> HIDE DEF n, e
<1>3. CASE Dim(v) = 1
  <2>1. Size(v) = n[1]
    BY <1>3 DEF Size, ByDim, n
  <2>2. /\ v.min[1] \in Nat /\ v.max[1] \in Nat /\ n[1] \in Nat /\ v.max[1] - v.min[1] = n[1]
        /\ e[1] = v.max[1] /\ e[1] - v.min[1] = n[1]
    BY <1>2, <1>3
  <2>3. iterator1_offset(v, e) = n[1]
    BY <2>2 DEF iterator1_offset, n
  <2>4. pointer1_offset(v, e) = n[1]
    <3>1. pointer1_offset(v, e) = e[1] - v.min[1]
      BY Zenon DEF pointer1_offset, n
    <3> QED
      BY <2>2, <3>1
  <2>5. (\A d \in 1 .. Dim(v) : v.min[d] = 0) => cfp1_ref_offset(v, e) = n[1]
    <3> HAVE \A d \in 1 .. Dim(v) : v.min[d] = 0
    <3>1. cfp1_ref_offset(v, e) = e[1]
      BY Zenon DEF cfp1_ref_offset, n
    <3>2. v.min[1] = 0
      BY <1>3
    <3> QED
      BY <2>2, <3>1, <3>2
  <2> QED
    BY <1>3, <2>1, <2>3, <2>4, <2>5 DEF ByDim, e
<1>4. CASE Dim(v) = 2
  <2>1. Size(v) = n[1] * n[2]
    BY <1>4 DEF Size, ByDim, n
  <2>2. /\ v.min[1] \in Nat /\ v.max[1] \in Nat /\ n[1] \in Nat /\ v.max[1] - v.min[1] = n[1]
        /\ e[1] = v.min[1] /\ e[1] - v.min[1] = 0
        /\ v.min[2] \in Nat /\ v.max[2] \in Nat /\ n[2] \in Nat /\ v.max[2] - v.min[2] = n[2]
        /\ e[2] = v.max[2] /\ e[2] - v.min[2] = n[2]
    BY <1>2, <1>4
  <2>3. iterator2_offset(v, e) = n[1] * n[2]
    BY <2>2 DEF iterator2_offset, n
  <2>4. pointer2_offset(v, e) = n[1] * n[2]
    <3>1. pointer2_offset(v, e) = (e[1] - v.min[1]) + n[1] * (e[2] - v.min[2])
      BY Zenon DEF pointer2_offset, n
    <3> QED
      BY <2>2, <3>1
  <2>5. (\A d \in 1 .. Dim(v) : v.min[d] = 0) => cfp2_ref_offset(v, e) = n[1] * n[2]
    <3> HAVE \A d \in 1 .. Dim(v) : v.min[d] = 0
    <3>1. cfp2_ref_offset(v, e) = e[1] + n[1] * e[2]
      BY Zenon DEF cfp2_ref_offset, n
    <3>2. v.min[1] = 0 /\ v.min[2] = 0
      BY <1>4
    <3> QED
      BY <2>2, <3>1, <3>2
  <2> QED
    BY <1>4, <2>1, <2>3, <2>4, <2>5 DEF ByDim, e
<1>5. CASE Dim(v) = 3
  <2>1. Size(v) = n[1] * n[2] * n[3]
    BY <1>5 DEF Size, ByDim, n
  <2>2. /\ v.min[1] \in Nat /\ v.max[1] \in Nat /\ n[1] \in Nat /\ v.max[1] - v.min[1] = n[1]
        /\ e[1] = v.min[1] /\ e[1] - v.min[1] = 0
        /\ v.min[2] \in Nat /\ v.max[2] \in Nat /\ n[2] \in Nat /\ v.max[2] - v.min[2] = n[2]
        /\ e[2] = v.min[2] /\ e[2] - v.min[2] = 0
        /\ v.min[3] \in Nat /\ v.max[3] \in Nat /\ n[3] \in Nat /\ v.max[3] - v.min[3] = n[3]
        /\ e[3] = v.max[3] /\ e[3] - v.min[3] = n[3]
    BY <1>2, <1>5
  <2>3. iterator3_offset(v, e) = n[1] * n[2] * n[3]
    BY <2>2 DEF iterator3_offset, n
  <2>4. pointer3_offset(v, e) = n[1] * n[2] * n[3]
    <3>1. pointer3_offset(v, e) = (e[1] - v.min[1]) + n[1] * ((e[2] - v.min[2]) + n[2] * (e[3] - v.min[3]))
      BY Zenon DEF pointer3_offset, n
    <3> QED
      BY <2>2, <3>1
  <2>5. (\A d \in 1 .. Dim(v) : v.min[d] = 0) => cfp3_ref_offset(v, e) = n[1] * n[2] * n[3]
    <3> HAVE \A d \in 1 .. Dim(v) : v.min[d] = 0
    <3>1. cfp3_ref_offset(v, e) = e[1] + n[1] * (e[2] + n[2] * e[3])
      BY Zenon DEF cfp3_ref_offset, n
    <3>2. v.min[1] = 0 /\ v.min[2] = 0 /\ v.min[3] = 0
      BY <1>5
    <3> QED
      BY <2>2, <3>1, <3>2
  <2> QED
    BY <1>5, <2>1, <2>3, <2>4, <2>5 DEF ByDim, e
<1>6. CASE Dim(v) = 4
  <2>1. Size(v) = n[1] * n[2] * n[3] * n[4]
    BY <1>6 DEF Size, ByDim, n
  <2>2. /\ v.min[1] \in Nat /\ v.max[1] \in Nat /\ n[1] \in Nat /\ v.max[1] - v.min[1] = n[1]
        /\ e[1] = v.min[1] /\ e[1] - v.min[1] = 0
        /\ v.min[2] \in Nat /\ v.max[2] \in Nat /\ n[2] \in Nat /\ v.max[2] - v.min[2] = n[2]
        /\ e[2] = v.min[2] /\ e[2] - v.min[2] = 0
        /\ v.min[3] \in Nat /\ v.max[3] \in Nat /\ n[3] \in Nat /\ v.max[3] - v.min[3] = n[3]
        /\ e[3] = v.min[3] /\ e[3] - v.min[3] = 0
        /\ v.min[4] \in Nat /\ v.max[4] \in Nat /\ n[4] \in Nat /\ v.max[4] - v.min[4] = n[4]
        /\ e[4] = v.max[4] /\ e[4] - v.min[4] = n[4]
    BY <1>2, <1>6
  <2>3. iterator4_offset(v, e) = n[1] * n[2] * n[3] * n[4]
    BY <2>2 DEF iterator4_offset, n
  <2>4. pointer4_offset(v, e) = n[1] * n[2] * n[3] * n[4]
    <3>1. pointer4_offset(v, e) = (e[1] - v.min[1])
              + n[1] * ((e[2] - v.min[2]) + n[2] * ((e[3] - v.min[3]) + n[3] * (e[4] - v.min[4])))
      BY Zenon DEF pointer4_offset, n
    <3> QED
      BY <2>2, <3>1
  <2>5. (\A d \in 1 .. Dim(v) : v.min[d] = 0) => cfp4_ref_offset(v, e) = n[1] * n[2] * n[3] * n[4]
    <3> HAVE \A d \in 1 .. Dim(v) : v.min[d] = 0
    <3>1. cfp4_ref_offset(v, e) = e[1] + n[1] * (e[2] + n[2] * (e[3] + n[3] * e[4]))
      BY Zenon DEF cfp4_ref_offset, n
    <3>2. v.min[1] = 0 /\ v.min[2] = 0 /\ v.min[3] = 0 /\ v.min[4] = 0
      BY <1>6
    <3> QED
      BY <2>2, <3>1, <3>2
  <2> QED
    BY <1>6, <2>1, <2>3, <2>4, <2>5 DEF ByDim, e
<1> QED
  BY <1>1, <1>3, <1>4, <1>5, <1>6

-----------------------------------------------------------------------------
\* The next number.

\* A digit that is followed by the greatest rest carries.
LEMMA Carry ==
  ASSUME NEW c \in Nat, NEW s \in Nat, NEW u \in Nat, NEW r \in Nat, r + 1 = s * u
  PROVE  c * u + r \in Nat /\ (c * u + r) + 1 = (c + s) * u
<1>1. (c + s) * u = c * u + s * u /\ c * u \in Nat
  OBVIOUS
<1> QED
  BY <1>1

\* Within a block.
LEMMA LocalStep ==
  ASSUME NEW s \in [1 .. 4 -> Nat], NEW l \in [1 .. 4 -> Nat], NEW k \in [1 .. 4 -> Nat],
         NEW i \in 1 .. 4,
         \A d \in 1 .. 4 : d < i => l[d] + 1 = s[d] /\ k[d] = 0,
         k[i] = l[i] + 1,
         \A d \in 1 .. 4 : d > i => k[d] = l[d]
  PROVE  Local4(s, k) = Local4(s, l) + 1
<1> DEFINE l1 == l[1]  l2 == l[2]  l3 == l[3]  l4 == l[4]
           k1 == k[1]  k2 == k[2]  k3 == k[3]  k4 == k[4]
           s1 == s[1]  s2 == s[2]  s3 == s[3]
           u3 == s1 * s2
           u4 == s1 * s2 * s3
           r2 == Local2(s, l)
           r3 == Local3(s, l)
           r4 == Local4(s, l)
           q2 == Local2(s, k)
           q3 == Local3(s, k)
           q4 == Local4(s, k)
<1>1. /\ l1 \in Nat /\ l2 \in Nat /\ l3 \in Nat /\ l4 \in Nat
      /\ k1 \in Nat /\ k2 \in Nat /\ k3 \in Nat /\ k4 \in Nat
      /\ s1 \in Nat /\ s2 \in Nat /\ s3 \in Nat
  OBVIOUS
<1>2. /\ r2 = l2 * s1 + l1 /\ r3 = l3 * u3 + r2 /\ r4 = l4 * u4 + r3
      /\ q2 = k2 * s1 + k1 /\ q3 = k3 * u3 + q2 /\ q4 = k4 * u4 + q3
  BY DEF Local2, Local3, Local4
<1>3. /\ u3 \in Nat /\ u4 \in Nat /\ s2 * s1 = u3 /\ s3 * u3 = u4 /\ 1 * s1 = s1
      /\ 1 * u3 = u3 /\ 1 * u4 = u4 /\ 0 * s1 = 0 /\ 0 * u3 = 0
  <2> HIDE DEF l1, l2, l3, l4, k1, k2, k3, k4, s1, s2, s3
  <2> QED
    BY <1>1
<1>4. /\ i = 1 => k1 = l1 + 1 /\ k2 = l2 /\ k3 = l3 /\ k4 = l4
      /\ i = 2 => l1 + 1 = s1 /\ k1 = 0 /\ k2 = l2 + 1 /\ k3 = l3 /\ k4 = l4
      /\ i = 3 => /\ l1 + 1 = s1 /\ k1 = 0 /\ l2 + 1 = s2 /\ k2 = 0 /\ k3 = l3 + 1 /\ k4 = l4
      /\ i = 4 => /\ l1 + 1 = s1 /\ k1 = 0 /\ l2 + 1 = s2 /\ k2 = 0 /\ l3 + 1 = s3 /\ k3 = 0
                  /\ k4 = l4 + 1
  OBVIOUS
<1> HIDE DEF l1, l2, l3, l4, k1, k2, k3, k4, s1, s2, s3, u3, u4, r2, r3, r4, q2, q3, q4
<1>5. /\ l2 * s1 \in Nat /\ l3 * u3 \in Nat /\ l4 * u4 \in Nat /\ r2 \in Nat /\ r3 \in Nat /\ r4 \in Nat
  BY <1>1, <1>2, <1>3
<1>6. /\ (l2 + 1) * s1 = l2 * s1 + s1 /\ (l3 + 1) * u3 = l3 * u3 + u3
      /\ (l4 + 1) * u4 = l4 * u4 + u4
  BY <1>1, <1>3
<1>7. CASE i = 1
  BY <1>1, <1>2, <1>4, <1>5, <1>7 DEF r4, q4
<1>8. CASE i = 2
  BY <1>1, <1>2, <1>3, <1>4, <1>5, <1>6, <1>8 DEF r4, q4
<1>9. CASE i = 3
  <2>1. (l2 + 1) * s1 = u3
    BY <1>3, <1>4, <1>9
  <2>2. r2 + 1 = u3
    BY <1>1, <1>2, <1>3, <1>4, <1>5, <1>6, <1>9, <2>1
  <2>3. q2 = 0
    BY <1>2, <1>3, <1>4, <1>9
  <2> QED
    BY <1>1, <1>2, <1>3, <1>4, <1>5, <1>6, <1>9, <2>2, <2>3 DEF r4, q4
<1>10. CASE i = 4
  <2>1. (l2 + 1) * s1 = u3 /\ (l3 + 1) * u3 = u4
    BY <1>3, <1>4, <1>10
  <2>2. r2 + 1 = u3
    BY <1>1, <1>2, <1>3, <1>4, <1>5, <1>6, <1>10, <2>1
  <2>3. r3 + 1 = u4
    BY <1>1, <1>2, <1>3, <1>5, <1>6, <2>1, <2>2
  <2>4. q2 = 0
    BY <1>2, <1>3, <1>4, <1>10
  <2>5. q3 = 0
    BY <1>2, <1>3, <1>4, <1>10, <2>4
  <2> QED
    BY <1>1, <1>2, <1>3, <1>4, <1>5, <1>6, <1>10, <2>3, <2>5 DEF r4, q4
<1> QED
  BY <1>7, <1>8, <1>9, <1>10

\* The last place of a block.
LEMMA LocalLast ==
  ASSUME NEW s \in [1 .. 4 -> Nat], NEW l \in [1 .. 4 -> Nat], \A d \in 1 .. 4 : l[d] + 1 = s[d]
  PROVE  Local4(s, l) \in Nat /\ Local4(s, l) + 1 = s[1] * (s[2] * s[3] * s[4])
<1> DEFINE l1 == l[1]  l2 == l[2]  l3 == l[3]  l4 == l[4]
           s1 == s[1]  s2 == s[2]  s3 == s[3]  s4 == s[4]
           u3 == s1 * s2
           u4 == s1 * s2 * s3
           r2 == Local2(s, l)
           r3 == Local3(s, l)
           r4 == Local4(s, l)
<1>1. /\ l1 \in Nat /\ l2 \in Nat /\ l3 \in Nat /\ l4 \in Nat
      /\ s1 \in Nat /\ s2 \in Nat /\ s3 \in Nat /\ s4 \in Nat
      /\ l1 + 1 = s1 /\ l2 + 1 = s2 /\ l3 + 1 = s3 /\ l4 + 1 = s4
  OBVIOUS
<1>2. r2 = l2 * s1 + l1 /\ r3 = l3 * u3 + r2 /\ r4 = l4 * u4 + r3
  BY DEF Local2, Local3, Local4
<1> HIDE DEF l1, l2, l3, l4, s1, s2, s3, s4, r2, r3, r4
<1>3. /\ u3 \in Nat /\ u4 \in Nat /\ s2 * s1 = 1 * u3 /\ s3 * u3 = 1 * u4
      /\ s4 * u4 = s1 * (s2 * s3 * s4) /\ 1 * s1 = s1
  BY <1>1
<1> HIDE DEF u3, u4
<1>4. r2 \in Nat /\ r2 + 1 = 1 * u3
  BY <1>1, <1>2, <1>3, Carry
<1>5. r3 \in Nat /\ r3 + 1 = 1 * u4
  BY <1>1, <1>2, <1>3, <1>4, Carry
<1>6. r4 \in Nat /\ r4 + 1 = s1 * (s2 * s3 * s4)
  BY <1>1, <1>2, <1>3, <1>5, Carry
<1> QED
  BY <1>6 DEF r4, s1, s2, s3, s4

\* From the last place of a block to the first one of the next block.
Follows(n, s, c, l, t, b, k, i) ==
  /\ n \in [1 .. 4 -> Nat] /\ s \in [1 .. 4 -> Nat] /\ c \in [1 .. 4 -> Nat] /\ l \in [1 .. 4 -> Nat]
  /\ t \in [1 .. 4 -> Nat] /\ b \in [1 .. 4 -> Nat] /\ k \in [1 .. 4 -> Nat] /\ i \in 1 .. 4
  /\ \A d \in 1 .. 4 : l[d] + 1 = s[d] /\ k[d] = 0
  /\ \A d \in 1 .. 4 : d < i => c[d] + s[d] = n[d] /\ b[d] = 0
  /\ b[i] = c[i] + s[i]
  /\ \A d \in 1 .. 4 : d > i => b[d] = c[d] /\ t[d] = s[d]

\* That step adds one to the number of an element.
LEMMA BlockStep ==
  ASSUME NEW n, NEW s, NEW c, NEW l, NEW t, NEW b, NEW k, NEW i,
         Follows(n, s, c, l, t, b, k, i)
  PROVE  Sequential(n, t, b, k) = Sequential(n, s, c, l) + 1
<1> DEFINE n1 == n[1]  n2 == n[2]  n3 == n[3]
           c1 == c[1]  c2 == c[2]  c3 == c[3]  c4 == c[4]
           b1 == b[1]  b2 == b[2]  b3 == b[3]  b4 == b[4]
           s1 == s[1]  s2 == s[2]  s3 == s[3]  s4 == s[4]
           t1 == t[1]  t2 == t[2]  t3 == t[3]  t4 == t[4]
           r4 == Local4(s, l)
           q1 == Blocks1(s, c, l)
           q2 == Blocks2(n, s, c, l)
           q3 == Blocks3(n, s, c, l)
           q4 == Sequential(n, s, c, l)
           g4 == Local4(t, k)
           h1 == Blocks1(t, b, k)
           h2 == Blocks2(n, t, b, k)
           h3 == Blocks3(n, t, b, k)
           h4 == Sequential(n, t, b, k)
           w1 == s2 * s3 * s4
           w2 == n1 * s3 * s4
           w3 == n1 * n2 * s4
           w4 == n1 * n2 * n3
           y1 == t2 * t3 * t4
           y2 == n1 * t3 * t4
           y3 == n1 * n2 * t4
<1>1. /\ n1 \in Nat /\ n2 \in Nat /\ n3 \in Nat
      /\ c1 \in Nat /\ c2 \in Nat /\ c3 \in Nat /\ c4 \in Nat
      /\ b1 \in Nat /\ b2 \in Nat /\ b3 \in Nat /\ b4 \in Nat
      /\ s1 \in Nat /\ s2 \in Nat /\ s3 \in Nat /\ s4 \in Nat
      /\ t1 \in Nat /\ t2 \in Nat /\ t3 \in Nat /\ t4 \in Nat
  BY DEF Follows
<1>2. /\ q1 = c1 * w1 + r4 /\ q2 = c2 * w2 + q1 /\ q3 = c3 * w3 + q2 /\ q4 = c4 * w4 + q3
      /\ h1 = b1 * y1 + g4 /\ h2 = b2 * y2 + h1 /\ h3 = b3 * y3 + h2 /\ h4 = b4 * w4 + h3
  BY DEF Blocks1, Blocks2, Blocks3, Sequential
<1>3. r4 \in Nat /\ r4 + 1 = s1 * w1
  <2>1. \A d \in 1 .. 4 : l[d] + 1 = s[d]
    BY DEF Follows
  <2> QED
    BY <2>1, LocalLast DEF Follows
<1>4. g4 = 0
  <2>1. k[1] = 0 /\ k[2] = 0 /\ k[3] = 0 /\ k[4] = 0
    BY DEF Follows
  <2>2. g4 = k[4] * (t1 * t2 * t3) + (k[3] * (t1 * t2) + (k[2] * t1 + k[1]))
    BY Zenon DEF Local4, Local3, Local2
  <2> HIDE DEF g4, t1, t2, t3
  <2>3. t1 * t2 \in Nat /\ t1 * t2 * t3 \in Nat
    BY <1>1
  <2> QED
    BY <1>1, <2>1, <2>2, <2>3
<1>5. /\ i = 1 => b1 = c1 + s1 /\ b2 = c2 /\ t2 = s2 /\ b3 = c3 /\ t3 = s3 /\ b4 = c4 /\ t4 = s4
      /\ i = 2 => /\ c1 + s1 = n1 /\ b1 = 0 /\ b2 = c2 + s2
                  /\ b3 = c3 /\ t3 = s3 /\ b4 = c4 /\ t4 = s4
      /\ i = 3 => /\ c1 + s1 = n1 /\ b1 = 0 /\ c2 + s2 = n2 /\ b2 = 0 /\ b3 = c3 + s3
                  /\ b4 = c4 /\ t4 = s4
      /\ i = 4 => /\ c1 + s1 = n1 /\ b1 = 0 /\ c2 + s2 = n2 /\ b2 = 0 /\ c3 + s3 = n3 /\ b3 = 0
                  /\ b4 = c4 + s4
  BY DEF Follows
<1> HIDE DEF n1, n2, n3, c1, c2, c3, c4, b1, b2, b3, b4, s1, s2, s3, s4, t1, t2, t3, t4,
             r4, q1, q2, q3, q4, g4, h1, h2, h3, h4
<1>6. /\ w1 \in Nat /\ w2 \in Nat /\ w3 \in Nat /\ w4 \in Nat /\ y1 \in Nat /\ y2 \in Nat /\ y3 \in Nat
      /\ n1 * w1 = s2 * w2 /\ n2 * w2 = s3 * w3 /\ n3 * w3 = s4 * w4
      /\ t2 = s2 /\ t3 = s3 /\ t4 = s4 => y1 = w1
      /\ t3 = s3 /\ t4 = s4 => y2 = w2
      /\ t4 = s4 => y3 = w3
  BY <1>1
<1> HIDE DEF w1, w2, w3, w4, y1, y2, y3
<1>7. /\ (c1 + s1) * w1 = c1 * w1 + s1 * w1 /\ (c2 + s2) * w2 = c2 * w2 + s2 * w2
       /\ (c3 + s3) * w3 = c3 * w3 + s3 * w3 /\ (c4 + s4) * w4 = c4 * w4 + s4 * w4
       /\ c1 * w1 \in Nat /\ c2 * w2 \in Nat /\ c3 * w3 \in Nat /\ c4 * w4 \in Nat
  BY <1>1, <1>6
<1>8. q1 \in Nat /\ q1 + 1 = (c1 + s1) * w1
  BY <1>2, <1>3, <1>7
<1>9. ASSUME c1 + s1 = n1
       PROVE  q2 \in Nat /\ q2 + 1 = (c2 + s2) * w2
  <2>1. (c1 + s1) * w1 = s2 * w2
    BY <1>6, <1>9
  <2>2. q1 \in Nat /\ q1 + 1 = s2 * w2
    BY <1>8, <1>9, <2>1
  <2>3. /\ q2 = c2 * w2 + q1 /\ c2 * w2 \in Nat
        /\ (c2 + s2) * w2 = c2 * w2 + s2 * w2
    BY <1>2, <1>7
  <2> QED
    BY <2>2, <2>3
<1>10. ASSUME c1 + s1 = n1, c2 + s2 = n2
       PROVE  q3 \in Nat /\ q3 + 1 = (c3 + s3) * w3
  <2>1. (c2 + s2) * w2 = s3 * w3
    BY <1>6, <1>10
  <2>2. q2 \in Nat /\ q2 + 1 = s3 * w3
    BY <1>9, <1>10, <2>1
  <2>3. /\ q3 = c3 * w3 + q2 /\ c3 * w3 \in Nat
        /\ (c3 + s3) * w3 = c3 * w3 + s3 * w3
    BY <1>2, <1>7
  <2> QED
    BY <2>2, <2>3
<1>11. ASSUME c1 + s1 = n1, c2 + s2 = n2, c3 + s3 = n3
       PROVE  q4 \in Nat /\ q4 + 1 = (c4 + s4) * w4
  <2>1. (c3 + s3) * w3 = s4 * w4
    BY <1>6, <1>11
  <2>2. q3 \in Nat /\ q3 + 1 = s4 * w4
    BY <1>10, <1>11, <2>1
  <2>3. /\ q4 = c4 * w4 + q3 /\ c4 * w4 \in Nat
        /\ (c4 + s4) * w4 = c4 * w4 + s4 * w4
    BY <1>2, <1>7
  <2> QED
    BY <2>2, <2>3
<1>12. 0 * y1 = 0 /\ 0 * y2 = 0 /\ 0 * y3 = 0
  BY <1>6
<1>13. h4 = q4 + 1
  <2>1. /\ c2 * w2 \in Nat /\ c3 * w3 \in Nat /\ c4 * w4 \in Nat
        /\ (c1 + s1) * w1 \in Nat /\ (c2 + s2) * w2 \in Nat /\ (c3 + s3) * w3 \in Nat
    BY <1>1, <1>6
  <2>2. i \in 1 .. 4
    BY DEF Follows
  <2>3. CASE i = 1
    <3>1. h1 = q1 + 1
      BY <1>2, <1>4, <1>5, <1>6, <1>8, <2>1, <2>3
    <3>2. h2 = q2 + 1
      BY <1>2, <1>5, <1>6, <1>8, <2>1, <2>3, <3>1
    <3>3. q2 \in Nat
      BY <1>2, <1>8, <2>1
    <3>4. h3 = q3 + 1 /\ q3 \in Nat
      BY <1>2, <1>5, <1>6, <2>1, <2>3, <3>2, <3>3
    <3> QED
      BY <1>2, <1>5, <1>6, <2>1, <2>3, <3>4
  <2>4. CASE i = 2
    <3>1. h1 = 0
      BY <1>2, <1>4, <1>5, <1>12, <2>4
    <3>2. h2 = q2 + 1 /\ q2 \in Nat
      BY <1>2, <1>5, <1>6, <1>9, <2>1, <2>4, <3>1
    <3>3. h3 = q3 + 1 /\ q3 \in Nat
      BY <1>2, <1>5, <1>6, <2>1, <2>4, <3>2
    <3> QED
      BY <1>2, <1>5, <1>6, <2>1, <2>4, <3>3
  <2>5. CASE i = 3
    <3>1. h2 = 0
      BY <1>2, <1>4, <1>5, <1>12, <2>5
    <3>2. h3 = q3 + 1 /\ q3 \in Nat
      BY <1>2, <1>5, <1>6, <1>10, <2>1, <2>5, <3>1
    <3> QED
      BY <1>2, <1>5, <1>6, <2>1, <2>5, <3>2
  <2>6. CASE i = 4
    <3>1. h3 = 0
      BY <1>2, <1>4, <1>5, <1>12, <2>6
    <3>2. (c4 + s4) * w4 \in Nat
      BY <1>1, <1>6
    <3> QED
      BY <1>2, <1>5, <1>11, <2>6, <3>1, <3>2
  <2> QED
    BY <2>3, <2>4, <2>5, <2>6, <2>2
<1> QED
  BY <1>13 DEF h4, q4

\* The last number.
LEMMA SequentialLast ==
  ASSUME NEW n \in [1 .. 4 -> Nat],
         NEW s \in [1 .. 4 -> Nat], NEW c \in [1 .. 4 -> Nat], NEW l \in [1 .. 4 -> Nat],
         \A d \in 1 .. 4 : l[d] + 1 = s[d] /\ c[d] + s[d] = n[d]
  PROVE  Sequential(n, s, c, l) \in Nat /\ Sequential(n, s, c, l) + 1 = n[1] * n[2] * n[3] * n[4]
<1> DEFINE n1 == n[1]  n2 == n[2]  n3 == n[3]  n4 == n[4]
           c1 == c[1]  c2 == c[2]  c3 == c[3]  c4 == c[4]
           s1 == s[1]  s2 == s[2]  s3 == s[3]  s4 == s[4]
           r4 == Local4(s, l)
           q1 == Blocks1(s, c, l)
           q2 == Blocks2(n, s, c, l)
           q3 == Blocks3(n, s, c, l)
           q4 == Sequential(n, s, c, l)
           w1 == s2 * s3 * s4
           w2 == n1 * s3 * s4
           w3 == n1 * n2 * s4
           w4 == n1 * n2 * n3
<1>1. /\ n1 \in Nat /\ n2 \in Nat /\ n3 \in Nat /\ n4 \in Nat
      /\ c1 \in Nat /\ c2 \in Nat /\ c3 \in Nat /\ c4 \in Nat
      /\ s1 \in Nat /\ s2 \in Nat /\ s3 \in Nat /\ s4 \in Nat
      /\ c1 + s1 = n1 /\ c2 + s2 = n2 /\ c3 + s3 = n3 /\ c4 + s4 = n4
  OBVIOUS
<1>2. q1 = c1 * w1 + r4 /\ q2 = c2 * w2 + q1 /\ q3 = c3 * w3 + q2 /\ q4 = c4 * w4 + q3
  BY DEF Blocks1, Blocks2, Blocks3, Sequential
<1>3. r4 \in Nat /\ r4 + 1 = s1 * w1
  BY LocalLast
<1> HIDE DEF n1, n2, n3, n4, c1, c2, c3, c4, s1, s2, s3, s4, r4, q1, q2, q3, q4
<1>4. /\ w1 \in Nat /\ w2 \in Nat /\ w3 \in Nat /\ w4 \in Nat
      /\ (c1 + s1) * w1 = s2 * w2 /\ (c2 + s2) * w2 = s3 * w3 /\ (c3 + s3) * w3 = s4 * w4
      /\ (c4 + s4) * w4 = n1 * n2 * n3 * n4
  BY <1>1
<1>5. /\ c1 \in Nat /\ c2 \in Nat /\ c3 \in Nat /\ c4 \in Nat
      /\ s1 \in Nat /\ s2 \in Nat /\ s3 \in Nat /\ s4 \in Nat
      /\ w1 \in Nat /\ w2 \in Nat /\ w3 \in Nat /\ w4 \in Nat
  BY <1>1, <1>4
<1> HIDE DEF w1, w2, w3, w4
<1>6. /\ (c1 + s1) * w1 = c1 * w1 + s1 * w1 /\ (c2 + s2) * w2 = c2 * w2 + s2 * w2
       /\ (c3 + s3) * w3 = c3 * w3 + s3 * w3 /\ (c4 + s4) * w4 = c4 * w4 + s4 * w4
       /\ c1 * w1 \in Nat /\ c2 * w2 \in Nat /\ c3 * w3 \in Nat /\ c4 * w4 \in Nat
  BY <1>5
<1>7. q1 \in Nat /\ q1 + 1 = s2 * w2
  <2>1. q1 = c1 * w1 + r4 /\ c1 * w1 \in Nat
    BY <1>2, <1>6
  <2>2. s2 * w2 = c1 * w1 + s1 * w1
    BY <1>4, <1>6
  <2> QED
    BY <1>3, <2>1, <2>2
<1>8. q2 \in Nat /\ q2 + 1 = s3 * w3
  <2>1. q2 = c2 * w2 + q1 /\ c2 * w2 \in Nat
    BY <1>2, <1>6
  <2>2. s3 * w3 = c2 * w2 + s2 * w2
    BY <1>4, <1>6
  <2> QED
    BY <1>7, <2>1, <2>2
<1>9. q3 \in Nat /\ q3 + 1 = s4 * w4
  <2>1. q3 = c3 * w3 + q2 /\ c3 * w3 \in Nat
    BY <1>2, <1>6
  <2>2. s4 * w4 = c3 * w3 + s3 * w3
    BY <1>4, <1>6
  <2> QED
    BY <1>8, <2>1, <2>2
<1>10. q4 \in Nat /\ q4 + 1 = n1 * n2 * n3 * n4
  <2>1. q4 = c4 * w4 + q3 /\ c4 * w4 \in Nat
    BY <1>2, <1>6
  <2>2. n1 * n2 * n3 * n4 = c4 * w4 + s4 * w4
    BY <1>4, <1>6
  <2> QED
    BY <1>9, <2>1, <2>2
<1> QED
  BY <1>10 DEF q4, n1, n2, n3, n4

-----------------------------------------------------------------------------
\* The next element.

\* Elements of one block differ by their place in it only.
LEMMA SameBlock ==
  ASSUME NEW v \in Views, NEW x \in Elements(v), NEW y \in Elements(v), NEW d \in 1 .. Dim(v),
         y[d] \in Lo(v.min[d], x[d]) .. (Hi(v.max[d], x[d]) - 1)
  PROVE  /\ Siz(v, y)[d] = Siz(v, x)[d] /\ Pos(v, y)[d] = Pos(v, x)[d]
         /\ Loc(v, y)[d] = y[d] - Lo(v.min[d], x[d])
         /\ Lo(v.min[d], y[d]) = Lo(v.min[d], x[d]) /\ Hi(v.max[d], y[d]) = Hi(v.max[d], x[d])
<1>1. /\ v.min[d] \in Nat /\ v.max[d] \in Nat /\ x[d] \in v.min[d] .. (v.max[d] - 1)
      /\ Pos(v, x)[d] = Lo(v.min[d], x[d]) - v.min[d]
      /\ Siz(v, x)[d] = Hi(v.max[d], x[d]) - Lo(v.min[d], x[d])
  BY Along
<1>2. /\ Pos(v, y)[d] = Lo(v.min[d], y[d]) - v.min[d]
      /\ Loc(v, y)[d] = y[d] - Lo(v.min[d], y[d])
      /\ Siz(v, y)[d] = Hi(v.max[d], y[d]) - Lo(v.min[d], y[d])
  BY Along
<1>3. Lo(v.min[d], y[d]) = Lo(v.min[d], x[d]) /\ Hi(v.max[d], y[d]) = Hi(v.max[d], x[d])
  BY <1>1, BlockFacts
<1> QED
  BY <1>1, <1>2, <1>3

\* From an element to the next one of its block.
InBlock(v, x, y, i) ==
  /\ \A d \in 1 .. Dim(v) : d < i => x[d] + 1 = Hi(v.max[d], x[d]) /\ y[d] = Lo(v.min[d], x[d])
  /\ y[i] = x[i] + 1 /\ x[i] + 1 < Hi(v.max[i], x[i])
  /\ \A d \in 1 .. Dim(v) : d > i => y[d] = x[d]

\* That step adds one to the number of the element.
LEMMA InBlockRank ==
  ASSUME NEW v \in Views, NEW x \in Elements(v), NEW y \in Elements(v), NEW i \in 1 .. Dim(v),
         InBlock(v, x, y, i)
  PROVE  BlockRank(v, y) = BlockRank(v, x) + 1
<1> DEFINE s == Siz(v, x)
           l == Loc(v, x)
           k == Loc(v, y)
<1>1. /\ Dim(v) \in 1 .. 4 /\ i \in 1 .. 4 /\ i <= Dim(v)
  <2>1. Dim(v) \in 1 .. 4
    BY ViewFacts
  <2> QED
    BY <2>1
<1>2. ASSUME NEW d \in 1 .. Dim(v)
      PROVE  /\ Siz(v, y)[d] = s[d] /\ Pos(v, y)[d] = Pos(v, x)[d]
             /\ d < i => l[d] + 1 = s[d] /\ k[d] = 0
             /\ d = i => k[d] = l[d] + 1
             /\ d > i => k[d] = l[d]
  <2>1. /\ v.min[d] \in Nat /\ v.max[d] \in Nat /\ x[d] \in v.min[d] .. (v.max[d] - 1)
        /\ s[d] = Hi(v.max[d], x[d]) - Lo(v.min[d], x[d])
        /\ l[d] = x[d] - Lo(v.min[d], x[d])
    BY Along
  <2>2. /\ Lo(v.min[d], x[d]) \in Nat /\ Hi(v.max[d], x[d]) \in Nat
        /\ Lo(v.min[d], x[d]) <= x[d] /\ x[d] < Hi(v.max[d], x[d])
    BY <2>1, BlockFacts
  <2>3. /\ d < i => x[d] + 1 = Hi(v.max[d], x[d]) /\ y[d] = Lo(v.min[d], x[d])
        /\ d = i => y[d] = x[d] + 1 /\ x[d] + 1 < Hi(v.max[d], x[d])
        /\ d > i => y[d] = x[d]
    BY DEF InBlock
  <2>4. y[d] \in Lo(v.min[d], x[d]) .. (Hi(v.max[d], x[d]) - 1)
    BY <1>1, <2>1, <2>2, <2>3
  <2>5. /\ Siz(v, y)[d] = s[d] /\ Pos(v, y)[d] = Pos(v, x)[d]
        /\ k[d] = y[d] - Lo(v.min[d], x[d])
    BY <2>4, SameBlock
  <2> HIDE DEF s, l, k
  <2> QED
    BY <2>1, <2>2, <2>3, <2>5
<1>3. ASSUME NEW d \in 1 .. 4, d > Dim(v)
      PROVE  /\ Siz(v, y)[d] = s[d] /\ Pos(v, y)[d] = Pos(v, x)[d]
             /\ k[d] = l[d]
  BY <1>3, Padding
<1>4. /\ s \in [1 .. 4 -> Nat] /\ l \in [1 .. 4 -> Nat] /\ k \in [1 .. 4 -> Nat]
      /\ Pos(v, x) \in [1 .. 4 -> Nat] /\ Pos(v, y) \in [1 .. 4 -> Nat]
      /\ Siz(v, y) \in [1 .. 4 -> Nat]
  BY Shape
<1>5. Siz(v, y) = s /\ Pos(v, y) = Pos(v, x)
  <2> HIDE DEF s, l, k
  <2>1. \A d \in 1 .. 4 : Siz(v, y)[d] = s[d] /\ Pos(v, y)[d] = Pos(v, x)[d]
    BY <1>1, <1>2, <1>3
  <2> QED
    BY <1>4, <2>1
<1>6. Local4(s, k) = Local4(s, l) + 1
  <2> HIDE DEF s, l, k
  <2>1. /\ \A d \in 1 .. 4 : d < i => l[d] + 1 = s[d] /\ k[d] = 0
        /\ k[i] = l[i] + 1
        /\ \A d \in 1 .. 4 : d > i => k[d] = l[d]
    BY <1>1, <1>2, <1>3
  <2> QED
    BY <1>1, <1>4, <2>1, LocalStep
<1> DEFINE c == Pos(v, x)
           n == Ext(v)
           w == c[4] * (n[1] * n[2] * n[3])
           u == c[3] * (n[1] * n[2] * s[4])
           t == c[2] * (n[1] * s[3] * s[4])
           q == c[1] * (s[2] * s[3] * s[4])
<1>7. BlockRank(v, x) = w + (u + (t + (q + Local4(s, l))))
  BY Zenon DEF BlockRank, Sequential, Blocks3, Blocks2, Blocks1
<1>8. BlockRank(v, y) = w + (u + (t + (q + Local4(s, k))))
  <2>1. BlockRank(v, y) = Sequential(n, s, c, k)
    BY <1>5 DEF BlockRank
  <2> QED
    BY <2>1, Zenon DEF Sequential, Blocks3, Blocks2, Blocks1
<1>9. /\ w \in Nat /\ u \in Nat /\ t \in Nat /\ q \in Nat
  <2>1. n \in [1 .. 4 -> Nat]
    BY Shape
  <2> HIDE DEF c, n, s
  <2>2. /\ n[1] \in Nat /\ n[2] \in Nat /\ n[3] \in Nat /\ s[2] \in Nat /\ s[3] \in Nat /\ s[4] \in Nat
        /\ c[1] \in Nat /\ c[2] \in Nat /\ c[3] \in Nat /\ c[4] \in Nat
    BY <1>4, <2>1 DEF c
  <2> QED
    BY <2>2
<1>10. Local4(s, l) \in Nat
  <2>1. \A d \in 1 .. 4 : l[d] < s[d] /\ Pos(v, x)[d] + s[d] <= n[d]
    BY Shape
  <2>2. n \in [1 .. 4 -> Nat]
    BY Shape
  <2> HIDE DEF n, s, l
  <2> QED
    BY <1>4, <2>1, <2>2, SequentialBound
<1> HIDE DEF w, u, t, q, s, l, k
<1> QED
  BY <1>6, <1>7, <1>8, <1>9, <1>10

\* From the last element of a block to the first one of the next block.
NextBlock(v, x, y, i) ==
  /\ \A d \in 1 .. Dim(v) : x[d] + 1 = Hi(v.max[d], x[d])
  /\ \A d \in 1 .. Dim(v) : d < i => Hi(v.max[d], x[d]) = v.max[d] /\ y[d] = v.min[d]
  /\ y[i] = Hi(v.max[i], x[i])
  /\ \A d \in 1 .. Dim(v) : d > i => y[d] = Lo(v.min[d], x[d])

\* That step adds one to the number of the element.
LEMMA NextBlockRank ==
  ASSUME NEW v \in Views, NEW x \in Elements(v), NEW y \in Elements(v), NEW i \in 1 .. Dim(v),
         NextBlock(v, x, y, i)
  PROVE  BlockRank(v, y) = BlockRank(v, x) + 1
<1> DEFINE n == Ext(v)
           s == Siz(v, x)
           c == Pos(v, x)
           l == Loc(v, x)
           t == Siz(v, y)
           b == Pos(v, y)
           k == Loc(v, y)
<1>1. /\ Dim(v) \in 1 .. 4 /\ i \in 1 .. 4 /\ i <= Dim(v)
  <2>1. Dim(v) \in 1 .. 4
    BY ViewFacts
  <2> QED
    BY <2>1
<1>2. ASSUME NEW d \in 1 .. Dim(v)
      PROVE  /\ l[d] + 1 = s[d] /\ k[d] = 0
             /\ d < i => c[d] + s[d] = n[d] /\ b[d] = 0
             /\ d = i => b[d] = c[d] + s[d]
             /\ d > i => b[d] = c[d] /\ t[d] = s[d]
  <2> DEFINE m == v.min[d]
             M == v.max[d]
             X == x[d]
             Y == y[d]
  <2>1. /\ m \in Nat /\ M \in Nat /\ X \in m .. (M - 1)
        /\ n[d] = M - m
        /\ s[d] = Hi(M, X) - Lo(m, X)
        /\ l[d] = X - Lo(m, X)
        /\ c[d] = Lo(m, X) - m
    BY Along
  <2>2. /\ Y \in m .. (M - 1)
        /\ t[d] = Hi(M, Y) - Lo(m, Y)
        /\ k[d] = Y - Lo(m, Y)
        /\ b[d] = Lo(m, Y) - m
    BY Along
  <2>3. /\ X + 1 = Hi(M, X)
        /\ d < i => Hi(M, X) = M /\ Y = m
        /\ d = i => Y = Hi(M, X)
        /\ d > i => Y = Lo(m, X)
    BY DEF NextBlock
  <2> HIDE DEF n, s, c, l, t, b, k, m, M, X, Y
  <2>4. /\ Lo(m, X) \in Nat /\ Hi(M, X) \in Nat
        /\ Lo(m, X) <= X /\ X < Hi(M, X) /\ m <= Lo(m, X)
    BY <2>1, BlockFacts
  <2>5. /\ Lo(m, Y) \in Nat /\ m <= Lo(m, Y) /\ Lo(m, Y) <= Y
    BY <2>1, <2>2, BlockFacts
  <2>6. CASE d < i
    <3>1. Lo(m, Y) = m
      BY <2>1, <2>3, <2>5, <2>6
    <3> QED
      BY <1>1, <2>1, <2>2, <2>3, <2>4, <2>6, <3>1
  <2>7. CASE d = i
    <3>1. Hi(M, X) < M
      BY <2>1, <2>2, <2>3, <2>7
    <3>2. Lo(m, Y) = Y
      BY <2>1, <2>3, <2>7, <3>1, BlockEnds
    <3> QED
      BY <1>1, <2>1, <2>2, <2>3, <2>4, <2>7, <3>2
  <2>8. CASE d > i
    <3>1. Y \in Lo(m, X) .. (Hi(M, X) - 1)
      BY <2>1, <2>3, <2>4, <2>8
    <3>2. Lo(m, Y) = Lo(m, X) /\ Hi(M, Y) = Hi(M, X)
      BY <2>1, <3>1, BlockFacts
    <3> QED
      BY <1>1, <2>1, <2>2, <2>3, <2>4, <2>8, <3>2
  <2> QED
    BY <1>1, <2>6, <2>7, <2>8
<1>3. ASSUME NEW d \in 1 .. 4, d > Dim(v)
      PROVE  /\ l[d] = 0 /\ s[d] = 1 /\ k[d] = 0 /\ b[d] = 0 /\ c[d] = 0 /\ t[d] = 1
  BY <1>3, Padding
<1>4. /\ n \in [1 .. 4 -> Nat] /\ s \in [1 .. 4 -> Nat] /\ c \in [1 .. 4 -> Nat] /\ l \in [1 .. 4 -> Nat]
      /\ t \in [1 .. 4 -> Nat] /\ b \in [1 .. 4 -> Nat] /\ k \in [1 .. 4 -> Nat]
  BY Shape
<1> HIDE DEF n, s, c, l, t, b, k
<1>5. \A d \in 1 .. 4 : l[d] + 1 = s[d] /\ k[d] = 0
  BY <1>1, <1>2, <1>3
<1>6. \A d \in 1 .. 4 : d < i => c[d] + s[d] = n[d] /\ b[d] = 0
  BY <1>1, <1>2, <1>3
<1>7. b[i] = c[i] + s[i]
  BY <1>1, <1>2, <1>3
<1>8. \A d \in 1 .. 4 : d > i => b[d] = c[d] /\ t[d] = s[d]
  BY <1>1, <1>2, <1>3
<1>9. Follows(n, s, c, l, t, b, k, i)
  BY <1>1, <1>4, <1>5, <1>6, <1>7, <1>8 DEF Follows
<1>10. Sequential(n, t, b, k) = Sequential(n, s, c, l) + 1
  BY <1>9, BlockStep
<1> QED
  BY <1>10 DEF BlockRank, n, s, c, l, t, b, k

\* The last element of the last block, and the first one of the first block.
LEMMA LastRank ==
  ASSUME NEW v \in Views, NEW x \in Elements(v), \A d \in 1 .. Dim(v) : x[d] + 1 = v.max[d]
  PROVE  BlockRank(v, x) = Size(v) - 1 /\ RowRank(v, x) = Size(v) - 1
<1> DEFINE n == Ext(v)
           s == Siz(v, x)
           c == Pos(v, x)
           l == Loc(v, x)
           r == Row(v, x)
<1>1. /\ n \in [1 .. 4 -> Nat] /\ s \in [1 .. 4 -> Nat] /\ c \in [1 .. 4 -> Nat]
      /\ l \in [1 .. 4 -> Nat] /\ r \in [1 .. 4 -> Nat]
  BY Shape
<1>2. ASSUME NEW d \in 1 .. 4
      PROVE  l[d] + 1 = s[d] /\ c[d] + s[d] = n[d] /\ r[d] + 1 = n[d]
  <2>1. CASE d \in 1 .. Dim(v)
    <3>1. /\ v.min[d] \in Nat /\ v.max[d] \in Nat /\ x[d] \in v.min[d] .. (v.max[d] - 1)
          /\ n[d] = v.max[d] - v.min[d]
          /\ s[d] = Hi(v.max[d], x[d]) - Lo(v.min[d], x[d])
          /\ l[d] = x[d] - Lo(v.min[d], x[d])
          /\ c[d] = Lo(v.min[d], x[d]) - v.min[d]
          /\ r[d] = x[d] - v.min[d]
      BY <2>1, Along
    <3>2. /\ Lo(v.min[d], x[d]) \in Nat /\ Hi(v.max[d], x[d]) \in Nat
          /\ x[d] < Hi(v.max[d], x[d]) /\ Hi(v.max[d], x[d]) <= v.max[d]
      BY <3>1, BlockFacts
    <3>3. x[d] + 1 = v.max[d]
      BY <2>1
    <3> HIDE DEF n, s, c, l, r
    <3> QED
      BY <3>1, <3>2, <3>3
  <2>2. CASE d > Dim(v)
    BY <2>2, Padding
  <2>3. Dim(v) \in 1 .. 4
    BY ViewFacts
  <2> QED
    BY <2>1, <2>2, <2>3
<1>3. Size(v) = n[1] * n[2] * n[3] * n[4] /\ Size(v) \in Nat
  BY SizeIs
<1> HIDE DEF n, s, c, l, r
<1>4. Sequential(n, s, c, l) \in Nat /\ Sequential(n, s, c, l) + 1 = n[1] * n[2] * n[3] * n[4]
  BY <1>1, <1>2, SequentialLast
<1>5. Local4(n, r) \in Nat /\ Local4(n, r) + 1 = n[1] * (n[2] * n[3] * n[4])
  BY <1>1, <1>2, LocalLast
<1>6. n[1] * (n[2] * n[3] * n[4]) = n[1] * n[2] * n[3] * n[4]
  BY <1>1
<1>7. BlockRank(v, x) = Sequential(n, s, c, l) /\ RowRank(v, x) = Local4(n, r)
  BY DEF BlockRank, RowRank, n, s, c, l, r
<1> QED
  BY <1>3, <1>4, <1>5, <1>6, <1>7

\* begin() is the first element in both orders.
LEMMA FirstRank ==
  ASSUME NEW v \in Views
  PROVE  v.min \in Elements(v) /\ BlockRank(v, v.min) = 0 /\ RowRank(v, v.min) = 0
<1> DEFINE x == v.min
           n == Ext(v)
           s == Siz(v, x)
           c == Pos(v, x)
           l == Loc(v, x)
           r == Row(v, x)
<1>1. x \in Elements(v)
  <2>1. /\ v.min \in [1 .. Dim(v) -> Nat]
        /\ \A d \in 1 .. Dim(v) : v.min[d] \in Nat /\ v.max[d] \in Nat /\ v.min[d] < v.max[d]
    BY ViewFacts
  <2>2. \A d \in 1 .. Dim(v) : x[d] \in v.min[d] .. (v.max[d] - 1)
    BY <2>1
  <2> HIDE DEF x
  <2>3. x = [d \in 1 .. Dim(v) |-> x[d]]
    BY <2>1 DEF x
  <2> QED
    BY <2>2, <2>3, IsElement
<1>2. /\ n \in [1 .. 4 -> Nat] /\ s \in [1 .. 4 -> Nat] /\ c \in [1 .. 4 -> Nat]
      /\ l \in [1 .. 4 -> Nat] /\ r \in [1 .. 4 -> Nat]
  BY <1>1, Shape
<1>3. ASSUME NEW d \in 1 .. 4
      PROVE  c[d] = 0 /\ l[d] = 0 /\ r[d] = 0
  <2>1. CASE d \in 1 .. Dim(v)
    <3>1. /\ v.min[d] \in Nat /\ v.max[d] \in Nat /\ x[d] \in v.min[d] .. (v.max[d] - 1)
          /\ l[d] = x[d] - Lo(v.min[d], x[d])
          /\ c[d] = Lo(v.min[d], x[d]) - v.min[d]
          /\ r[d] = x[d] - v.min[d]
      BY <1>1, <2>1, Along
    <3>2. /\ Lo(v.min[d], x[d]) \in Nat /\ v.min[d] <= Lo(v.min[d], x[d])
          /\ Lo(v.min[d], x[d]) <= x[d]
      BY <3>1, BlockFacts
    <3> HIDE DEF c, l, r
    <3> QED
      BY <3>1, <3>2
  <2>2. CASE d > Dim(v)
    BY <1>1, <2>2, Padding
  <2>3. Dim(v) \in 1 .. 4
    BY ViewFacts
  <2> QED
    BY <2>1, <2>2, <2>3
<1>4. /\ BlockRank(v, x) = c[4] * (n[1] * n[2] * n[3]) + (c[3] * (n[1] * n[2] * s[4])
                        + (c[2] * (n[1] * s[3] * s[4]) + (c[1] * (s[2] * s[3] * s[4])
                        + (l[4] * (s[1] * s[2] * s[3]) + (l[3] * (s[1] * s[2])
                        + (l[2] * s[1] + l[1]))))))
      /\ RowRank(v, x) = r[4] * (n[1] * n[2] * n[3]) + (r[3] * (n[1] * n[2]) + (r[2] * n[1] + r[1]))
  BY Zenon DEF BlockRank, RowRank, Sequential, Blocks3, Blocks2, Blocks1, Local4, Local3, Local2
<1> HIDE DEF x, n, s, c, l, r
<1>5. \A a, b, e \in Nat : 0 * (a * b * e) = 0 /\ 0 * (a * b) = 0 /\ 0 * a = 0
  OBVIOUS
<1>6. /\ n[1] \in Nat /\ n[2] \in Nat /\ n[3] \in Nat
      /\ s[1] \in Nat /\ s[2] \in Nat /\ s[3] \in Nat /\ s[4] \in Nat
      /\ c[1] = 0 /\ c[2] = 0 /\ c[3] = 0 /\ c[4] = 0
      /\ l[1] = 0 /\ l[2] = 0 /\ l[3] = 0 /\ l[4] = 0
      /\ r[1] = 0 /\ r[2] = 0 /\ r[3] = 0 /\ r[4] = 0
  BY <1>2, <1>3
<1>7. BlockRank(v, x) = 0 /\ RowRank(v, x) = 0
  BY <1>4, <1>5, <1>6
<1> QED
  BY <1>1, <1>7 DEF x

-----------------------------------------------------------------------------
\* Increment and decrement.

\* The dimensions that carry overflow, and the one after them does not.
LEMMA CarriesFacts ==
  ASSUME NEW v \in Views, NEW over
  PROVE  /\ Carries(v, over) \in 0 .. Dim(v)
         /\ \A d \in 1 .. Dim(v) : d <= Carries(v, over) => d \in over
         /\ Carries(v, over) < Dim(v) => Carries(v, over) + 1 \notin over
<1> DEFINE P(c) == 1 .. c \subseteq over /\ (c < Dim(v) => c + 1 \notin over)
<1>1. Dim(v) \in 1 .. 4
  BY ViewFacts
<1>2. \E c \in 0 .. Dim(v) : P(c)
  <2>1. CASE 1 \notin over
    <3>1. P(0) /\ 0 \in 0 .. Dim(v)
      BY <1>1, <2>1
    <3> QED
      BY <3>1
  <2>2. CASE 1 \in over /\ (Dim(v) = 1 \/ 2 \notin over)
    <3>1. P(1) /\ 1 \in 0 .. Dim(v)
      BY <1>1, <2>2
    <3> QED
      BY <3>1
  <2>3. CASE Dim(v) # 1 /\ 1 \in over /\ 2 \in over /\ (Dim(v) = 2 \/ 3 \notin over)
    <3>1. P(2) /\ 2 \in 0 .. Dim(v)
      BY <1>1, <2>3
    <3> QED
      BY <3>1
  <2>4. CASE /\ Dim(v) # 1 /\ Dim(v) # 2 /\ 1 \in over /\ 2 \in over /\ 3 \in over
             /\ (Dim(v) = 3 \/ 4 \notin over)
    <3>1. P(3) /\ 3 \in 0 .. Dim(v)
      BY <1>1, <2>4
    <3> QED
      BY <3>1
  <2>5. CASE Dim(v) = 4 /\ 1 \in over /\ 2 \in over /\ 3 \in over /\ 4 \in over
    <3>1. P(4) /\ 4 \in 0 .. Dim(v)
      BY <1>1, <2>5
    <3> QED
      BY <3>1
  <2> QED
    BY <1>1, <2>1, <2>2, <2>3, <2>4, <2>5
<1>3. Carries(v, over) = CHOOSE c \in 0 .. Dim(v) : P(c)
  BY Zenon DEF Carries
<1>4. Carries(v, over) \in 0 .. Dim(v) /\ P(Carries(v, over))
  BY <1>2, <1>3, Zenon
<1>5. 1 .. Carries(v, over) \subseteq over
      /\ (Carries(v, over) < Dim(v) => Carries(v, over) + 1 \notin over)
  BY <1>4
<1> HIDE DEF P
<1> QED
  BY <1>1, <1>4, <1>5

\* The end of a view is not an element.
LEMMA EndFacts ==
  ASSUME NEW v \in Views
  PROVE  /\ Dim(v) \in 1 .. 4
         /\ End(v) = [d \in 1 .. Dim(v) |-> IF d = Dim(v) THEN v.max[d] ELSE v.min[d]]
         /\ \A d \in 1 .. Dim(v) : End(v)[d] = IF d = Dim(v) THEN v.max[d] ELSE v.min[d]
         /\ End(v) \notin Elements(v)
<1>1. Dim(v) \in 1 .. 4
  BY ViewFacts
<1>2. /\ v.min \in [1 .. Dim(v) -> Nat]
      /\ \A d \in 1 .. Dim(v) : v.min[d] \in Nat /\ v.max[d] \in Nat /\ v.min[d] < v.max[d]
  BY ViewFacts
<1>3. End(v) = [d \in 1 .. Dim(v) |-> IF d = Dim(v) THEN v.max[d] ELSE v.min[d]]
  BY <1>1, <1>2 DEF End
<1>4. \A d \in 1 .. Dim(v) : End(v)[d] = IF d = Dim(v) THEN v.max[d] ELSE v.min[d]
  BY <1>3
<1>5. End(v) \notin Elements(v)
  <2>1. Dim(v) \in 1 .. Dim(v) /\ End(v)[Dim(v)] = v.max[Dim(v)] /\ v.max[Dim(v)] \in Nat
    BY <1>1, <1>2, <1>4
  <2>2. ~ (v.max[Dim(v)] \in v.min[Dim(v)] .. (v.max[Dim(v)] - 1))
    BY <2>1
  <2> QED
    BY <2>1, <2>2, IsElement
<1> QED
  BY <1>1, <1>3, <1>4, <1>5

\* Incremented, an iterator moves to the next element in the order of blocks, or to the end.
LEMMA AdvanceRank ==
  ASSUME NEW v \in Views, NEW x \in Elements(v)
  PROVE  IF BlockRank(v, x) + 1 = Size(v) THEN Advance(v, x) = End(v)
         ELSE /\ Advance(v, x) \in Elements(v)
              /\ BlockRank(v, Advance(v, x)) = BlockRank(v, x) + 1
<1> DEFINE y == Advance(v, x)
           over == {d \in 1 .. Dim(v) : (x[d] + 1) % BlockSize = 0 \/ x[d] + 1 = v.max[d]}
           c == Carries(v, over)
           b == [d \in 1 .. Dim(v) |-> IF d <= c THEN BlockMin(v, d, x[d]) ELSE x[d]]
           last == {d \in 1 .. Dim(v) : Floor(b[d] + BlockSize) >= v.max[d]}
           a == Carries(v, last)
           q == [d \in 1 .. Dim(v) |-> IF d <= a THEN v.min[d]
                                       ELSE IF d = a + 1 THEN Floor(b[d] + BlockSize) ELSE b[d]]
           L(d) == Lo(v.min[d], x[d])
           H(d) == Hi(v.max[d], x[d])
<1>1. y = IF c < Dim(v) THEN [b EXCEPT ![c + 1] = @ + 1]
          ELSE IF a < Dim(v) THEN q ELSE End(v)
  BY Zenon DEF Advance
<1>2. Dim(v) \in 1 .. 4
  BY ViewFacts
<1>3. \A d \in 1 .. Dim(v) : /\ v.min[d] \in Nat /\ v.max[d] \in Nat /\ x[d] \in v.min[d] .. (v.max[d] - 1)
                             /\ BlockMin(v, d, x[d]) = L(d)
  BY Along
<1>4. \A d \in 1 .. Dim(v) :
        /\ L(d) \in Nat /\ H(d) \in Nat
        /\ v.min[d] <= L(d) /\ L(d) <= x[d] /\ x[d] < H(d) /\ H(d) <= v.max[d]
        /\ (x[d] + 1) % BlockSize = 0 \/ x[d] + 1 = v.max[d] <=> x[d] + 1 = H(d)
        /\ Floor(L(d) + BlockSize) >= v.max[d] <=> H(d) = v.max[d]
        /\ H(d) < v.max[d] => Floor(L(d) + BlockSize) = H(d)
  BY <1>3, BlockFacts, BlockEnds
<1>5. /\ c \in 0 .. Dim(v)
      /\ \A d \in 1 .. Dim(v) : d <= c => x[d] + 1 = H(d)
      /\ c < Dim(v) => x[c + 1] + 1 # H(c + 1)
  <2>1. \A d \in 1 .. Dim(v) : d \in over <=> x[d] + 1 = H(d)
    BY <1>4
  <2> HIDE DEF over, H
  <2>2. /\ c \in 0 .. Dim(v)
        /\ \A d \in 1 .. Dim(v) : d <= c => d \in over
        /\ c < Dim(v) => c + 1 \notin over
    BY CarriesFacts
  <2> HIDE DEF c
  <2> QED
    BY <1>2, <2>1, <2>2
<1>6. \A d \in 1 .. Dim(v) : b[d] = IF d <= c THEN L(d) ELSE x[d]
  BY <1>3
<1>7. Size(v) \in Nat /\ BlockRank(v, x) \in 0 .. (Size(v) - 1)
  BY SizeIs, RankBound
<1>8. CASE c < Dim(v)
  <2> DEFINE i == c + 1
  <2>1. i \in 1 .. Dim(v)
    BY <1>2, <1>5, <1>8
  <2>2. y = [b EXCEPT ![i] = @ + 1]
    BY <1>1, <1>8
  <2> HIDE DEF c, i, y
  <2>3. \A d \in 1 .. Dim(v) : y[d] = IF d < i THEN L(d) ELSE IF d = i THEN x[d] + 1 ELSE x[d]
    <3>1. \A d \in 1 .. Dim(v) : y[d] = IF d = i THEN b[d] + 1 ELSE b[d]
      BY <2>1, <2>2
    <3> HIDE DEF b, L
    <3>2. \A d \in 1 .. Dim(v) : (d <= c <=> d < i)
      BY <1>2, <1>5 DEF i
    <3> QED
      BY <1>2, <1>6, <2>1, <3>1, <3>2
  <2>4. y = [d \in 1 .. Dim(v) |-> y[d]]
    BY <2>2
  <2> HIDE DEF b, L, H
  <2>5. InBlock(v, x, y, i)
    <3>1. x[i] + 1 < H(i)
      BY <1>3, <1>4, <1>5, <1>8, <2>1 DEF i
    <3>2. \A d \in 1 .. Dim(v) : d < i => d <= c
      BY <1>5 DEF i
    <3> QED
      BY <1>2, <1>5, <2>1, <2>3, <3>1, <3>2 DEF InBlock, L, H
  <2>6. \A d \in 1 .. Dim(v) : y[d] \in v.min[d] .. (v.max[d] - 1)
    <3> TAKE d \in 1 .. Dim(v)
    <3>1. d = i => x[d] + 1 < H(d)
      BY <2>1, <2>5 DEF InBlock, H
    <3> QED
      BY <1>3, <1>4, <2>3, <3>1
  <2>7. y \in Elements(v)
    BY <2>4, <2>6, IsElement
  <2>8. BlockRank(v, y) = BlockRank(v, x) + 1
    BY <2>1, <2>5, <2>7, InBlockRank
  <2>9. BlockRank(v, y) \in 0 .. (Size(v) - 1)
    BY <2>7, RankBound
  <2> QED
    BY <1>7, <2>7, <2>8, <2>9 DEF y
<1>9. CASE ~ (c < Dim(v))
  <2>1. \A d \in 1 .. Dim(v) : d <= c /\ x[d] + 1 = H(d)
    BY <1>2, <1>5, <1>9
  <2>2. \A d \in 1 .. Dim(v) : b[d] = L(d)
    BY <1>6, <2>1
  <2>3. \A d \in 1 .. Dim(v) : d \in last <=> H(d) = v.max[d]
    BY <1>4, <2>2
  <2> HIDE DEF c, b, last, L, H
  <2>4. /\ a \in 0 .. Dim(v)
        /\ \A d \in 1 .. Dim(v) : d <= a => d \in last
        /\ a < Dim(v) => a + 1 \notin last
    BY CarriesFacts
  <2>5. CASE a < Dim(v)
    <3> DEFINE i == a + 1
    <3>1. i \in 1 .. Dim(v)
      BY <1>2, <2>4, <2>5
    <3>2. y = q
      BY <1>1, <1>9, <2>5
    <3>3. H(i) < v.max[i]
      <4>1. H(i) # v.max[i]
        BY <2>3, <2>4, <2>5, <3>1
      <4> QED
        BY <1>3, <1>4, <3>1, <4>1
    <3>4. \A d \in 1 .. Dim(v) : y[d] = IF d < i THEN v.min[d] ELSE IF d = i THEN H(d) ELSE L(d)
      <4> TAKE d \in 1 .. Dim(v)
      <4>1. y[d] = IF d <= a THEN v.min[d]
                   ELSE IF d = a + 1 THEN Floor(b[d] + BlockSize) ELSE b[d]
        BY <3>2
      <4>2. d = i => Floor(b[d] + BlockSize) = H(d)
        BY <1>4, <2>2, <3>1, <3>3
      <4> HIDE DEF y
      <4> QED
        BY <1>2, <2>2, <2>4, <4>1, <4>2
    <3>5. y = [d \in 1 .. Dim(v) |-> y[d]]
      BY <3>2
    <3> HIDE DEF i, y
    <3>6. NextBlock(v, x, y, i)
      <4>1. \A d \in 1 .. Dim(v) : d < i => H(d) = v.max[d]
        BY <1>2, <2>3, <2>4 DEF i
      <4> QED
        BY <1>2, <2>1, <3>1, <3>4, <4>1 DEF NextBlock, L, H
    <3>7. \A d \in 1 .. Dim(v) : y[d] \in v.min[d] .. (v.max[d] - 1)
      <4> TAKE d \in 1 .. Dim(v)
      <4> QED
        BY <1>3, <1>4, <3>3, <3>4
    <3>8. y \in Elements(v)
      BY <3>5, <3>7, IsElement
    <3>9. BlockRank(v, y) = BlockRank(v, x) + 1
      BY <3>1, <3>6, <3>8, NextBlockRank
    <3>10. BlockRank(v, y) \in 0 .. (Size(v) - 1)
      BY <3>8, RankBound
    <3> QED
      BY <1>7, <3>8, <3>9, <3>10 DEF y
  <2>6. CASE ~ (a < Dim(v))
    <3>1. y = End(v)
      BY <1>1, <1>9, <2>6
    <3>2. \A d \in 1 .. Dim(v) : x[d] + 1 = v.max[d]
      <4> TAKE d \in 1 .. Dim(v)
      <4>1. d <= a
        BY <1>2, <2>4, <2>6
      <4> QED
        BY <2>1, <2>3, <2>4, <4>1
    <3>3. BlockRank(v, x) = Size(v) - 1
      BY <3>2, LastRank
    <3> QED
      BY <1>7, <3>1, <3>3
  <2> QED
    BY <2>5, <2>6
<1> QED
  BY <1>8, <1>9

\* The last element of a view.
LastOf(v) == [d \in 1 .. Dim(v) |-> v.max[d] - 1]

\* It is the last one in both orders.
LEMMA LastOfFacts ==
  ASSUME NEW v \in Views
  PROVE  /\ LastOf(v) \in Elements(v)
         /\ BlockRank(v, LastOf(v)) = Size(v) - 1 /\ RowRank(v, LastOf(v)) = Size(v) - 1
<1>1. \A d \in 1 .. Dim(v) : v.min[d] \in Nat /\ v.max[d] \in Nat /\ v.min[d] < v.max[d]
  BY ViewFacts
<1>2. /\ LastOf(v) = [d \in 1 .. Dim(v) |-> LastOf(v)[d]]
      /\ \A d \in 1 .. Dim(v) : LastOf(v)[d] = v.max[d] - 1
  BY DEF LastOf
<1>3. LastOf(v) \in Elements(v)
  <2>1. \A d \in 1 .. Dim(v) : LastOf(v)[d] \in v.min[d] .. (v.max[d] - 1)
    BY <1>1, <1>2
  <2> QED
    BY <1>2, <2>1, IsElement
<1>4. \A d \in 1 .. Dim(v) : LastOf(v)[d] + 1 = v.max[d]
  BY <1>1, <1>2
<1> QED
  BY <1>3, <1>4, LastRank

\* Decremented, an iterator moves to the previous element in the order of blocks.
LEMMA RetreatRank ==
  ASSUME NEW v \in Views, NEW x \in Elements(v), BlockRank(v, x) > 0
  PROVE  /\ Retreat(v, x) \in Elements(v)
         /\ BlockRank(v, Retreat(v, x)) = BlockRank(v, x) - 1
<1> DEFINE y == Retreat(v, x)
           over == {d \in 1 .. Dim(v) : x[d] % BlockSize = 0 \/ x[d] = v.min[d]}
           c == Carries(v, over)
           e == [d \in 1 .. Dim(v) |->
                   IF d <= c THEN Fewest(Floor(x[d] + BlockSize), v.max[d]) ELSE x[d]]
           first == {d \in 1 .. Dim(v) : Floor(e[d] - 1) <= v.min[d]}
           a == IF c < Dim(v) THEN 0 ELSE Carries(v, first)
           f == [d \in 1 .. Dim(v) |->
                   IF d <= a THEN v.max[d]
                   ELSE IF c = Dim(v) /\ d = a + 1 THEN Floor(e[d] - 1) ELSE e[d]]
           g == [d \in 1 .. Dim(v) |-> IF d <= c + 1 THEN f[d] - 1 ELSE f[d]]
           L(d) == Lo(v.min[d], x[d])
           H(d) == Hi(v.max[d], x[d])
<1>1. y = IF x[Dim(v)] = v.max[Dim(v)] THEN [d \in 1 .. Dim(v) |-> v.max[d] - 1] ELSE g
  BY Zenon DEF Retreat
<1>2. Dim(v) \in 1 .. 4
  BY ViewFacts
<1>3. \A d \in 1 .. Dim(v) : v.min[d] \in Nat /\ v.max[d] \in Nat /\ x[d] \in v.min[d] .. (v.max[d] - 1)
  BY Along
<1>4. \A d \in 1 .. Dim(v) :
        /\ L(d) \in Nat /\ H(d) \in Nat
        /\ v.min[d] <= L(d) /\ L(d) <= x[d] /\ x[d] < H(d) /\ H(d) <= v.max[d]
        /\ x[d] % BlockSize = 0 \/ x[d] = v.min[d] <=> x[d] = L(d)
        /\ Floor(H(d) - 1) <= v.min[d] <=> L(d) = v.min[d]
        /\ L(d) > v.min[d] => Floor(H(d) - 1) = L(d) /\ Hi(v.max[d], L(d) - 1) = L(d)
        /\ \A z \in L(d) .. (H(d) - 1) : Lo(v.min[d], z) = L(d) /\ Hi(v.max[d], z) = H(d)
  <2> TAKE d \in 1 .. Dim(v)
  <2>1. v.min[d] \in Nat /\ v.max[d] \in Nat /\ x[d] \in v.min[d] .. (v.max[d] - 1)
    BY <1>3
  <2>2. /\ L(d) \in Nat /\ H(d) \in Nat
        /\ v.min[d] <= L(d) /\ L(d) <= x[d] /\ x[d] < H(d) /\ H(d) <= v.max[d]
        /\ \A z \in L(d) .. (H(d) - 1) : Lo(v.min[d], z) = L(d) /\ Hi(v.max[d], z) = H(d)
    BY <2>1, BlockFacts
  <2>3. /\ x[d] % BlockSize = 0 \/ x[d] = v.min[d] <=> x[d] = L(d)
        /\ Floor(H(d) - 1) <= v.min[d] <=> L(d) = v.min[d]
        /\ L(d) > v.min[d] => Floor(H(d) - 1) = L(d) /\ Hi(v.max[d], L(d) - 1) = L(d)
    <3> DEFINE m == v.min[d]
               M == v.max[d]
               z == x[d]
    <3>1. m \in Nat /\ M \in Nat /\ z \in m .. (M - 1)
      BY <2>1
    <3> HIDE DEF m, M, z
    <3>2. /\ z % BlockSize = 0 \/ z = m <=> z = Lo(m, z)
          /\ Floor(Hi(M, z) - 1) <= m <=> Lo(m, z) = m
          /\ Lo(m, z) > m => Floor(Hi(M, z) - 1) = Lo(m, z) /\ Hi(M, Lo(m, z) - 1) = Lo(m, z)
      BY <3>1, BlockBegins
    <3> QED
      BY <3>2, Zenon DEF m, M, z
  <2> QED
    BY <2>2, <2>3
<1>5. y = g
  <2>1. Dim(v) \in 1 .. Dim(v)
    BY <1>2
  <2>2. x[Dim(v)] # v.max[Dim(v)]
    BY <1>3, <2>1
  <2> QED
    BY <1>1, <2>2
<1>6. /\ c \in 0 .. Dim(v)
      /\ \A d \in 1 .. Dim(v) : d <= c => x[d] = L(d)
      /\ c < Dim(v) => x[c + 1] # L(c + 1)
  <2>1. \A d \in 1 .. Dim(v) : d \in over <=> x[d] = L(d)
    BY <1>4
  <2> HIDE DEF over, L
  <2>2. /\ c \in 0 .. Dim(v)
        /\ \A d \in 1 .. Dim(v) : d <= c => d \in over
        /\ c < Dim(v) => c + 1 \notin over
    BY CarriesFacts
  <2> HIDE DEF c
  <2> QED
    BY <1>2, <2>1, <2>2
<1>7. \A d \in 1 .. Dim(v) : e[d] = IF d <= c THEN H(d) ELSE x[d]
  <2> HIDE DEF c
  <2> QED
    BY DEF Hi
<1>8. Size(v) \in Nat /\ BlockRank(v, x) \in 0 .. (Size(v) - 1)
  BY SizeIs, RankBound
<1>9. y = [d \in 1 .. Dim(v) |-> y[d]]
  <2> HIDE DEF c, f, y
  <2> QED
    BY <1>5
<1>10. CASE c < Dim(v)
  <2> DEFINE i == c + 1
  <2>1. i \in 1 .. Dim(v)
    BY <1>2, <1>6, <1>10
  <2>2. \A d \in 1 .. Dim(v) : f[d] = e[d]
    BY <1>2, <1>10
  <2>3. \A d \in 1 .. Dim(v) : y[d] = IF d <= i THEN e[d] - 1 ELSE e[d]
    BY <1>5, <2>2
  <2>4. \A d \in 1 .. Dim(v) : (d <= c <=> d < i)
    BY <1>2, <1>6
  <2> HIDE DEF c, i, y, e, L, H
  <2>5. \A d \in 1 .. Dim(v) : y[d] = IF d < i THEN H(d) - 1 ELSE IF d = i THEN x[d] - 1 ELSE x[d]
    BY <1>2, <1>7, <2>1, <2>3, <2>4
  <2>6. L(i) < x[i]
    <3>1. L(i) # x[i]
      BY <1>6, <1>10 DEF i
    <3> QED
      BY <1>3, <1>4, <2>1, <3>1
  <2>7. \A d \in 1 .. Dim(v) : y[d] \in L(d) .. (H(d) - 1)
    BY <1>3, <1>4, <2>5, <2>6
  <2>8. \A d \in 1 .. Dim(v) : Lo(v.min[d], y[d]) = L(d) /\ Hi(v.max[d], y[d]) = H(d)
    BY <1>4, <2>7
  <2>9. InBlock(v, y, x, i)
    <3>1. \A d \in 1 .. Dim(v) : d < i => y[d] + 1 = Hi(v.max[d], y[d]) /\ x[d] = Lo(v.min[d], y[d])
      BY <1>4, <1>6, <2>4, <2>5, <2>8
    <3>2. x[i] = y[i] + 1 /\ y[i] + 1 < Hi(v.max[i], y[i])
      <4>1. y[i] = x[i] - 1 /\ Hi(v.max[i], y[i]) = H(i) /\ x[i] < H(i) /\ x[i] \in Nat
        BY <1>3, <1>4, <2>1, <2>5, <2>8
      <4> QED
        BY <4>1
    <3>3. \A d \in 1 .. Dim(v) : d > i => x[d] = y[d]
      BY <2>1, <2>5
    <3> QED
      BY <3>1, <3>2, <3>3 DEF InBlock
  <2>10. y \in Elements(v)
    <3>1. \A d \in 1 .. Dim(v) : y[d] \in v.min[d] .. (v.max[d] - 1)
      BY <1>3, <1>4, <2>7
    <3> QED
      BY <1>9, <3>1, IsElement
  <2>11. BlockRank(v, x) = BlockRank(v, y) + 1
    BY <2>1, <2>9, <2>10, InBlockRank
  <2>12. BlockRank(v, y) \in 0 .. (Size(v) - 1)
    BY <2>10, RankBound
  <2> QED
    BY <1>8, <2>10, <2>11, <2>12 DEF y
<1>11. CASE ~ (c < Dim(v))
  <2>1. c = Dim(v) /\ \A d \in 1 .. Dim(v) : d <= c /\ x[d] = L(d)
    <3> HIDE DEF c, L
    <3> QED
      BY <1>2, <1>6, <1>11
  <2>2. \A d \in 1 .. Dim(v) : e[d] = H(d)
    BY <1>7, <2>1
  <2>3. \A d \in 1 .. Dim(v) : d \in first <=> L(d) = v.min[d]
    BY <1>4, <2>2
  <2>4. a = Carries(v, first)
    BY <1>11, Zenon
  <2>5. \A d \in 1 .. Dim(v) : y[d] = f[d] - 1
    <3> HIDE DEF f, c
    <3>1. \A d \in 1 .. Dim(v) : g[d] = IF d <= c + 1 THEN f[d] - 1 ELSE f[d]
      OBVIOUS
    <3>2. \A d \in 1 .. Dim(v) : d <= c + 1
      BY <1>2, <2>1
    <3> HIDE DEF g
    <3> QED
      BY <1>5, <3>1, <3>2
  <2>6. \A d \in 1 .. Dim(v) : y[d] = IF d <= a THEN v.max[d] - 1
                                      ELSE IF d = a + 1 THEN Floor(H(d) - 1) - 1 ELSE H(d) - 1
    BY <2>1, <2>2, <2>5
  <2> HIDE DEF a, first, y, e, c, L, H
  <2>7. /\ a \in 0 .. Dim(v)
        /\ \A d \in 1 .. Dim(v) : d <= a => d \in first
        /\ a < Dim(v) => a + 1 \notin first
    BY <2>4, CarriesFacts
  <2>8. CASE a < Dim(v)
    <3> DEFINE i == a + 1
    <3>1. i \in 1 .. Dim(v)
      BY <1>2, <2>7, <2>8
    <3>2. L(i) > v.min[i]
      <4>1. L(i) # v.min[i]
        BY <2>3, <2>7, <2>8, <3>1
      <4> QED
        BY <1>3, <1>4, <3>1, <4>1
    <3>3. \A d \in 1 .. Dim(v) : (d <= a <=> d < i)
      BY <1>2, <2>7
    <3> HIDE DEF i
    <3>4. \A d \in 1 .. Dim(v) : y[d] = IF d < i THEN v.max[d] - 1
                                        ELSE IF d = i THEN L(d) - 1 ELSE H(d) - 1
      <4> TAKE d \in 1 .. Dim(v)
      <4>1. d = i => Floor(H(d) - 1) = L(d)
        BY <1>4, <3>1, <3>2
      <4>2. d = i <=> d = a + 1
        BY DEF i
      <4> QED
        BY <2>6, <3>3, <4>1, <4>2
    <3>5. \A d \in 1 .. Dim(v) : y[d] \in v.min[d] .. (v.max[d] - 1)
      BY <1>3, <1>4, <3>2, <3>4
    <3>6. y \in Elements(v)
      BY <1>9, <3>5, IsElement
    <3>7. \A d \in 1 .. Dim(v) : d < i => /\ Hi(v.max[d], y[d]) = v.max[d]
                                          /\ y[d] + 1 = v.max[d]
                                          /\ x[d] = v.min[d]
      <4> TAKE d \in 1 .. Dim(v)
      <4> HAVE d < i
      <4>1. y[d] = v.max[d] - 1 /\ x[d] = v.min[d]
        BY <2>1, <2>3, <2>7, <3>3, <3>4
      <4>2. /\ y[d] < Hi(v.max[d], y[d]) /\ Hi(v.max[d], y[d]) <= v.max[d]
            /\ Hi(v.max[d], y[d]) \in Nat
        BY <1>3, <3>5, BlockFacts
      <4> QED
        BY <1>3, <4>1, <4>2
    <3>8. y[i] + 1 = Hi(v.max[i], y[i]) /\ x[i] = Hi(v.max[i], y[i])
      <4>1. y[i] = L(i) - 1 /\ Hi(v.max[i], L(i) - 1) = L(i) /\ x[i] = L(i) /\ L(i) \in Nat
        BY <1>4, <2>1, <3>1, <3>2, <3>4
      <4> QED
        BY <4>1
    <3>9. \A d \in 1 .. Dim(v) : d > i => y[d] + 1 = Hi(v.max[d], y[d]) /\ x[d] = Lo(v.min[d], y[d])
      <4> TAKE d \in 1 .. Dim(v)
      <4> HAVE d > i
      <4>1. y[d] = H(d) - 1 /\ L(d) <= x[d] /\ x[d] < H(d) /\ x[d] = L(d) /\ H(d) \in Nat /\ L(d) \in Nat
        BY <1>4, <2>1, <3>1, <3>4
      <4>2. y[d] \in L(d) .. (H(d) - 1)
        BY <4>1
      <4>3. Lo(v.min[d], y[d]) = L(d) /\ Hi(v.max[d], y[d]) = H(d)
        BY <1>4, <4>2
      <4> QED
        BY <4>1, <4>3
    <3>10. NextBlock(v, y, x, i)
      <4>1. \A d \in 1 .. Dim(v) : y[d] + 1 = Hi(v.max[d], y[d])
        BY <3>1, <3>7, <3>8, <3>9
      <4> QED
        BY <3>7, <3>8, <3>9, <4>1 DEF NextBlock
    <3>11. BlockRank(v, x) = BlockRank(v, y) + 1
      BY <3>1, <3>6, <3>10, NextBlockRank
    <3>12. BlockRank(v, y) \in 0 .. (Size(v) - 1)
      BY <3>6, RankBound
    <3> QED
      BY <1>8, <3>6, <3>11, <3>12 DEF y
  <2>9. CASE ~ (a < Dim(v))
    <3>1. \A d \in 1 .. Dim(v) : x[d] = v.min[d]
      <4> TAKE d \in 1 .. Dim(v)
      <4>1. d <= a
        BY <1>2, <2>7, <2>9
      <4> QED
        BY <2>1, <2>3, <2>7, <4>1
    <3>2. x = v.min
      <4>1. x = [d \in 1 .. Dim(v) |-> x[d]]
        BY IsElement
      <4>2. v.min = [d \in 1 .. Dim(v) |-> v.min[d]]
        BY ViewFacts
      <4> QED
        BY <3>1, <4>1, <4>2
    <3> QED
      BY <1>8, <3>2, FirstRank
  <2> QED
    BY <2>8, <2>9
<1> QED
  BY <1>10, <1>11

\* From the end it moves to the last element.
LEMMA RetreatEnd ==
  ASSUME NEW v \in Views
  PROVE  Retreat(v, End(v)) = LastOf(v)
<1>1. Dim(v) \in 1 .. Dim(v) /\ End(v)[Dim(v)] = v.max[Dim(v)]
  BY EndFacts
<1> QED
  BY <1>1, Zenon DEF Retreat, LastOf

\* From an element to the next one, row by row.
NextInRow(v, x, y, i) ==
  /\ \A d \in 1 .. Dim(v) : d < i => x[d] + 1 = v.max[d] /\ y[d] = v.min[d]
  /\ y[i] = x[i] + 1
  /\ \A d \in 1 .. Dim(v) : d > i => y[d] = x[d]

\* That step adds one to the number of the element.
LEMMA NextInRowRank ==
  ASSUME NEW v \in Views, NEW x \in Elements(v), NEW y \in Elements(v), NEW i \in 1 .. Dim(v),
         NextInRow(v, x, y, i)
  PROVE  RowRank(v, y) = RowRank(v, x) + 1
<1> DEFINE n == Ext(v)
           l == Row(v, x)
           k == Row(v, y)
<1>1. /\ Dim(v) \in 1 .. 4 /\ i \in 1 .. 4 /\ i <= Dim(v)
  <2>1. Dim(v) \in 1 .. 4
    BY ViewFacts
  <2> QED
    BY <2>1
<1>2. ASSUME NEW d \in 1 .. Dim(v)
      PROVE  /\ d < i => l[d] + 1 = n[d] /\ k[d] = 0
             /\ d = i => k[d] = l[d] + 1
             /\ d > i => k[d] = l[d]
  <2>1. /\ v.min[d] \in Nat /\ v.max[d] \in Nat /\ x[d] \in v.min[d] .. (v.max[d] - 1)
        /\ n[d] = v.max[d] - v.min[d] /\ l[d] = x[d] - v.min[d]
    BY Along
  <2>2. k[d] = y[d] - v.min[d]
    BY Along
  <2>3. /\ d < i => x[d] + 1 = v.max[d] /\ y[d] = v.min[d]
        /\ d = i => y[d] = x[d] + 1
        /\ d > i => y[d] = x[d]
    BY DEF NextInRow
  <2> HIDE DEF n, l, k
  <2> QED
    BY <2>1, <2>2, <2>3
<1>3. ASSUME NEW d \in 1 .. 4, d > Dim(v)
      PROVE  k[d] = l[d]
  BY <1>3, Padding
<1>4. n \in [1 .. 4 -> Nat] /\ l \in [1 .. 4 -> Nat] /\ k \in [1 .. 4 -> Nat]
  BY Shape
<1> HIDE DEF n, l, k
<1>5. /\ \A d \in 1 .. 4 : d < i => l[d] + 1 = n[d] /\ k[d] = 0
      /\ k[i] = l[i] + 1
      /\ \A d \in 1 .. 4 : d > i => k[d] = l[d]
  BY <1>1, <1>2, <1>3
<1>6. Local4(n, k) = Local4(n, l) + 1
  BY <1>1, <1>4, <1>5, LocalStep
<1> QED
  BY <1>6 DEF RowRank, n, l, k

\* Incremented, a pointer moves to the next element in row-major order, or to the end.
LEMMA RowAdvanceRank ==
  ASSUME NEW v \in Views, NEW x \in Elements(v)
  PROVE  IF RowRank(v, x) + 1 = Size(v) THEN RowAdvance(v, x) = End(v)
         ELSE /\ RowAdvance(v, x) \in Elements(v)
              /\ RowRank(v, RowAdvance(v, x)) = RowRank(v, x) + 1
<1> DEFINE y == RowAdvance(v, x)
           over == {d \in 1 .. Dim(v) : d < Dim(v) /\ x[d] + 1 = v.max[d]}
           c == Carries(v, over)
           i == c + 1
<1>1. y = [d \in 1 .. Dim(v) |->
             IF d <= c THEN v.min[d] ELSE IF d = c + 1 THEN x[d] + 1 ELSE x[d]]
  BY Zenon DEF RowAdvance
<1>2. Dim(v) \in 1 .. 4
  BY ViewFacts
<1>3. \A d \in 1 .. Dim(v) : /\ v.min[d] \in Nat /\ v.max[d] \in Nat /\ v.min[d] < v.max[d]
                             /\ x[d] \in v.min[d] .. (v.max[d] - 1)
  BY Along, ViewFacts
<1>4. /\ c \in 0 .. Dim(v)
      /\ \A d \in 1 .. Dim(v) : d <= c => d \in over
      /\ c < Dim(v) => c + 1 \notin over
  <2> HIDE DEF over
  <2> QED
    BY CarriesFacts
<1>5. \A d \in 1 .. Dim(v) : d \in over <=> d < Dim(v) /\ x[d] + 1 = v.max[d]
  OBVIOUS
<1>6. Size(v) \in Nat /\ RowRank(v, x) \in 0 .. (Size(v) - 1)
  BY SizeIs, RankBound
<1>7. y = [d \in 1 .. Dim(v) |-> y[d]]
  BY <1>1
<1>8. \A d \in 1 .. Dim(v) : y[d] = IF d <= c THEN v.min[d] ELSE IF d = c + 1 THEN x[d] + 1 ELSE x[d]
  BY <1>1
<1> HIDE DEF y, c, over
<1>9. i \in 1 .. Dim(v) /\ \A d \in 1 .. Dim(v) : (d <= c <=> d < i)
  <2>1. c # Dim(v)
    <3>1. Dim(v) \in 1 .. Dim(v)
      BY <1>2
    <3> QED
      BY <1>2, <1>4, <1>5, <3>1
  <2> QED
    BY <1>2, <1>4, <2>1
<1>10. /\ \A d \in 1 .. Dim(v) : d < i => d < Dim(v) /\ x[d] + 1 = v.max[d]
       /\ ~ (i < Dim(v) /\ x[i] + 1 = v.max[i])
  <2>1. i \notin over
    BY <1>2, <1>4, <1>9
  <2> QED
    BY <1>4, <1>5, <1>9, <2>1
<1>11. \A d \in 1 .. Dim(v) : y[d] = IF d < i THEN v.min[d] ELSE IF d = i THEN x[d] + 1 ELSE x[d]
  BY <1>8, <1>9
<1> HIDE DEF i
<1>12. CASE x[i] + 1 = v.max[i]
  <2>1. i = Dim(v)
    BY <1>2, <1>9, <1>10, <1>12
  <2>2. \A d \in 1 .. Dim(v) : x[d] + 1 = v.max[d]
    BY <1>2, <1>10, <1>12, <2>1
  <2>3. RowRank(v, x) = Size(v) - 1
    BY <2>2, LastRank
  <2>4. y = End(v)
    <3>1. \A d \in 1 .. Dim(v) : y[d] = IF d = Dim(v) THEN v.max[d] ELSE v.min[d]
      BY <1>2, <1>11, <1>12, <2>1
    <3>2. End(v) = [d \in 1 .. Dim(v) |-> IF d = Dim(v) THEN v.max[d] ELSE v.min[d]]
      BY EndFacts
    <3> QED
      BY <1>7, <3>1, <3>2
  <2> QED
    BY <1>6, <2>3, <2>4 DEF y
<1>13. CASE x[i] + 1 # v.max[i]
  <2>1. \A d \in 1 .. Dim(v) : y[d] \in v.min[d] .. (v.max[d] - 1)
    BY <1>3, <1>9, <1>11, <1>13
  <2>2. y \in Elements(v)
    BY <1>7, <2>1, IsElement
  <2>3. NextInRow(v, x, y, i)
    BY <1>2, <1>9, <1>10, <1>11 DEF NextInRow
  <2>4. RowRank(v, y) = RowRank(v, x) + 1
    BY <1>9, <2>2, <2>3, NextInRowRank
  <2>5. RowRank(v, y) \in 0 .. (Size(v) - 1)
    BY <2>2, RankBound
  <2> QED
    BY <1>6, <2>2, <2>4, <2>5 DEF y
<1> QED
  BY <1>12, <1>13

\* Decremented, it moves to the previous element; from the end, to the last one.
LEMMA RowRetreatRank ==
  ASSUME NEW v \in Views, NEW x \in Elements(v), RowRank(v, x) > 0
  PROVE  /\ RowRetreat(v, x) \in Elements(v)
         /\ RowRank(v, RowRetreat(v, x)) = RowRank(v, x) - 1
<1> DEFINE y == RowRetreat(v, x)
           over == {d \in 1 .. Dim(v) : d < Dim(v) /\ x[d] = v.min[d]}
           c == Carries(v, over)
           i == c + 1
<1>1. y = [d \in 1 .. Dim(v) |-> IF d <= c THEN x[d] - 1 + (v.max[d] - v.min[d])
                                 ELSE IF d = c + 1 THEN x[d] - 1 ELSE x[d]]
  BY Zenon DEF RowRetreat
<1>2. Dim(v) \in 1 .. 4
  BY ViewFacts
<1>3. \A d \in 1 .. Dim(v) : /\ v.min[d] \in Nat /\ v.max[d] \in Nat /\ v.min[d] < v.max[d]
                             /\ x[d] \in v.min[d] .. (v.max[d] - 1)
  BY Along, ViewFacts
<1>4. /\ c \in 0 .. Dim(v)
      /\ \A d \in 1 .. Dim(v) : d <= c => d \in over
      /\ c < Dim(v) => c + 1 \notin over
  <2> HIDE DEF over
  <2> QED
    BY CarriesFacts
<1>5. \A d \in 1 .. Dim(v) : d \in over <=> d < Dim(v) /\ x[d] = v.min[d]
  OBVIOUS
<1>6. Size(v) \in Nat /\ RowRank(v, x) \in 0 .. (Size(v) - 1)
  BY SizeIs, RankBound
<1>7. y = [d \in 1 .. Dim(v) |-> y[d]]
  BY <1>1
<1>8. \A d \in 1 .. Dim(v) : y[d] = IF d <= c THEN x[d] - 1 + (v.max[d] - v.min[d])
                                    ELSE IF d = c + 1 THEN x[d] - 1 ELSE x[d]
  BY <1>1
<1> HIDE DEF y, c, over
<1>9. i \in 1 .. Dim(v) /\ \A d \in 1 .. Dim(v) : (d <= c <=> d < i)
  <2>1. c # Dim(v)
    <3>1. Dim(v) \in 1 .. Dim(v)
      BY <1>2
    <3> QED
      BY <1>2, <1>4, <1>5, <3>1
  <2> QED
    BY <1>2, <1>4, <2>1
<1>10. /\ \A d \in 1 .. Dim(v) : d < i => d < Dim(v) /\ x[d] = v.min[d]
       /\ ~ (i < Dim(v) /\ x[i] = v.min[i])
  <2>1. i \notin over
    BY <1>2, <1>4, <1>9
  <2> QED
    BY <1>4, <1>5, <1>9, <2>1
<1>11. \A d \in 1 .. Dim(v) : y[d] = IF d < i THEN v.max[d] - 1 ELSE IF d = i THEN x[d] - 1 ELSE x[d]
  <2> TAKE d \in 1 .. Dim(v)
  <2>1. d < i => x[d] - 1 + (v.max[d] - v.min[d]) = v.max[d] - 1
    BY <1>3, <1>10
  <2>2. d = c + 1 <=> d = i
    OBVIOUS
  <2> QED
    BY <1>8, <1>9, <2>1, <2>2
<1> HIDE DEF i
<1>12. x[i] # v.min[i]
  <2> SUFFICES ASSUME x[i] = v.min[i] PROVE FALSE
    OBVIOUS
  <2>1. i = Dim(v)
    BY <1>2, <1>9, <1>10
  <2>2. \A d \in 1 .. Dim(v) : x[d] = v.min[d]
    BY <1>2, <1>10, <2>1
  <2>3. x = v.min
    <3>1. x = [d \in 1 .. Dim(v) |-> x[d]]
      BY IsElement
    <3>2. v.min = [d \in 1 .. Dim(v) |-> v.min[d]]
      BY ViewFacts
    <3> QED
      BY <2>2, <3>1, <3>2
  <2> QED
    BY <1>6, <2>3, FirstRank
<1>13. \A d \in 1 .. Dim(v) : y[d] \in v.min[d] .. (v.max[d] - 1)
  BY <1>3, <1>9, <1>11, <1>12
<1>14. y \in Elements(v)
  BY <1>7, <1>13, IsElement
<1>15. NextInRow(v, y, x, i)
  <2>1. \A d \in 1 .. Dim(v) : d < i => y[d] + 1 = v.max[d] /\ x[d] = v.min[d]
    BY <1>3, <1>10, <1>11
  <2>2. x[i] = y[i] + 1
    BY <1>3, <1>9, <1>11
  <2>3. \A d \in 1 .. Dim(v) : d > i => x[d] = y[d]
    BY <1>9, <1>11
  <2> QED
    BY <2>1, <2>2, <2>3 DEF NextInRow
<1>16. RowRank(v, x) = RowRank(v, y) + 1
  BY <1>9, <1>14, <1>15, NextInRowRank
<1>17. RowRank(v, y) \in 0 .. (Size(v) - 1)
  BY <1>14, RankBound
<1> QED
  BY <1>6, <1>14, <1>16, <1>17 DEF y

\* Of a pointer as well, -- steps from end() to the last element.
LEMMA RowRetreatEnd ==
  ASSUME NEW v \in Views
  PROVE  RowRetreat(v, End(v)) = LastOf(v)
<1> DEFINE x == End(v)
           over == {d \in 1 .. Dim(v) : d < Dim(v) /\ x[d] = v.min[d]}
           c == Carries(v, over)
           y == RowRetreat(v, x)
<1>1. y = [d \in 1 .. Dim(v) |-> IF d <= c THEN x[d] - 1 + (v.max[d] - v.min[d])
                                 ELSE IF d = c + 1 THEN x[d] - 1 ELSE x[d]]
  BY Zenon DEF RowRetreat
<1>2. /\ Dim(v) \in 1 .. 4
      /\ \A d \in 1 .. Dim(v) : x[d] = IF d = Dim(v) THEN v.max[d] ELSE v.min[d]
  BY EndFacts
<1>3. \A d \in 1 .. Dim(v) : v.min[d] \in Nat /\ v.max[d] \in Nat /\ v.min[d] < v.max[d]
  BY ViewFacts
<1>4. /\ c \in 0 .. Dim(v)
      /\ \A d \in 1 .. Dim(v) : d <= c => d \in over
      /\ c < Dim(v) => c + 1 \notin over
  <2> HIDE DEF over
  <2> QED
    BY CarriesFacts
<1>5. \A d \in 1 .. Dim(v) : d \in over <=> d < Dim(v) /\ x[d] = v.min[d]
  OBVIOUS
<1> HIDE DEF x, over, c
<1>6. \A d \in 1 .. Dim(v) : d \in over <=> d # Dim(v)
  BY <1>2, <1>5
<1>7. c + 1 = Dim(v)
  <2>1. Dim(v) \in 1 .. Dim(v)
    BY <1>2
  <2>2. c # Dim(v)
    BY <1>4, <1>6, <2>1
  <2>3. c + 1 \in 1 .. Dim(v) /\ c + 1 \notin over
    BY <1>2, <1>4, <2>2
  <2> QED
    BY <1>6, <2>3
<1>8. \A d \in 1 .. Dim(v) : y[d] = v.max[d] - 1
  <2> TAKE d \in 1 .. Dim(v)
  <2>1. y[d] = IF d <= c THEN x[d] - 1 + (v.max[d] - v.min[d])
               ELSE IF d = c + 1 THEN x[d] - 1 ELSE x[d]
    BY <1>1
  <2> HIDE DEF y
  <2>2. CASE d = Dim(v)
    BY <1>2, <1>3, <1>4, <1>7, <2>1, <2>2
  <2>3. CASE d # Dim(v)
    <3>1. d <= c /\ x[d] = v.min[d]
      BY <1>2, <1>4, <1>7, <2>3
    <3> QED
      BY <1>3, <2>1, <3>1
  <2> QED
    BY <2>2, <2>3
<1>9. y = [d \in 1 .. Dim(v) |-> y[d]]
  BY <1>1
<1> HIDE DEF y
<1>10. y = LastOf(v)
  BY <1>8, <1>9 DEF LastOf
<1> QED
  BY <1>10 DEF x, y

-----------------------------------------------------------------------------
\* The element at an offset.

\* A number below a product is the sum of its digits.
LEMMA Digits2 ==
  \A p \in Nat, a, b \in Nat \ {0} : p < a * b =>
    /\ p % a \in 0 .. (a - 1) /\ p \div a \in 0 .. (b - 1)
    /\ p = (p \div a) * a + (p % a)
<1> SUFFICES ASSUME NEW p \in Nat, NEW a \in Nat \ {0}, NEW b \in Nat \ {0},
                    p < a * b
             PROVE  /\ p % a \in 0 .. (a - 1) /\ p \div a \in 0 .. (b - 1)
                    /\ p = (p \div a) * a + (p % a)
  OBVIOUS
<1>1. p \div a \in Nat /\ p % a \in 0 .. (a - 1) /\ p = a * (p \div a) + (p % a)
  BY DivMod
<1>2. p \div a < b
  BY DivLess
<1> DEFINE q == p \div a
           r == p % a
<1> HIDE DEF q, r
<1>3. q \in Nat /\ r \in 0 .. (a - 1) /\ p = a * q + r /\ q < b
  BY <1>1, <1>2 DEF q, r
<1>4. r \in 0 .. (a - 1) /\ q \in 0 .. (b - 1) /\ p = q * a + r
  BY <1>3
<1> QED
  BY <1>4 DEF q, r

\* The three digits of a number, the last one being what is left.
LEMMA Digits3 ==
  \A p \in Nat, a, b, c \in Nat \ {0} : p < a * b * c =>
    /\ p % a \in 0 .. (a - 1) /\ (p \div a) % b \in 0 .. (b - 1)
    /\ p \div (a * b) \in 0 .. (c - 1)
    /\ p = (p \div (a * b)) * (a * b) + (((p \div a) % b) * a + (p % a))
<1> SUFFICES ASSUME NEW p \in Nat, NEW a \in Nat \ {0}, NEW b \in Nat \ {0}, NEW c \in Nat \ {0},
                    p < a * b * c
             PROVE  /\ p % a \in 0 .. (a - 1) /\ (p \div a) % b \in 0 .. (b - 1)
                    /\ p \div (a * b) \in 0 .. (c - 1)
                    /\ p = (p \div (a * b)) * (a * b) + (((p \div a) % b) * a + (p % a))
  OBVIOUS
<1> DEFINE q == p \div a
           r == p % a
           t == q \div b
           s == q % b
<1>1. b * c \in Nat \ {0} /\ a * (b * c) = a * b * c
  BY ProductType
<1>2. q \in 0 .. (b * c - 1) /\ r \in 0 .. (a - 1) /\ p = q * a + r
  BY <1>1, Digits2
<1>3. t = p \div (a * b)
  BY DivDiv
<1> HIDE DEF q, r
<1>4. s \in 0 .. (b - 1) /\ t \in 0 .. (c - 1) /\ q = t * b + s
  <2>1. q \in Nat /\ q < b * c
    BY <1>1, <1>2
  <2> QED
    BY <2>1, Digits2
<1> HIDE DEF s, t
<1>5. p = t * (a * b) + (s * a + r)
  <2>1. (t * b + s) * a = t * (a * b) + s * a
    BY <1>4
  <2>2. t * (a * b) \in Nat /\ s * a \in Nat
    BY <1>4
  <2> QED
    BY <1>2, <1>4, <2>1, <2>2
<1>6. /\ p % a = r /\ (p \div a) % b = s /\ p \div (a * b) = t
  BY <1>3 DEF q, r, s
<1> QED
  BY <1>2, <1>4, <1>5, <1>6

\* The four digits of a number.
DigitsOf(p, a, b, c, e) ==
  /\ p % a \in 0 .. (a - 1) /\ (p \div a) % b \in 0 .. (b - 1)
  /\ (p \div (a * b)) % c \in 0 .. (c - 1)
  /\ p \div (a * b * c) \in 0 .. (e - 1)
  /\ p = (p \div (a * b * c)) * (a * b * c)
         + (((p \div (a * b)) % c) * (a * b) + (((p \div a) % b) * a + (p % a)))

\* Every number below the product of the radices has these digits.
LEMMA Digits4 ==
  ASSUME NEW p \in Nat, NEW a \in Nat \ {0}, NEW b \in Nat \ {0}, NEW c \in Nat \ {0},
         NEW e \in Nat \ {0}, p < a * b * c * e
  PROVE  DigitsOf(p, a, b, c, e)
<1> DEFINE q == p \div a
           r == p % a
           s == q % b
           t == (q \div b) % c
           u == q \div (b * c)
<1>1. /\ b * c \in Nat \ {0} /\ b * c * e \in Nat \ {0} /\ a * (b * c * e) = a * b * c * e
      /\ a * (b * c) = a * b * c
  BY ProductType
<1>2. q \in 0 .. (b * c * e - 1) /\ r \in 0 .. (a - 1) /\ p = q * a + r
  BY <1>1, Digits2
<1>3. q \div b = p \div (a * b)
  BY DivDiv
<1>4. u = p \div (a * b * c)
  <2>1. u = p \div (a * (b * c))
    BY <1>1, DivDiv
  <2> QED
    BY <1>1, <2>1
<1> HIDE DEF q, r
<1>5. /\ s \in 0 .. (b - 1) /\ t \in 0 .. (c - 1) /\ u \in 0 .. (e - 1)
      /\ q = u * (b * c) + (t * b + s)
  <2>1. q \in Nat /\ q < b * c * e
    BY <1>1, <1>2
  <2> QED
    BY <2>1, Digits3
<1>6. t = (p \div (a * b)) % c
  BY <1>3
<1> HIDE DEF s, t, u
<1>7. p = u * (a * b * c) + (t * (a * b) + (s * a + r))
  <2>1. (u * (b * c) + (t * b + s)) * a = u * (a * b * c) + (t * (a * b) + s * a)
    BY <1>5
  <2>2. u * (a * b * c) \in Nat /\ t * (a * b) \in Nat /\ s * a \in Nat
    <3>1. a * b * c \in Nat /\ a * b \in Nat
      OBVIOUS
    <3> QED
      BY <1>5, <3>1
  <2> QED
    BY <1>2, <1>5, <2>1, <2>2
<1>8. p % a = r /\ (p \div a) % b = s
  BY DEF q, r, s
<1> QED
  BY <1>2, <1>4, <1>5, <1>6, <1>7, <1>8 DEF DigitsOf

\* A tuple of indices within the bounds is an element.
LEMMA TupleElement ==
  ASSUME NEW v \in Views, NEW x, DOMAIN x = 1 .. Dim(v), x = [d \in DOMAIN x |-> x[d]],
         \A d \in 1 .. Dim(v) : x[d] \in v.min[d] .. (v.max[d] - 1)
  PROVE  x \in Elements(v)
  BY IsElement

\* The extents of a view along the dimensions that it has, and the offsets in it.
LEMMA ExtentFacts ==
  ASSUME NEW v \in Views
  PROVE  /\ Dim(v) \in 1 .. 4
         /\ \A d \in 1 .. Dim(v) : /\ v.min[d] \in Nat /\ v.max[d] \in Nat
                                   /\ Extent(v)[d] \in Nat \ {0}
                                   /\ v.max[d] = v.min[d] + Extent(v)[d]
                                   /\ Ext(v)[d] = Extent(v)[d]
         /\ \A d \in 1 .. 4 : d > Dim(v) => Ext(v)[d] = 1
<1>1. Dim(v) \in 1 .. 4
  BY ViewFacts
<1>2. \A d \in 1 .. Dim(v) : v.min[d] \in Nat /\ v.max[d] \in Nat /\ v.min[d] < v.max[d]
  BY ViewFacts
<1>3. \A d \in 1 .. Dim(v) : Extent(v)[d] = v.max[d] - v.min[d]
  BY DEF Extent
<1>4. \A d \in 1 .. Dim(v) : Ext(v)[d] = v.max[d] - v.min[d]
  BY <1>1 DEF Ext, ext, min_, max_
<1>5. \A d \in 1 .. 4 : d > Dim(v) => Ext(v)[d] = 1
  <2> TAKE d \in 1 .. 4
  <2> HAVE d > Dim(v)
  <2>1. ~ (d <= Dim(v))
    BY <1>1
  <2> QED
    BY <2>1 DEF Ext, ext, min_, max_
<1> QED
  BY <1>1, <1>2, <1>3, <1>4, <1>5

\* The ranks of elements by their places.
LEMMA RankForms ==
  ASSUME NEW v \in Views, NEW x \in Elements(v)
  PROVE  LET n == Ext(v)
             s == Siz(v, x)
             c == Pos(v, x)
             l == Loc(v, x)
             r == Row(v, x)
         IN  /\ RowRank(v, x) = r[4] * (n[1] * n[2] * n[3]) + (r[3] * (n[1] * n[2])
                                + (r[2] * n[1] + r[1]))
             /\ BlockRank(v, x) = c[4] * (n[1] * n[2] * n[3]) + (c[3] * (n[1] * n[2] * s[4])
                                  + (c[2] * (n[1] * s[3] * s[4]) + (c[1] * (s[2] * s[3] * s[4])
                                  + (l[4] * (s[1] * s[2] * s[3]) + (l[3] * (s[1] * s[2])
                                  + (l[2] * s[1] + l[1]))))))
  BY Zenon DEF RowRank, BlockRank, Sequential, Blocks3, Blocks2, Blocks1, Local4, Local3, Local2

\* The element that a pointer is moved to, by its offset.
LEMMA RowIndex ==
  ASSUME NEW v \in Views, NEW p \in 0 .. (Size(v) - 1)
  PROVE  LET x == ByDim(v, pointer1_index(v, p), pointer2_index(v, p),
                        pointer3_index(v, p), pointer4_index(v, p))
         IN  x \in Elements(v) /\ RowRank(v, x) = p
<1> DEFINE n == Extent(v)
<1>1. /\ Dim(v) \in 1 .. 4
      /\ \A d \in 1 .. Dim(v) : /\ v.min[d] \in Nat /\ v.max[d] \in Nat
                                /\ n[d] \in Nat \ {0} /\ v.max[d] = v.min[d] + n[d]
                                /\ Ext(v)[d] = n[d]
  BY ExtentFacts
<1>2. p \in Nat /\ p < Size(v)
  BY SizeIs
<1>3. CASE Dim(v) = 1
  <2> DEFINE x == pointer1_index(v, p)
             s == p
  <2>1. p < n[1]
    BY <1>2, <1>3 DEF Size, ByDim
  <2>2. /\ v.min[1] \in Nat /\ v.max[1] \in Nat /\ n[1] \in Nat \ {0} /\ v.max[1] = v.min[1] + n[1]
        /\ Ext(v)[1] = n[1]
    BY <1>1, <1>3
  <2>3. x = <<v.min[1] + s>>
    BY Zenon DEF pointer1_index
  <2> HIDE DEF n
  <2>4. /\ s \in 0 .. (n[1] - 1)
        /\ p = s
    BY <1>2, <2>1, <2>2
  <2> HIDE DEF x, s
  <2>5. x[1] = v.min[1] + s
        /\ DOMAIN x = 1 .. 1 /\ x = [d \in DOMAIN x |-> x[d]]
    BY <2>3
  <2>6. \A d \in 1 .. Dim(v) : x[d] \in v.min[d] .. (v.max[d] - 1)
    <3>1. x[1] \in v.min[1] .. (v.max[1] - 1)
      BY <2>2, <2>4, <2>5
    <3> QED
      BY <1>3, <3>1
  <2>7. x \in Elements(v)
    BY <1>3, <2>5, <2>6, TupleElement
  <2>8. RowRank(v, x) = p
    <3>1. Row(v, x)[1] = x[1] - v.min[1]
      BY <1>3, <2>7, Along
    <3>2. Row(v, x)[2] = 0 /\ Ext(v)[2] = 1 /\ Row(v, x)[3] = 0 /\ Ext(v)[3] = 1 /\ Row(v, x)[4] = 0
          /\ Ext(v)[4] = 1
      BY <1>3, <2>7, Padding
    <3>3. RowRank(v, x) = Row(v, x)[4] * (Ext(v)[1] * Ext(v)[2] * Ext(v)[3])
            + (Row(v, x)[3] * (Ext(v)[1] * Ext(v)[2]) + (Row(v, x)[2] * Ext(v)[1] + Row(v, x)[1]))
      BY <2>7, RankForms
    <3>4. Row(v, x)[1] = s
      BY <2>2, <2>4, <2>5, <3>1
    <3> QED
      BY <2>2, <2>4, <3>2, <3>3, <3>4
  <2> QED
    BY <1>3, <2>7, <2>8 DEF ByDim, x
<1>4. CASE Dim(v) = 2
  <2> DEFINE x == pointer2_index(v, p)
             s == p % n[1]
             t == p \div n[1]
  <2>1. p < n[1] * n[2]
    BY <1>2, <1>4 DEF Size, ByDim
  <2>2. /\ v.min[1] \in Nat /\ v.max[1] \in Nat /\ n[1] \in Nat \ {0} /\ v.max[1] = v.min[1] + n[1]
        /\ Ext(v)[1] = n[1]
        /\ v.min[2] \in Nat /\ v.max[2] \in Nat /\ n[2] \in Nat \ {0} /\ v.max[2] = v.min[2] + n[2]
        /\ Ext(v)[2] = n[2]
    BY <1>1, <1>4
  <2>3. x = <<v.min[1] + s, v.min[2] + t>>
    BY Zenon DEF pointer2_index
  <2> HIDE DEF n
  <2>4. /\ s \in 0 .. (n[1] - 1) /\ t \in 0 .. (n[2] - 1)
        /\ p = t * n[1] + s
    BY <1>2, <2>1, <2>2, Digits2
  <2> HIDE DEF x, s, t
  <2>5. x[1] = v.min[1] + s /\ x[2] = v.min[2] + t
        /\ DOMAIN x = 1 .. 2 /\ x = [d \in DOMAIN x |-> x[d]]
    BY <2>3
  <2>6. \A d \in 1 .. Dim(v) : x[d] \in v.min[d] .. (v.max[d] - 1)
    <3>1. x[1] \in v.min[1] .. (v.max[1] - 1)
      BY <2>2, <2>4, <2>5
    <3>2. x[2] \in v.min[2] .. (v.max[2] - 1)
      BY <2>2, <2>4, <2>5
    <3> QED
      BY <1>4, <3>1, <3>2
  <2>7. x \in Elements(v)
    BY <1>4, <2>5, <2>6, TupleElement
  <2>8. RowRank(v, x) = p
    <3>1. Row(v, x)[1] = x[1] - v.min[1] /\ Row(v, x)[2] = x[2] - v.min[2]
      BY <1>4, <2>7, Along
    <3>2. Row(v, x)[3] = 0 /\ Ext(v)[3] = 1 /\ Row(v, x)[4] = 0 /\ Ext(v)[4] = 1
      BY <1>4, <2>7, Padding
    <3>3. RowRank(v, x) = Row(v, x)[4] * (Ext(v)[1] * Ext(v)[2] * Ext(v)[3])
            + (Row(v, x)[3] * (Ext(v)[1] * Ext(v)[2]) + (Row(v, x)[2] * Ext(v)[1] + Row(v, x)[1]))
      BY <2>7, RankForms
    <3>4. Row(v, x)[1] = s /\ Row(v, x)[2] = t
      BY <2>2, <2>4, <2>5, <3>1
    <3> QED
      BY <2>2, <2>4, <3>2, <3>3, <3>4
  <2> QED
    BY <1>4, <2>7, <2>8 DEF ByDim, x
<1>5. CASE Dim(v) = 3
  <2> DEFINE x == pointer3_index(v, p)
             s == p % n[1]
             t == (p \div n[1]) % n[2]
             u == p \div (n[1] * n[2])
  <2>1. p < n[1] * n[2] * n[3]
    BY <1>2, <1>5 DEF Size, ByDim
  <2>2. /\ v.min[1] \in Nat /\ v.max[1] \in Nat /\ n[1] \in Nat \ {0} /\ v.max[1] = v.min[1] + n[1]
        /\ Ext(v)[1] = n[1]
        /\ v.min[2] \in Nat /\ v.max[2] \in Nat /\ n[2] \in Nat \ {0} /\ v.max[2] = v.min[2] + n[2]
        /\ Ext(v)[2] = n[2]
        /\ v.min[3] \in Nat /\ v.max[3] \in Nat /\ n[3] \in Nat \ {0} /\ v.max[3] = v.min[3] + n[3]
        /\ Ext(v)[3] = n[3]
    BY <1>1, <1>5
  <2>3. x = <<v.min[1] + s, v.min[2] + t, v.min[3] + u>>
    BY Zenon DEF pointer3_index
  <2> HIDE DEF n
  <2>4. /\ s \in 0 .. (n[1] - 1) /\ t \in 0 .. (n[2] - 1) /\ u \in 0 .. (n[3] - 1)
        /\ p = u * (n[1] * n[2]) + (t * n[1] + s)
    BY <1>2, <2>1, <2>2, Digits3
  <2> HIDE DEF x, s, t, u
  <2>5. x[1] = v.min[1] + s /\ x[2] = v.min[2] + t /\ x[3] = v.min[3] + u
        /\ DOMAIN x = 1 .. 3 /\ x = [d \in DOMAIN x |-> x[d]]
    BY <2>3
  <2>6. \A d \in 1 .. Dim(v) : x[d] \in v.min[d] .. (v.max[d] - 1)
    <3>1. x[1] \in v.min[1] .. (v.max[1] - 1)
      BY <2>2, <2>4, <2>5
    <3>2. x[2] \in v.min[2] .. (v.max[2] - 1)
      BY <2>2, <2>4, <2>5
    <3>3. x[3] \in v.min[3] .. (v.max[3] - 1)
      BY <2>2, <2>4, <2>5
    <3> QED
      BY <1>5, <3>1, <3>2, <3>3
  <2>7. x \in Elements(v)
    BY <1>5, <2>5, <2>6, TupleElement
  <2>8. RowRank(v, x) = p
    <3>1. Row(v, x)[1] = x[1] - v.min[1] /\ Row(v, x)[2] = x[2] - v.min[2] /\ Row(v, x)[3] = x[3] - v.min[3]
      BY <1>5, <2>7, Along
    <3>2. Row(v, x)[4] = 0 /\ Ext(v)[4] = 1
      BY <1>5, <2>7, Padding
    <3>3. RowRank(v, x) = Row(v, x)[4] * (Ext(v)[1] * Ext(v)[2] * Ext(v)[3])
            + (Row(v, x)[3] * (Ext(v)[1] * Ext(v)[2]) + (Row(v, x)[2] * Ext(v)[1] + Row(v, x)[1]))
      BY <2>7, RankForms
    <3>4. Row(v, x)[1] = s /\ Row(v, x)[2] = t /\ Row(v, x)[3] = u
      BY <2>2, <2>4, <2>5, <3>1
    <3> QED
      BY <2>2, <2>4, <3>2, <3>3, <3>4
  <2> QED
    BY <1>5, <2>7, <2>8 DEF ByDim, x
<1>6. CASE Dim(v) = 4
  <2> DEFINE x == pointer4_index(v, p)
             s == p % n[1]
             t == (p \div n[1]) % n[2]
             u == (p \div (n[1] * n[2])) % n[3]
             w == p \div (n[1] * n[2] * n[3])
  <2>1. p < n[1] * n[2] * n[3] * n[4]
    BY <1>2, <1>6 DEF Size, ByDim
  <2>2. /\ v.min[1] \in Nat /\ v.max[1] \in Nat /\ n[1] \in Nat \ {0} /\ v.max[1] = v.min[1] + n[1]
        /\ Ext(v)[1] = n[1]
        /\ v.min[2] \in Nat /\ v.max[2] \in Nat /\ n[2] \in Nat \ {0} /\ v.max[2] = v.min[2] + n[2]
        /\ Ext(v)[2] = n[2]
        /\ v.min[3] \in Nat /\ v.max[3] \in Nat /\ n[3] \in Nat \ {0} /\ v.max[3] = v.min[3] + n[3]
        /\ Ext(v)[3] = n[3]
        /\ v.min[4] \in Nat /\ v.max[4] \in Nat /\ n[4] \in Nat \ {0} /\ v.max[4] = v.min[4] + n[4]
        /\ Ext(v)[4] = n[4]
    BY <1>1, <1>6
  <2>3. x = <<v.min[1] + s, v.min[2] + t, v.min[3] + u, v.min[4] + w>>
    BY Zenon DEF pointer4_index
  <2> HIDE DEF n
  <2>9. DigitsOf(p, n[1], n[2], n[3], n[4])
    BY <1>2, <2>1, <2>2, Digits4
  <2>4. /\ s \in 0 .. (n[1] - 1) /\ t \in 0 .. (n[2] - 1) /\ u \in 0 .. (n[3] - 1) /\ w \in 0 .. (n[4] - 1)
        /\ p = w * (n[1] * n[2] * n[3]) + (u * (n[1] * n[2]) + (t * n[1] + s))
    BY <2>9, Zenon DEF DigitsOf
  <2> HIDE DEF x, s, t, u, w
  <2>5. x[1] = v.min[1] + s /\ x[2] = v.min[2] + t /\ x[3] = v.min[3] + u /\ x[4] = v.min[4] + w
        /\ DOMAIN x = 1 .. 4 /\ x = [d \in DOMAIN x |-> x[d]]
    BY <2>3
  <2>6. \A d \in 1 .. Dim(v) : x[d] \in v.min[d] .. (v.max[d] - 1)
    <3>1. x[1] \in v.min[1] .. (v.max[1] - 1)
      BY <2>2, <2>4, <2>5
    <3>2. x[2] \in v.min[2] .. (v.max[2] - 1)
      BY <2>2, <2>4, <2>5
    <3>3. x[3] \in v.min[3] .. (v.max[3] - 1)
      BY <2>2, <2>4, <2>5
    <3>4. x[4] \in v.min[4] .. (v.max[4] - 1)
      BY <2>2, <2>4, <2>5
    <3> QED
      BY <1>6, <3>1, <3>2, <3>3, <3>4
  <2>7. x \in Elements(v)
    BY <1>6, <2>5, <2>6, TupleElement
  <2>8. RowRank(v, x) = p
    <3>1. Row(v, x)[1] = x[1] - v.min[1] /\ Row(v, x)[2] = x[2] - v.min[2]
          /\ Row(v, x)[3] = x[3] - v.min[3] /\ Row(v, x)[4] = x[4] - v.min[4]
      BY <1>6, <2>7, Along
    <3>3. RowRank(v, x) = Row(v, x)[4] * (Ext(v)[1] * Ext(v)[2] * Ext(v)[3])
            + (Row(v, x)[3] * (Ext(v)[1] * Ext(v)[2]) + (Row(v, x)[2] * Ext(v)[1] + Row(v, x)[1]))
      BY <2>7, RankForms
    <3>4. Row(v, x)[1] = s /\ Row(v, x)[2] = t /\ Row(v, x)[3] = u /\ Row(v, x)[4] = w
      BY <2>2, <2>4, <2>5, <3>1
    <3> QED
      BY <2>2, <2>4, <3>3, <3>4
  <2> QED
    BY <1>6, <2>7, <2>8 DEF ByDim, x
<1> QED
  BY <1>1, <1>3, <1>4, <1>5, <1>6

\* Multiples leave no remainder.
LEMMA MultipleOf ==
  ASSUME NEW a \in Nat \ {0}, NEW q \in Nat
  PROVE  (a * q) \div a = q /\ (a * q) % a = 0
<1>1. 0 \in 0 .. (a - 1) /\ a * q + 0 = a * q
  OBVIOUS
<1>2. (a * q + 0) \div a = q /\ (a * q + 0) % a = 0
  BY <1>1, DivModUnique
<1> QED
  BY <1>1, <1>2

\* A pointer past the last element is at the end.
LEMMA RowIndexEnd ==
  ASSUME NEW v \in Views
  PROVE  ByDim(v, pointer1_index(v, Size(v)), pointer2_index(v, Size(v)),
               pointer3_index(v, Size(v)), pointer4_index(v, Size(v))) = End(v)
<1> DEFINE n == Extent(v)
           p == Size(v)
<1>1. /\ Dim(v) \in 1 .. 4
      /\ \A d \in 1 .. Dim(v) : /\ v.min[d] \in Nat /\ v.max[d] \in Nat
                                /\ n[d] \in Nat \ {0} /\ v.max[d] = v.min[d] + n[d]
  BY ExtentFacts
<1>2. End(v) = [d \in 1 .. Dim(v) |-> IF d = Dim(v) THEN v.max[d] ELSE v.min[d]]
  BY EndFacts
<1>3. CASE Dim(v) = 1
  <2>1. p = n[1]
    BY <1>3 DEF Size, ByDim
  <2>2. pointer1_index(v, p) = <<v.min[1] + p>>
    BY Zenon DEF pointer1_index
  <2>3. /\ v.min[1] \in Nat /\ v.max[1] \in Nat /\ n[1] \in Nat \ {0} /\ v.max[1] = v.min[1] + n[1]
    BY <1>1, <1>3
  <2> HIDE DEF n, p
  <2>4. p = n[1]
    BY <2>1
  <2>5. pointer1_index(v, p) = <<v.max[1]>>
    BY <2>2, <2>3, <2>4
  <2>6. End(v) = <<v.max[1]>>
    BY <1>2, <1>3
  <2> QED
    BY <1>3, <2>5, <2>6 DEF ByDim, p
<1>4. CASE Dim(v) = 2
  <2>1. p = n[1] * n[2]
    BY <1>4 DEF Size, ByDim
  <2>2. pointer2_index(v, p) = <<v.min[1] + (p % n[1]), v.min[2] + p \div n[1]>>
    BY Zenon DEF pointer2_index
  <2>3. /\ v.min[1] \in Nat /\ v.max[1] \in Nat /\ n[1] \in Nat \ {0} /\ v.max[1] = v.min[1] + n[1]
        /\ v.min[2] \in Nat /\ v.max[2] \in Nat /\ n[2] \in Nat \ {0} /\ v.max[2] = v.min[2] + n[2]
    BY <1>1, <1>4
  <2> HIDE DEF n, p
  <2>4. p % n[1] = 0 /\ p \div n[1] = n[2]
    BY <2>1, <2>3, MultipleOf
  <2>5. pointer2_index(v, p) = <<v.min[1], v.max[2]>>
    BY <2>2, <2>3, <2>4
  <2>6. End(v) = <<v.min[1], v.max[2]>>
    BY <1>2, <1>4
  <2> QED
    BY <1>4, <2>5, <2>6 DEF ByDim, p
<1>5. CASE Dim(v) = 3
  <2>1. p = n[1] * n[2] * n[3]
    BY <1>5 DEF Size, ByDim
  <2>2. pointer3_index(v, p) = <<v.min[1] + (p % n[1]), v.min[2] + ((p \div n[1]) % n[2]),
            v.min[3] + p \div (n[1] * n[2])>>
    BY Zenon DEF pointer3_index
  <2>3. /\ v.min[1] \in Nat /\ v.max[1] \in Nat /\ n[1] \in Nat \ {0} /\ v.max[1] = v.min[1] + n[1]
        /\ v.min[2] \in Nat /\ v.max[2] \in Nat /\ n[2] \in Nat \ {0} /\ v.max[2] = v.min[2] + n[2]
        /\ v.min[3] \in Nat /\ v.max[3] \in Nat /\ n[3] \in Nat \ {0} /\ v.max[3] = v.min[3] + n[3]
    BY <1>1, <1>5
  <2> HIDE DEF n, p
  <2>4. p % n[1] = 0 /\ (p \div n[1]) % n[2] = 0 /\ p \div (n[1] * n[2]) = n[3]
    <3>1. n[2] * n[3] \in Nat /\ p = n[1] * (n[2] * n[3])
      BY <2>1, <2>3
    <3>2. p \div n[1] = n[2] * n[3] /\ p % n[1] = 0
      BY <2>3, <3>1, MultipleOf
    <3>3. (p \div n[1]) % n[2] = 0
      BY <2>3, <3>2, MultipleOf
    <3>4. n[1] * n[2] \in Nat \ {0} /\ p = (n[1] * n[2]) * n[3]
      BY <2>1, <2>3, ProductType
    <3>5. p \div (n[1] * n[2]) = n[3]
      BY <2>3, <3>4, MultipleOf
    <3> QED
      BY <3>2, <3>3, <3>5
  <2>5. pointer3_index(v, p) = <<v.min[1], v.min[2], v.max[3]>>
    BY <2>2, <2>3, <2>4
  <2>6. End(v) = <<v.min[1], v.min[2], v.max[3]>>
    BY <1>2, <1>5
  <2> QED
    BY <1>5, <2>5, <2>6 DEF ByDim, p
<1>6. CASE Dim(v) = 4
  <2>1. p = n[1] * n[2] * n[3] * n[4]
    BY <1>6 DEF Size, ByDim
  <2>2. pointer4_index(v, p) = <<v.min[1] + (p % n[1]), v.min[2] + ((p \div n[1]) % n[2]),
            v.min[3] + ((p \div (n[1] * n[2])) % n[3]), v.min[4] + p \div (n[1] * n[2] * n[3])>>
    BY Zenon DEF pointer4_index
  <2>3. /\ v.min[1] \in Nat /\ v.max[1] \in Nat /\ n[1] \in Nat \ {0} /\ v.max[1] = v.min[1] + n[1]
        /\ v.min[2] \in Nat /\ v.max[2] \in Nat /\ n[2] \in Nat \ {0} /\ v.max[2] = v.min[2] + n[2]
        /\ v.min[3] \in Nat /\ v.max[3] \in Nat /\ n[3] \in Nat \ {0} /\ v.max[3] = v.min[3] + n[3]
        /\ v.min[4] \in Nat /\ v.max[4] \in Nat /\ n[4] \in Nat \ {0} /\ v.max[4] = v.min[4] + n[4]
    BY <1>1, <1>6
  <2> HIDE DEF n, p
  <2>4. p % n[1] = 0 /\ (p \div n[1]) % n[2] = 0 /\ (p \div (n[1] * n[2])) % n[3] = 0
        /\ p \div (n[1] * n[2] * n[3]) = n[4]
    <3>1. n[2] * (n[3] * n[4]) \in Nat /\ n[3] * n[4] \in Nat /\ p = n[1] * (n[2] * (n[3] * n[4]))
      BY <2>1, <2>3
    <3>2. p \div n[1] = n[2] * (n[3] * n[4]) /\ p % n[1] = 0
      BY <2>3, <3>1, MultipleOf
    <3>3. (p \div n[1]) % n[2] = 0
      BY <2>3, <3>1, <3>2, MultipleOf
    <3>4. /\ n[1] * n[2] \in Nat \ {0} /\ p = (n[1] * n[2]) * (n[3] * n[4])
          /\ n[1] * n[2] * n[3] \in Nat \ {0} /\ p = (n[1] * n[2] * n[3]) * n[4]
      <4>1. n[1] * n[2] \in Nat \ {0}
        BY <2>3, ProductType
      <4>2. n[1] * n[2] * n[3] \in Nat \ {0}
        BY <2>3, <4>1, ProductType
      <4>3. p = (n[1] * n[2]) * (n[3] * n[4]) /\ p = (n[1] * n[2] * n[3]) * n[4]
        BY <2>1, <2>3
      <4> QED
        BY <4>1, <4>2, <4>3
    <3>5. p \div (n[1] * n[2]) = n[3] * n[4]
      BY <2>3, <3>1, <3>4, MultipleOf
    <3>6. (p \div (n[1] * n[2])) % n[3] = 0
      BY <2>3, <3>5, MultipleOf
    <3>7. p \div (n[1] * n[2] * n[3]) = n[4]
      BY <2>3, <3>4, MultipleOf
    <3> QED
      BY <3>2, <3>3, <3>6, <3>7
  <2>5. pointer4_index(v, p) = <<v.min[1], v.min[2], v.min[3], v.max[4]>>
    BY <2>2, <2>3, <2>4
  <2>6. End(v) = <<v.min[1], v.min[2], v.min[3], v.max[4]>>
    BY <1>2, <1>6
  <2> QED
    BY <1>6, <2>5, <2>6 DEF ByDim, p
<1> QED
  BY <1>1, <1>3, <1>4, <1>5, <1>6

\* Quotients and remainders are natural numbers.
LEMMA DivType == \A p \in Nat, a \in Nat \ {0} : p \div a \in Nat /\ p % a \in Nat
  BY DivMod

\* In C, an offset is divided by one extent after the other.
LEMMA CfpRowIndex ==
  ASSUME NEW v \in Views, \A d \in 1 .. Dim(v) : v.min[d] = 0, NEW p \in Nat
  PROVE  ByDim(v, cfp1_ref_set_offset(v, p), cfp2_ref_set_offset(v, p),
               cfp3_ref_set_offset(v, p), cfp4_ref_set_offset(v, p))
         = ByDim(v, pointer1_index(v, p), pointer2_index(v, p),
                 pointer3_index(v, p), pointer4_index(v, p))
<1> DEFINE n == Extent(v)
<1>1. /\ Dim(v) \in 1 .. 4
      /\ \A d \in 1 .. Dim(v) : n[d] \in Nat \ {0} /\ v.min[d] = 0
  BY ExtentFacts
<1>2. CASE Dim(v) = 1
  <2>1. n[1] \in Nat \ {0} /\ v.min[1] = 0
    BY <1>1, <1>2
  <2>2. cfp1_ref_set_offset(v, p) = <<p>>
    BY Zenon DEF cfp1_ref_set_offset
  <2>3. pointer1_index(v, p) = <<v.min[1] + p>>
    BY Zenon DEF pointer1_index
  <2> HIDE DEF n
  <2>7. p \in Int
    BY <2>1, DivType
  <2>8. cfp1_ref_set_offset(v, p) = pointer1_index(v, p)
    BY <2>1, <2>2, <2>3, <2>7
  <2> QED
    BY <1>2, <2>8 DEF ByDim
<1>3. CASE Dim(v) = 2
  <2>1. n[1] \in Nat \ {0} /\ v.min[1] = 0 /\ n[2] \in Nat \ {0} /\ v.min[2] = 0
    BY <1>1, <1>3
  <2>2. cfp2_ref_set_offset(v, p) = <<p % n[1], p \div n[1]>>
    BY Zenon DEF cfp2_ref_set_offset
  <2>3. pointer2_index(v, p) = <<v.min[1] + (p % n[1]), v.min[2] + p \div n[1]>>
    BY Zenon DEF pointer2_index
  <2> HIDE DEF n
  <2>7. p % n[1] \in Int /\ p \div n[1] \in Int
    BY <2>1, DivType
  <2>8. cfp2_ref_set_offset(v, p) = pointer2_index(v, p)
    BY <2>1, <2>2, <2>3, <2>7
  <2> QED
    BY <1>3, <2>8 DEF ByDim
<1>4. CASE Dim(v) = 3
  <2>1. n[1] \in Nat \ {0} /\ v.min[1] = 0 /\ n[2] \in Nat \ {0} /\ v.min[2] = 0 /\ n[3] \in Nat \ {0}
        /\ v.min[3] = 0
    BY <1>1, <1>4
  <2>2. cfp3_ref_set_offset(v, p) = <<p % n[1], (p \div n[1]) % n[2], (p \div n[1]) \div n[2]>>
    BY Zenon DEF cfp3_ref_set_offset
  <2>3. pointer3_index(v, p) = <<v.min[1] + (p % n[1]), v.min[2] + ((p \div n[1]) % n[2]),
            v.min[3] + p \div (n[1] * n[2])>>
    BY Zenon DEF pointer3_index
  <2> HIDE DEF n
  <2>4. (p \div n[1]) \div n[2] = p \div (n[1] * n[2])
    BY <2>1, DivDiv
  <2>7. p % n[1] \in Int /\ (p \div n[1]) % n[2] \in Int /\ p \div (n[1] * n[2]) \in Int
    <3>1. n[1] * n[2] \in Nat \ {0}
      BY <2>1, ProductType
    <3>2. p \div n[1] \in Nat /\ p \div (n[1] * n[2]) \in Nat
      BY <2>1, <3>1, DivType
    <3> QED
      BY <2>1, <3>2, DivType
  <2>8. cfp3_ref_set_offset(v, p) = pointer3_index(v, p)
    BY <2>1, <2>2, <2>3, <2>7, <2>4
  <2> QED
    BY <1>4, <2>8 DEF ByDim
<1>5. CASE Dim(v) = 4
  <2>1. n[1] \in Nat \ {0} /\ v.min[1] = 0 /\ n[2] \in Nat \ {0} /\ v.min[2] = 0 /\ n[3] \in Nat \ {0}
        /\ v.min[3] = 0 /\ n[4] \in Nat \ {0} /\ v.min[4] = 0
    BY <1>1, <1>5
  <2>2. cfp4_ref_set_offset(v, p) = <<p % n[1], (p \div n[1]) % n[2], ((p \div n[1]) \div n[2]) % n[3],
            ((p \div n[1]) \div n[2]) \div n[3]>>
    BY Zenon DEF cfp4_ref_set_offset
  <2>3. pointer4_index(v, p) = <<v.min[1] + (p % n[1]), v.min[2] + ((p \div n[1]) % n[2]),
            v.min[3] + ((p \div (n[1] * n[2])) % n[3]), v.min[4] + p \div (n[1] * n[2] * n[3])>>
    BY Zenon DEF pointer4_index
  <2> HIDE DEF n
  <2>4. (p \div n[1]) \div n[2] = p \div (n[1] * n[2])
    BY <2>1, DivDiv
  <2>5. n[1] * n[2] \in Nat \ {0}
    BY <2>1, ProductType
  <2>6. (p \div (n[1] * n[2])) \div n[3] = p \div (n[1] * n[2] * n[3])
    BY <2>1, <2>5, DivDiv
  <2>7. p % n[1] \in Int /\ (p \div n[1]) % n[2] \in Int /\ (p \div (n[1] * n[2])) % n[3] \in Int
        /\ p \div (n[1] * n[2] * n[3]) \in Int
    <3>1. n[1] * n[2] * n[3] \in Nat \ {0}
      BY <2>1, <2>5, ProductType
    <3>2. p \div n[1] \in Nat /\ p \div (n[1] * n[2]) \in Nat /\ p \div (n[1] * n[2] * n[3]) \in Nat
      BY <2>5, <3>1, <2>1, DivType
    <3> QED
      BY <2>1, <3>2, DivType
  <2>8. cfp4_ref_set_offset(v, p) = pointer4_index(v, p)
    BY <2>1, <2>2, <2>3, <2>7, <2>4, <2>6
  <2> QED
    BY <1>5, <2>8 DEF ByDim
<1> QED
  BY <1>1, <1>2, <1>3, <1>4, <1>5

\* The slab of blocks along d that offset p is in, with u elements for each step along d: it
\* begins at b and has s steps, and q is what is left of the offset.
SlabOf(v, d, p, u, b, s, q) ==
  /\ b \in Nat /\ v.min[d] <= b /\ s \in Nat \ {0} /\ b + s <= v.max[d]
  /\ q \in Nat /\ q < s * u /\ p = (b - v.min[d]) * u + q
  /\ \A y \in b .. (b + s - 1) : Lo(v.min[d], y) = b /\ Hi(v.max[d], y) = b + s

\* The iterator finds the block that a number is in, dimension by dimension.
LEMMA Slab ==
  ASSUME NEW v \in Views, NEW d \in 1 .. Dim(v), NEW p \in Nat, NEW u \in Nat \ {0},
         p < Extent(v)[d] * u
  PROVE  LET b == BlockAt(v, d, p, u)
         IN  SlabOf(v, d, p, u, b, BlockExtent(v, d, b), p - (b - v.min[d]) * u)
<1> DEFINE m == v.min[d]
           M == v.max[d]
           n == Extent(v)[d]
           k == p \div u
           x == m + k
           b == BlockAt(v, d, p, u)
           s == BlockExtent(v, d, b)
           q == p - (b - m) * u
<1>1. m \in Nat /\ M \in Nat /\ n \in Nat \ {0} /\ M = m + n
  BY ExtentFacts
<1>2. k \in Nat /\ k < n
  <2>0. p < n * u
    BY DEF n
  <2> HIDE DEF n
  <2>1. p < u * n
    BY <1>1, <2>0
  <2> QED
    BY <1>1, <2>1, DivType, DivLess
<1>3. u * k <= p /\ p < u * k + u
  <2>1. p % u \in 0 .. (u - 1) /\ p = u * k + (p % u)
    BY DivMod
  <2> HIDE DEF k
  <2> QED
    BY <1>2, <2>1
<1>4. x \in m .. (M - 1)
  <2> HIDE DEF m, M, n, k
  <2> QED
    BY <1>1, <1>2
<1>5. b = Lo(m, x)
  BY DEF BlockAt, BlockMin, Lo
<1>6. s = Hi(M, b) - b
  BY DEF BlockExtent, Hi
<1> HIDE DEF m, M, n, b, s
<1>7. /\ b \in Nat /\ Hi(M, x) \in Nat /\ m <= b /\ b <= x /\ x < Hi(M, x) /\ Hi(M, x) <= M
      /\ \A y \in b .. (Hi(M, x) - 1) : Lo(m, y) = b /\ Hi(M, y) = Hi(M, x)
  <2> HIDE DEF x
  <2> QED
    BY <1>1, <1>4, <1>5, BlockFacts
<1>8. Hi(M, b) = Hi(M, x)
  <2> HIDE DEF x
  <2>1. b \in b .. (Hi(M, x) - 1)
    BY <1>1, <1>4, <1>7
  <2> QED
    BY <1>7, <2>1
<1>9. s \in Nat \ {0} /\ b + s = Hi(M, x)
  <2>1. x \in Nat
    BY <1>1, <1>2
  <2> HIDE DEF x
  <2> QED
    BY <1>6, <1>7, <1>8, <2>1
<1>10. (b - m) * u <= p /\ p < (b + s - m) * u
  <2> DEFINE i == b - m
             j == b + s - m
  <2>1. i \in Nat /\ j \in Nat /\ i <= k /\ k + 1 <= j
    <3> HIDE DEF k
    <3> QED
      BY <1>1, <1>2, <1>7, <1>9
  <2> HIDE DEF i, j, k
  <2>2. i * u <= k * u /\ (k + 1) * u <= j * u /\ (k + 1) * u = u * k + u /\ k * u = u * k
    BY <1>2, <2>1
  <2>3. i * u \in Nat /\ j * u \in Nat /\ u * k \in Nat
    BY <1>2, <2>1
  <2>4. i * u <= p /\ p < j * u
    BY <1>3, <2>2, <2>3
  <2> QED
    BY <2>4 DEF i, j
<1>11. q \in Nat /\ q < s * u /\ p = (b - m) * u + q
  <2> DEFINE i == b - m
  <2>1. i \in Nat /\ b + s - m = i + s
    BY <1>1, <1>7, <1>9
  <2> HIDE DEF i
  <2>2. (i + s) * u = i * u + s * u /\ i * u \in Nat /\ s * u \in Nat
    BY <1>9, <2>1
  <2>3. i * u <= p /\ p < (i + s) * u
    BY <1>10, <2>1 DEF i
  <2>4. q = p - i * u
    BY DEF i
  <2> HIDE DEF q
  <2>5. p = i * u + q
    BY <2>2, <2>4
  <2> QED
    BY <2>2, <2>3, <2>4, <2>5 DEF i
<1>12. SlabOf(v, d, p, u, b, s, q)
  <2> HIDE DEF q, x
  <2>1. \A y \in b .. (b + s - 1) : Lo(m, y) = b /\ Hi(M, y) = b + s
    BY <1>7, <1>9
  <2>2. b + s <= M
    BY <1>7, <1>9
  <2> QED
    BY <1>7, <1>9, <1>11, <2>1, <2>2 DEF SlabOf, m, M
<1> QED
  BY <1>12 DEF b, s, q, m

\* Where that block begins.
LEMMA BlockAtType ==
  \A v \in Views : \A d \in 1 .. Dim(v) : \A p \in Nat, u \in Nat \ {0} :
    p < Extent(v)[d] * u => BlockAt(v, d, p, u) \in Nat
BY Slab DEF SlabOf

\* Where an element is within its block, by the slabs that it is in.
LEMMA InSlab ==
  ASSUME NEW v \in Views, NEW d \in 1 .. Dim(v), NEW p, NEW u, NEW b, NEW s, NEW q,
         SlabOf(v, d, p, u, b, s, q), NEW l \in 0 .. (s - 1)
  PROVE  /\ b + l \in v.min[d] .. (v.max[d] - 1)
         /\ \A x \in Elements(v) : x[d] = b + l =>
              Pos(v, x)[d] = b - v.min[d] /\ Siz(v, x)[d] = s /\ Loc(v, x)[d] = l
<1>1. v.min[d] \in Nat /\ v.max[d] \in Nat
  BY ExtentFacts
<1>2. /\ b \in Nat /\ v.min[d] <= b /\ s \in Nat \ {0} /\ b + s <= v.max[d]
      /\ \A y \in b .. (b + s - 1) : Lo(v.min[d], y) = b /\ Hi(v.max[d], y) = b + s
  BY DEF SlabOf
<1>3. l \in Nat /\ l < s
  BY <1>2
<1>4. b + l \in v.min[d] .. (v.max[d] - 1) /\ b + l \in b .. (b + s - 1)
  BY <1>1, <1>2, <1>3
<1>5. Lo(v.min[d], b + l) = b /\ Hi(v.max[d], b + l) = b + s
  BY <1>2, <1>4
<1>6. ASSUME NEW x \in Elements(v), x[d] = b + l
      PROVE  Pos(v, x)[d] = b - v.min[d] /\ Siz(v, x)[d] = s /\ Loc(v, x)[d] = l
  <2>1. /\ Pos(v, x)[d] = Lo(v.min[d], x[d]) - v.min[d]
        /\ Siz(v, x)[d] = Hi(v.max[d], x[d]) - Lo(v.min[d], x[d])
        /\ Loc(v, x)[d] = x[d] - Lo(v.min[d], x[d])
    BY Along
  <2> QED
    BY <1>2, <1>3, <1>5, <1>6, <2>1
<1> QED
  BY <1>4, <1>6

\* The element that an iterator is moved to, by its offset.
LEMMA BlockIndex ==
  ASSUME NEW v \in Views, NEW p \in 0 .. (Size(v) - 1)
  PROVE  LET x == ByDim(v, iterator1_index(v, p), iterator2_index(v, p),
                        iterator3_index(v, p), iterator4_index(v, p))
         IN  x \in Elements(v) /\ BlockRank(v, x) = p
<1> DEFINE n == Extent(v)
<1>1. /\ Dim(v) \in 1 .. 4
      /\ \A d \in 1 .. Dim(v) : /\ v.min[d] \in Nat /\ v.max[d] \in Nat
                                /\ n[d] \in Nat \ {0} /\ v.max[d] = v.min[d] + n[d]
                                /\ Ext(v)[d] = n[d]
  BY ExtentFacts
<1>2. p \in Nat /\ p < Size(v)
  BY SizeIs
<1>3. CASE Dim(v) = 1
  <2>1. iterator1_index(v, p) = pointer1_index(v, p)
    BY Zenon DEF iterator1_index, pointer1_index
  <2> DEFINE x == pointer1_index(v, p)
  <2>2. x \in Elements(v) /\ RowRank(v, x) = p
    BY <1>3, RowIndex DEF ByDim
  <2>3. BlockRank(v, x) = RowRank(v, x)
    <3>1. BlockRank(v, x) = iterator1_offset(v, x)
      BY <1>3, <2>2, BlockOffset DEF ByDim
    <3>2. RowRank(v, x) = pointer1_offset(v, x)
      BY <1>3, <2>2, RowOffset DEF ByDim
    <3> QED
      BY <3>1, <3>2, Zenon DEF iterator1_offset, pointer1_offset
  <2> QED
    BY <1>3, <2>1, <2>2, <2>3 DEF ByDim
<1>4. CASE Dim(v) = 2
  <2> DEFINE b2 == BlockAt(v, 2, p, n[1])
             s2 == BlockExtent(v, 2, b2)
             p2 == p - (b2 - v.min[2]) * n[1]
             b1 == BlockAt(v, 1, p2, s2)
             s1 == BlockExtent(v, 1, b1)
             p1 == p2 - (b1 - v.min[1]) * s2
             l1 == p1 % s1
             l2 == p1 \div s1
             x == iterator2_index(v, p)
  <2>1. Size(v) = n[1] * n[2] /\ p < n[1] * n[2] /\ p # n[1] * n[2]
    BY <1>2, <1>4 DEF Size, ByDim
  <2>2. x = <<b1 + l1, b2 + l2>>
    BY <2>1, Zenon DEF iterator2_index
  <2>3. /\ 1 \in 1 .. Dim(v) /\ v.min[1] \in Nat /\ n[1] \in Nat \ {0} /\ Ext(v)[1] = n[1]
        /\ 2 \in 1 .. Dim(v) /\ v.min[2] \in Nat /\ n[2] \in Nat \ {0} /\ Ext(v)[2] = n[2]
    BY <1>1, <1>4
  <2> HIDE DEF n, x, l1, l2
  <2>4. SlabOf(v, 2, p, n[1], b2, s2, p2) /\ n[1] \in Nat \ {0}
    <3>1. n[1] \in Nat \ {0}
      BY <2>3
    <3>2. p \in Nat /\ p < n[2] * (n[1])
      BY <1>2, <2>1, <2>3
    <3>3. p2 = p - (b2 - v.min[2]) * (n[1])
      OBVIOUS
    <3> DEFINE unit == n[1]
    <3>4. unit \in Nat \ {0} /\ p < n[2] * unit /\ p2 = p - (b2 - v.min[2]) * unit
          /\ b2 = BlockAt(v, 2, p, unit) /\ s2 = BlockExtent(v, 2, b2)
      BY <3>1, <3>2, <3>3
    <3> HIDE DEF unit, b2, s2, p2
    <3>5. SlabOf(v, 2, p, unit, b2, s2, p2)
      BY <2>3, <3>2, <3>4, Slab DEF n
    <3> QED
      BY <3>1, <3>5 DEF unit
  <2> HIDE DEF b2, s2, p2
  <2>5. SlabOf(v, 1, p2, s2, b1, s1, p1) /\ s2 \in Nat \ {0}
    <3>1. s2 \in Nat \ {0}
      <4>1. s2 \in Nat \ {0}
        BY <2>4 DEF SlabOf
      <4> QED
        BY <2>3, <4>1
    <3>2. p2 \in Nat /\ p2 < n[1] * (s2)
      <4>1. p2 \in Nat /\ p2 < s2 * (n[1]) /\ s2 \in Nat
        BY <2>4 DEF SlabOf
      <4>2. s2 * (n[1]) = n[1] * (s2)
        BY <2>3, <4>1
      <4> QED
        BY <4>1, <4>2
    <3>3. p1 = p2 - (b1 - v.min[1]) * (s2)
      OBVIOUS
    <3> DEFINE unit == s2
    <3>4. unit \in Nat \ {0} /\ p2 < n[1] * unit /\ p1 = p2 - (b1 - v.min[1]) * unit
          /\ b1 = BlockAt(v, 1, p2, unit) /\ s1 = BlockExtent(v, 1, b1)
      BY <3>1, <3>2, <3>3
    <3> HIDE DEF unit, b1, s1, p1
    <3>5. SlabOf(v, 1, p2, unit, b1, s1, p1)
      BY <2>3, <3>2, <3>4, Slab DEF n
    <3> QED
      BY <3>1, <3>5 DEF unit
  <2> HIDE DEF b1, s1, p1
  <2>6. b1 \in Nat /\ s1 \in Nat \ {0} /\ p1 \in Nat /\ b2 \in Nat /\ s2 \in Nat \ {0} /\ p2 \in Nat
    BY <2>4, <2>5 DEF SlabOf
  <2>7. p1 < s1 * s2
    <3>1. p1 < s1 * (s2)
      BY <2>5 DEF SlabOf
    <3> QED
      BY <2>6, <3>1
  <2>8. /\ l1 \in 0 .. (s1 - 1) /\ l2 \in 0 .. (s2 - 1)
        /\ p1 = l2 * s1 + l1
    BY <2>6, <2>7, Digits2 DEF l1, l2
  <2>9. x \in Elements(v)
    <3>1. x[1] \in v.min[1] .. (v.max[1] - 1)
      <4>1. b1 + l1 \in v.min[1] .. (v.max[1] - 1)
        BY <2>3, <2>5, <2>8, InSlab
      <4> QED
        BY <2>2, <4>1
    <3>2. x[2] \in v.min[2] .. (v.max[2] - 1)
      <4>1. b2 + l2 \in v.min[2] .. (v.max[2] - 1)
        BY <2>3, <2>4, <2>8, InSlab
      <4> QED
        BY <2>2, <4>1
    <3>3. DOMAIN x = 1 .. 2 /\ x = [d \in DOMAIN x |-> x[d]]
      BY <2>2
    <3>4. \A d \in 1 .. Dim(v) : x[d] \in v.min[d] .. (v.max[d] - 1)
      <4>1. \A d \in 1 .. Dim(v) : d = 1 \/ d = 2
        BY <1>4
      <4> QED
        BY <4>1, <3>1, <3>2
    <3> QED
      BY <1>4, <3>3, <3>4, TupleElement
  <2>10. Pos(v, x)[1] = b1 - v.min[1] /\ Siz(v, x)[1] = s1 /\ Loc(v, x)[1] = l1
    <3>1. x[1] = b1 + l1
      BY <2>2
    <3> QED
      BY <2>3, <2>5, <2>8, <2>9, <3>1, InSlab
  <2>11. Pos(v, x)[2] = b2 - v.min[2] /\ Siz(v, x)[2] = s2 /\ Loc(v, x)[2] = l2
    <3>1. x[2] = b2 + l2
      BY <2>2
    <3> QED
      BY <2>3, <2>4, <2>8, <2>9, <3>1, InSlab
  <2>12. BlockRank(v, x) = p
    <3>1. /\ Ext(v)[3] = 1 /\ Siz(v, x)[3] = 1 /\ Pos(v, x)[3] = 0 /\ Loc(v, x)[3] = 0
          /\ Ext(v)[4] = 1 /\ Siz(v, x)[4] = 1 /\ Pos(v, x)[4] = 0 /\ Loc(v, x)[4] = 0
      BY <1>4, <2>9, Padding
    <3> DEFINE e == Ext(v)
               s == Siz(v, x)
               c == Pos(v, x)
               l == Loc(v, x)
    <3>2. BlockRank(v, x) = c[4] * (e[1] * e[2] * e[3]) + (c[3] * (e[1] * e[2] * s[4])
                            + (c[2] * (e[1] * s[3] * s[4]) + (c[1] * (s[2] * s[3] * s[4])
                            + (l[4] * (s[1] * s[2] * s[3]) + (l[3] * (s[1] * s[2])
                            + (l[2] * s[1] + l[1]))))))
      BY <2>9, RankForms, Zenon
    <3> HIDE DEF e, s, c, l
    <3>3. /\ e[1] = n[1] /\ s[1] = s1 /\ c[1] = b1 - v.min[1] /\ l[1] = l1 /\ c[1] \in Nat
          /\ e[2] = n[2] /\ s[2] = s2 /\ c[2] = b2 - v.min[2] /\ l[2] = l2 /\ c[2] \in Nat
      <4>1. c[1] = b1 - v.min[1] /\ v.min[1] <= b1
        BY <2>10, <2>5 DEF SlabOf, c
      <4>2. c[2] = b2 - v.min[2] /\ v.min[2] <= b2
        BY <2>11, <2>4 DEF SlabOf, c
      <4> QED
        BY <2>3, <2>10, <2>11, <2>6, <4>1, <4>2 DEF e, s, l
    <3>4. /\ e[3] = 1 /\ s[3] = 1 /\ c[3] = 0 /\ l[3] = 0
          /\ e[4] = 1 /\ s[4] = 1 /\ c[4] = 0 /\ l[4] = 0
      BY <3>1 DEF e, s, c, l
    <3>5. /\ p = c[2] * (n[1]) + p2
          /\ p2 = c[1] * (s2) + p1
      BY <3>3, <2>4, <2>5 DEF SlabOf
    <3>6. c[1] * (s2) \in Nat /\ c[2] * (n[1]) \in Nat
      BY <2>3, <3>3, <2>6
    <3>7. l1 \in Nat /\ l2 \in Nat
      BY <2>6, <2>8
    <3>8. BlockRank(v, x) = c[2] * (n[1]) + (c[1] * (s2) + (l2 * s1 + l1))
      BY <2>3, <3>2, <3>3, <3>4, <3>7, <2>6
    <3> QED
      BY <3>5, <3>6, <3>8, <2>8, <2>6
  <2> QED
    BY <1>4, <2>9, <2>12 DEF ByDim, x
<1>5. CASE Dim(v) = 3
  <2> DEFINE b3 == BlockAt(v, 3, p, n[1] * n[2])
             s3 == BlockExtent(v, 3, b3)
             p3 == p - (b3 - v.min[3]) * n[1] * n[2]
             b2 == BlockAt(v, 2, p3, n[1] * s3)
             s2 == BlockExtent(v, 2, b2)
             p2 == p3 - (b2 - v.min[2]) * n[1] * s3
             b1 == BlockAt(v, 1, p2, s2 * s3)
             s1 == BlockExtent(v, 1, b1)
             p1 == p2 - (b1 - v.min[1]) * s2 * s3
             l1 == p1 % s1
             l2 == (p1 \div s1) % s2
             l3 == p1 \div (s1 * s2)
             x == iterator3_index(v, p)
  <2>1. Size(v) = n[1] * n[2] * n[3] /\ p < n[1] * n[2] * n[3] /\ p # n[1] * n[2] * n[3]
    BY <1>2, <1>5 DEF Size, ByDim
  <2>2. x = <<b1 + l1, b2 + l2, b3 + l3>>
    BY <2>1, Zenon DEF iterator3_index
  <2>3. /\ 1 \in 1 .. Dim(v) /\ v.min[1] \in Nat /\ n[1] \in Nat \ {0} /\ Ext(v)[1] = n[1]
        /\ 2 \in 1 .. Dim(v) /\ v.min[2] \in Nat /\ n[2] \in Nat \ {0} /\ Ext(v)[2] = n[2]
        /\ 3 \in 1 .. Dim(v) /\ v.min[3] \in Nat /\ n[3] \in Nat \ {0} /\ Ext(v)[3] = n[3]
    BY <1>1, <1>5
  <2> HIDE DEF n, x, l1, l2, l3
  <2>4. SlabOf(v, 3, p, n[1] * n[2], b3, s3, p3) /\ n[1] * n[2] \in Nat \ {0}
    <3>1. n[1] * n[2] \in Nat \ {0}
      BY <2>3, ProductType
    <3>2. p \in Nat /\ p < n[3] * (n[1] * n[2])
      BY <1>2, <2>1, <2>3
    <3>3. p3 = p - (b3 - v.min[3]) * (n[1] * n[2])
      <4>1. b3 \in Int
        <5>1. n[1] * n[2] \in Nat \ {0} /\ p \in Nat /\ p < n[3] * (n[1] * n[2])
          BY <3>1, <3>2
        <5> DEFINE unit == n[1] * n[2]
                   r == p
        <5>2. unit \in Nat \ {0} /\ r \in Nat /\ r < Extent(v)[3] * unit /\ b3 = BlockAt(v, 3, r, unit)
          BY <5>1, Zenon DEF n
        <5> HIDE DEF unit, r, b3
        <5>3. BlockAt(v, 3, r, unit) \in Nat
          BY <2>3, <5>2, BlockAtType
        <5> QED
          BY <5>2, <5>3
      <4> DEFINE i == b3 - v.min[3]
      <4>2. i \in Int
        BY <2>3, <4>1
      <4> HIDE DEF i
      <4>3. i * n[1] * n[2] = i * (n[1] * n[2])
        BY <2>3, <4>2
      <4> QED
        BY <4>3 DEF i
    <3> DEFINE unit == n[1] * n[2]
    <3>4. unit \in Nat \ {0} /\ p < n[3] * unit /\ p3 = p - (b3 - v.min[3]) * unit
          /\ b3 = BlockAt(v, 3, p, unit) /\ s3 = BlockExtent(v, 3, b3)
      BY <3>1, <3>2, <3>3
    <3> HIDE DEF unit, b3, s3, p3
    <3>5. SlabOf(v, 3, p, unit, b3, s3, p3)
      BY <2>3, <3>2, <3>4, Slab DEF n
    <3> QED
      BY <3>1, <3>5 DEF unit
  <2> HIDE DEF b3, s3, p3
  <2>5. SlabOf(v, 2, p3, n[1] * s3, b2, s2, p2) /\ n[1] * s3 \in Nat \ {0}
    <3>1. n[1] * s3 \in Nat \ {0}
      <4>1. s3 \in Nat \ {0}
        BY <2>4 DEF SlabOf
      <4>2. n[1] * s3 \in Nat \ {0}
        BY <2>3, <4>1, ProductType
      <4> QED
        BY <2>3, <4>1, <4>2, ProductType
    <3>2. p3 \in Nat /\ p3 < n[2] * (n[1] * s3)
      <4>1. p3 \in Nat /\ p3 < s3 * (n[1] * n[2]) /\ s3 \in Nat
        BY <2>4 DEF SlabOf
      <4>2. s3 * (n[1] * n[2]) = n[2] * (n[1] * s3)
        BY <2>3, <4>1
      <4> QED
        BY <4>1, <4>2
    <3>3. p2 = p3 - (b2 - v.min[2]) * (n[1] * s3)
      <4>1. b2 \in Int
        <5>1. n[1] * s3 \in Nat \ {0} /\ p3 \in Nat /\ p3 < n[2] * (n[1] * s3)
          BY <3>1, <3>2
        <5> DEFINE unit == n[1] * s3
                   r == p3
        <5>2. unit \in Nat \ {0} /\ r \in Nat /\ r < Extent(v)[2] * unit /\ b2 = BlockAt(v, 2, r, unit)
          BY <5>1, Zenon DEF n
        <5> HIDE DEF unit, r, b2
        <5>3. BlockAt(v, 2, r, unit) \in Nat
          BY <2>3, <5>2, BlockAtType
        <5> QED
          BY <5>2, <5>3
      <4> DEFINE i == b2 - v.min[2]
      <4>2. i \in Int
        BY <2>3, <4>1
      <4>4. s3 \in Nat
        BY <2>4 DEF SlabOf
      <4> HIDE DEF i
      <4>3. i * n[1] * s3 = i * (n[1] * s3)
        BY <2>3, <4>2, <4>4
      <4> QED
        BY <4>3 DEF i
    <3> DEFINE unit == n[1] * s3
    <3>4. unit \in Nat \ {0} /\ p3 < n[2] * unit /\ p2 = p3 - (b2 - v.min[2]) * unit
          /\ b2 = BlockAt(v, 2, p3, unit) /\ s2 = BlockExtent(v, 2, b2)
      BY <3>1, <3>2, <3>3
    <3> HIDE DEF unit, b2, s2, p2
    <3>5. SlabOf(v, 2, p3, unit, b2, s2, p2)
      BY <2>3, <3>2, <3>4, Slab DEF n
    <3> QED
      BY <3>1, <3>5 DEF unit
  <2> HIDE DEF b2, s2, p2
  <2>6. SlabOf(v, 1, p2, s2 * s3, b1, s1, p1) /\ s2 * s3 \in Nat \ {0}
    <3>1. s2 * s3 \in Nat \ {0}
      <4>1. s2 \in Nat \ {0} /\ s3 \in Nat \ {0}
        BY <2>4, <2>5 DEF SlabOf
      <4>2. s2 * s3 \in Nat \ {0}
        BY <2>3, <4>1, ProductType
      <4> QED
        BY <2>3, <4>1, <4>2, ProductType
    <3>2. p2 \in Nat /\ p2 < n[1] * (s2 * s3)
      <4>1. p2 \in Nat /\ p2 < s2 * (n[1] * s3) /\ s2 \in Nat /\ s3 \in Nat
        BY <2>4, <2>5 DEF SlabOf
      <4>2. s2 * (n[1] * s3) = n[1] * (s2 * s3)
        BY <2>3, <4>1
      <4> QED
        BY <4>1, <4>2
    <3>3. p1 = p2 - (b1 - v.min[1]) * (s2 * s3)
      <4>1. b1 \in Int
        <5>1. s2 * s3 \in Nat \ {0} /\ p2 \in Nat /\ p2 < n[1] * (s2 * s3)
          BY <3>1, <3>2
        <5> DEFINE unit == s2 * s3
                   r == p2
        <5>2. unit \in Nat \ {0} /\ r \in Nat /\ r < Extent(v)[1] * unit /\ b1 = BlockAt(v, 1, r, unit)
          BY <5>1, Zenon DEF n
        <5> HIDE DEF unit, r, b1
        <5>3. BlockAt(v, 1, r, unit) \in Nat
          BY <2>3, <5>2, BlockAtType
        <5> QED
          BY <5>2, <5>3
      <4> DEFINE i == b1 - v.min[1]
      <4>2. i \in Int
        BY <2>3, <4>1
      <4>4. s2 \in Nat /\ s3 \in Nat
        BY <2>4, <2>5 DEF SlabOf
      <4> HIDE DEF i
      <4>3. i * s2 * s3 = i * (s2 * s3)
        BY <2>3, <4>2, <4>4
      <4> QED
        BY <4>3 DEF i
    <3> DEFINE unit == s2 * s3
    <3>4. unit \in Nat \ {0} /\ p2 < n[1] * unit /\ p1 = p2 - (b1 - v.min[1]) * unit
          /\ b1 = BlockAt(v, 1, p2, unit) /\ s1 = BlockExtent(v, 1, b1)
      BY <3>1, <3>2, <3>3
    <3> HIDE DEF unit, b1, s1, p1
    <3>5. SlabOf(v, 1, p2, unit, b1, s1, p1)
      BY <2>3, <3>2, <3>4, Slab DEF n
    <3> QED
      BY <3>1, <3>5 DEF unit
  <2> HIDE DEF b1, s1, p1
  <2>7. b1 \in Nat /\ s1 \in Nat \ {0} /\ p1 \in Nat /\ b2 \in Nat /\ s2 \in Nat \ {0} /\ p2 \in Nat
        /\ b3 \in Nat /\ s3 \in Nat \ {0} /\ p3 \in Nat
    BY <2>4, <2>5, <2>6 DEF SlabOf
  <2>8. p1 < s1 * s2 * s3
    <3>1. p1 < s1 * (s2 * s3)
      BY <2>6 DEF SlabOf
    <3> QED
      BY <2>7, <3>1
  <2>9. /\ l1 \in 0 .. (s1 - 1) /\ l2 \in 0 .. (s2 - 1) /\ l3 \in 0 .. (s3 - 1)
        /\ p1 = l3 * (s1 * s2) + (l2 * s1 + l1)
    BY <2>7, <2>8, Digits3 DEF l1, l2, l3
  <2>10. x \in Elements(v)
    <3>1. x[1] \in v.min[1] .. (v.max[1] - 1)
      <4>1. b1 + l1 \in v.min[1] .. (v.max[1] - 1)
        BY <2>3, <2>6, <2>9, InSlab
      <4> QED
        BY <2>2, <4>1
    <3>2. x[2] \in v.min[2] .. (v.max[2] - 1)
      <4>1. b2 + l2 \in v.min[2] .. (v.max[2] - 1)
        BY <2>3, <2>5, <2>9, InSlab
      <4> QED
        BY <2>2, <4>1
    <3>3. x[3] \in v.min[3] .. (v.max[3] - 1)
      <4>1. b3 + l3 \in v.min[3] .. (v.max[3] - 1)
        BY <2>3, <2>4, <2>9, InSlab
      <4> QED
        BY <2>2, <4>1
    <3>4. DOMAIN x = 1 .. 3 /\ x = [d \in DOMAIN x |-> x[d]]
      BY <2>2
    <3>5. \A d \in 1 .. Dim(v) : x[d] \in v.min[d] .. (v.max[d] - 1)
      <4>1. \A d \in 1 .. Dim(v) : d = 1 \/ d = 2 \/ d = 3
        BY <1>5
      <4> QED
        BY <4>1, <3>1, <3>2, <3>3
    <3> QED
      BY <1>5, <3>4, <3>5, TupleElement
  <2>11. Pos(v, x)[1] = b1 - v.min[1] /\ Siz(v, x)[1] = s1 /\ Loc(v, x)[1] = l1
    <3>1. x[1] = b1 + l1
      BY <2>2
    <3> QED
      BY <2>3, <2>6, <2>9, <2>10, <3>1, InSlab
  <2>12. Pos(v, x)[2] = b2 - v.min[2] /\ Siz(v, x)[2] = s2 /\ Loc(v, x)[2] = l2
    <3>1. x[2] = b2 + l2
      BY <2>2
    <3> QED
      BY <2>3, <2>5, <2>9, <2>10, <3>1, InSlab
  <2>13. Pos(v, x)[3] = b3 - v.min[3] /\ Siz(v, x)[3] = s3 /\ Loc(v, x)[3] = l3
    <3>1. x[3] = b3 + l3
      BY <2>2
    <3> QED
      BY <2>3, <2>4, <2>9, <2>10, <3>1, InSlab
  <2>14. BlockRank(v, x) = p
    <3>1. /\ Ext(v)[4] = 1 /\ Siz(v, x)[4] = 1 /\ Pos(v, x)[4] = 0 /\ Loc(v, x)[4] = 0
      BY <1>5, <2>10, Padding
    <3> DEFINE e == Ext(v)
               s == Siz(v, x)
               c == Pos(v, x)
               l == Loc(v, x)
    <3>2. BlockRank(v, x) = c[4] * (e[1] * e[2] * e[3]) + (c[3] * (e[1] * e[2] * s[4])
                            + (c[2] * (e[1] * s[3] * s[4]) + (c[1] * (s[2] * s[3] * s[4])
                            + (l[4] * (s[1] * s[2] * s[3]) + (l[3] * (s[1] * s[2])
                            + (l[2] * s[1] + l[1]))))))
      BY <2>10, RankForms, Zenon
    <3> HIDE DEF e, s, c, l
    <3>3. /\ e[1] = n[1] /\ s[1] = s1 /\ c[1] = b1 - v.min[1] /\ l[1] = l1 /\ c[1] \in Nat
          /\ e[2] = n[2] /\ s[2] = s2 /\ c[2] = b2 - v.min[2] /\ l[2] = l2 /\ c[2] \in Nat
          /\ e[3] = n[3] /\ s[3] = s3 /\ c[3] = b3 - v.min[3] /\ l[3] = l3 /\ c[3] \in Nat
      <4>1. c[1] = b1 - v.min[1] /\ v.min[1] <= b1
        BY <2>11, <2>6 DEF SlabOf, c
      <4>2. c[2] = b2 - v.min[2] /\ v.min[2] <= b2
        BY <2>12, <2>5 DEF SlabOf, c
      <4>3. c[3] = b3 - v.min[3] /\ v.min[3] <= b3
        BY <2>13, <2>4 DEF SlabOf, c
      <4> QED
        BY <2>3, <2>11, <2>12, <2>13, <2>7, <4>1, <4>2, <4>3 DEF e, s, l
    <3>4. /\ e[4] = 1 /\ s[4] = 1 /\ c[4] = 0 /\ l[4] = 0
      BY <3>1 DEF e, s, c, l
    <3>5. /\ p = c[3] * (n[1] * n[2]) + p3
          /\ p3 = c[2] * (n[1] * s3) + p2
          /\ p2 = c[1] * (s2 * s3) + p1
      BY <3>3, <2>4, <2>5, <2>6 DEF SlabOf
    <3>6. c[1] * (s2 * s3) \in Nat /\ c[2] * (n[1] * s3) \in Nat /\ c[3] * (n[1] * n[2]) \in Nat
      BY <2>3, <3>3, <2>7
    <3>7. l1 \in Nat /\ l2 \in Nat /\ l3 \in Nat
      BY <2>7, <2>9
    <3>8. BlockRank(v, x) = c[3] * (n[1] * n[2])
              + (c[2] * (n[1] * s3) + (c[1] * (s2 * s3) + (l3 * (s1 * s2) + (l2 * s1 + l1))))
      BY <2>3, <3>2, <3>3, <3>4, <3>7, <2>7
    <3> QED
      BY <3>5, <3>6, <3>8, <2>9, <2>7
  <2> QED
    BY <1>5, <2>10, <2>14 DEF ByDim, x
<1>6. CASE Dim(v) = 4
  <2> DEFINE b4 == BlockAt(v, 4, p, n[1] * n[2] * n[3])
             s4 == BlockExtent(v, 4, b4)
             p4 == p - (b4 - v.min[4]) * n[1] * n[2] * n[3]
             b3 == BlockAt(v, 3, p4, n[1] * n[2] * s4)
             s3 == BlockExtent(v, 3, b3)
             p3 == p4 - (b3 - v.min[3]) * n[1] * n[2] * s4
             b2 == BlockAt(v, 2, p3, n[1] * s3 * s4)
             s2 == BlockExtent(v, 2, b2)
             p2 == p3 - (b2 - v.min[2]) * n[1] * s3 * s4
             b1 == BlockAt(v, 1, p2, s2 * s3 * s4)
             s1 == BlockExtent(v, 1, b1)
             p1 == p2 - (b1 - v.min[1]) * s2 * s3 * s4
             l1 == p1 % s1
             l2 == (p1 \div s1) % s2
             l3 == (p1 \div (s1 * s2)) % s3
             l4 == p1 \div (s1 * s2 * s3)
             x == iterator4_index(v, p)
  <2>1. Size(v) = n[1] * n[2] * n[3] * n[4] /\ p < n[1] * n[2] * n[3] * n[4]
        /\ p # n[1] * n[2] * n[3] * n[4]
    BY <1>2, <1>6 DEF Size, ByDim
  <2>2. x = <<b1 + l1, b2 + l2, b3 + l3, b4 + l4>>
    BY <2>1, Zenon DEF iterator4_index
  <2>3. /\ 1 \in 1 .. Dim(v) /\ v.min[1] \in Nat /\ n[1] \in Nat \ {0} /\ Ext(v)[1] = n[1]
        /\ 2 \in 1 .. Dim(v) /\ v.min[2] \in Nat /\ n[2] \in Nat \ {0} /\ Ext(v)[2] = n[2]
        /\ 3 \in 1 .. Dim(v) /\ v.min[3] \in Nat /\ n[3] \in Nat \ {0} /\ Ext(v)[3] = n[3]
        /\ 4 \in 1 .. Dim(v) /\ v.min[4] \in Nat /\ n[4] \in Nat \ {0} /\ Ext(v)[4] = n[4]
    BY <1>1, <1>6
  <2> HIDE DEF n, x, l1, l2, l3, l4
  <2>4. SlabOf(v, 4, p, n[1] * n[2] * n[3], b4, s4, p4) /\ n[1] * n[2] * n[3] \in Nat \ {0}
    <3>1. n[1] * n[2] * n[3] \in Nat \ {0}
      <4>2. n[1] * n[2] \in Nat \ {0}
        BY <2>3, ProductType
      <4> QED
        BY <2>3, <4>2, ProductType
    <3>2. p \in Nat /\ p < n[4] * (n[1] * n[2] * n[3])
      BY <1>2, <2>1, <2>3
    <3>3. p4 = p - (b4 - v.min[4]) * (n[1] * n[2] * n[3])
      <4>1. b4 \in Int
        <5>1. n[1] * n[2] * n[3] \in Nat \ {0} /\ p \in Nat /\ p < n[4] * (n[1] * n[2] * n[3])
          BY <3>1, <3>2
        <5> DEFINE unit == n[1] * n[2] * n[3]
                   r == p
        <5>2. unit \in Nat \ {0} /\ r \in Nat /\ r < Extent(v)[4] * unit /\ b4 = BlockAt(v, 4, r, unit)
          BY <5>1, Zenon DEF n
        <5> HIDE DEF unit, r, b4
        <5>3. BlockAt(v, 4, r, unit) \in Nat
          BY <2>3, <5>2, BlockAtType
        <5> QED
          BY <5>2, <5>3
      <4> DEFINE i == b4 - v.min[4]
      <4>2. i \in Int
        BY <2>3, <4>1
      <4> HIDE DEF i
      <4>3. i * n[1] * n[2] * n[3] = i * (n[1] * n[2] * n[3])
        BY <2>3, <4>2
      <4> QED
        BY <4>3 DEF i
    <3> DEFINE unit == n[1] * n[2] * n[3]
    <3>4. unit \in Nat \ {0} /\ p < n[4] * unit /\ p4 = p - (b4 - v.min[4]) * unit
          /\ b4 = BlockAt(v, 4, p, unit) /\ s4 = BlockExtent(v, 4, b4)
      BY <3>1, <3>2, <3>3
    <3> HIDE DEF unit, b4, s4, p4
    <3>5. SlabOf(v, 4, p, unit, b4, s4, p4)
      BY <2>3, <3>2, <3>4, Slab DEF n
    <3> QED
      BY <3>1, <3>5 DEF unit
  <2> HIDE DEF b4, s4, p4
  <2>5. SlabOf(v, 3, p4, n[1] * n[2] * s4, b3, s3, p3) /\ n[1] * n[2] * s4 \in Nat \ {0}
    <3>1. n[1] * n[2] * s4 \in Nat \ {0}
      <4>1. s4 \in Nat \ {0}
        BY <2>4 DEF SlabOf
      <4>2. n[1] * n[2] \in Nat \ {0}
        BY <2>3, <4>1, ProductType
      <4> QED
        BY <2>3, <4>1, <4>2, ProductType
    <3>2. p4 \in Nat /\ p4 < n[3] * (n[1] * n[2] * s4)
      <4>1. p4 \in Nat /\ p4 < s4 * (n[1] * n[2] * n[3]) /\ s4 \in Nat
        BY <2>4 DEF SlabOf
      <4>2. s4 * (n[1] * n[2] * n[3]) = n[3] * (n[1] * n[2] * s4)
        BY <2>3, <4>1
      <4> QED
        BY <4>1, <4>2
    <3>3. p3 = p4 - (b3 - v.min[3]) * (n[1] * n[2] * s4)
      <4>1. b3 \in Int
        <5>1. n[1] * n[2] * s4 \in Nat \ {0} /\ p4 \in Nat /\ p4 < n[3] * (n[1] * n[2] * s4)
          BY <3>1, <3>2
        <5> DEFINE unit == n[1] * n[2] * s4
                   r == p4
        <5>2. unit \in Nat \ {0} /\ r \in Nat /\ r < Extent(v)[3] * unit /\ b3 = BlockAt(v, 3, r, unit)
          BY <5>1, Zenon DEF n
        <5> HIDE DEF unit, r, b3
        <5>3. BlockAt(v, 3, r, unit) \in Nat
          BY <2>3, <5>2, BlockAtType
        <5> QED
          BY <5>2, <5>3
      <4> DEFINE i == b3 - v.min[3]
      <4>2. i \in Int
        BY <2>3, <4>1
      <4>4. s4 \in Nat
        BY <2>4 DEF SlabOf
      <4> HIDE DEF i
      <4>3. i * n[1] * n[2] * s4 = i * (n[1] * n[2] * s4)
        BY <2>3, <4>2, <4>4
      <4> QED
        BY <4>3 DEF i
    <3> DEFINE unit == n[1] * n[2] * s4
    <3>4. unit \in Nat \ {0} /\ p4 < n[3] * unit /\ p3 = p4 - (b3 - v.min[3]) * unit
          /\ b3 = BlockAt(v, 3, p4, unit) /\ s3 = BlockExtent(v, 3, b3)
      BY <3>1, <3>2, <3>3
    <3> HIDE DEF unit, b3, s3, p3
    <3>5. SlabOf(v, 3, p4, unit, b3, s3, p3)
      BY <2>3, <3>2, <3>4, Slab DEF n
    <3> QED
      BY <3>1, <3>5 DEF unit
  <2> HIDE DEF b3, s3, p3
  <2>6. SlabOf(v, 2, p3, n[1] * s3 * s4, b2, s2, p2) /\ n[1] * s3 * s4 \in Nat \ {0}
    <3>1. n[1] * s3 * s4 \in Nat \ {0}
      <4>1. s3 \in Nat \ {0} /\ s4 \in Nat \ {0}
        BY <2>4, <2>5 DEF SlabOf
      <4>2. n[1] * s3 \in Nat \ {0}
        BY <2>3, <4>1, ProductType
      <4> QED
        BY <2>3, <4>1, <4>2, ProductType
    <3>2. p3 \in Nat /\ p3 < n[2] * (n[1] * s3 * s4)
      <4>1. p3 \in Nat /\ p3 < s3 * (n[1] * n[2] * s4) /\ s3 \in Nat /\ s4 \in Nat
        BY <2>4, <2>5 DEF SlabOf
      <4>2. s3 * (n[1] * n[2] * s4) = n[2] * (n[1] * s3 * s4)
        BY <2>3, <4>1
      <4> QED
        BY <4>1, <4>2
    <3>3. p2 = p3 - (b2 - v.min[2]) * (n[1] * s3 * s4)
      <4>1. b2 \in Int
        <5>1. n[1] * s3 * s4 \in Nat \ {0} /\ p3 \in Nat /\ p3 < n[2] * (n[1] * s3 * s4)
          BY <3>1, <3>2
        <5> DEFINE unit == n[1] * s3 * s4
                   r == p3
        <5>2. unit \in Nat \ {0} /\ r \in Nat /\ r < Extent(v)[2] * unit /\ b2 = BlockAt(v, 2, r, unit)
          BY <5>1, Zenon DEF n
        <5> HIDE DEF unit, r, b2
        <5>3. BlockAt(v, 2, r, unit) \in Nat
          BY <2>3, <5>2, BlockAtType
        <5> QED
          BY <5>2, <5>3
      <4> DEFINE i == b2 - v.min[2]
      <4>2. i \in Int
        BY <2>3, <4>1
      <4>4. s3 \in Nat /\ s4 \in Nat
        BY <2>4, <2>5 DEF SlabOf
      <4> HIDE DEF i
      <4>3. i * n[1] * s3 * s4 = i * (n[1] * s3 * s4)
        BY <2>3, <4>2, <4>4
      <4> QED
        BY <4>3 DEF i
    <3> DEFINE unit == n[1] * s3 * s4
    <3>4. unit \in Nat \ {0} /\ p3 < n[2] * unit /\ p2 = p3 - (b2 - v.min[2]) * unit
          /\ b2 = BlockAt(v, 2, p3, unit) /\ s2 = BlockExtent(v, 2, b2)
      BY <3>1, <3>2, <3>3
    <3> HIDE DEF unit, b2, s2, p2
    <3>5. SlabOf(v, 2, p3, unit, b2, s2, p2)
      BY <2>3, <3>2, <3>4, Slab DEF n
    <3> QED
      BY <3>1, <3>5 DEF unit
  <2> HIDE DEF b2, s2, p2
  <2>7. SlabOf(v, 1, p2, s2 * s3 * s4, b1, s1, p1) /\ s2 * s3 * s4 \in Nat \ {0}
    <3>1. s2 * s3 * s4 \in Nat \ {0}
      <4>1. s2 \in Nat \ {0} /\ s3 \in Nat \ {0} /\ s4 \in Nat \ {0}
        BY <2>4, <2>5, <2>6 DEF SlabOf
      <4>2. s2 * s3 \in Nat \ {0}
        BY <2>3, <4>1, ProductType
      <4> QED
        BY <2>3, <4>1, <4>2, ProductType
    <3>2. p2 \in Nat /\ p2 < n[1] * (s2 * s3 * s4)
      <4>1. p2 \in Nat /\ p2 < s2 * (n[1] * s3 * s4) /\ s2 \in Nat /\ s3 \in Nat /\ s4 \in Nat
        BY <2>4, <2>5, <2>6 DEF SlabOf
      <4>2. s2 * (n[1] * s3 * s4) = n[1] * (s2 * s3 * s4)
        BY <2>3, <4>1
      <4> QED
        BY <4>1, <4>2
    <3>3. p1 = p2 - (b1 - v.min[1]) * (s2 * s3 * s4)
      <4>1. b1 \in Int
        <5>1. s2 * s3 * s4 \in Nat \ {0} /\ p2 \in Nat /\ p2 < n[1] * (s2 * s3 * s4)
          BY <3>1, <3>2
        <5> DEFINE unit == s2 * s3 * s4
                   r == p2
        <5>2. unit \in Nat \ {0} /\ r \in Nat /\ r < Extent(v)[1] * unit /\ b1 = BlockAt(v, 1, r, unit)
          BY <5>1, Zenon DEF n
        <5> HIDE DEF unit, r, b1
        <5>3. BlockAt(v, 1, r, unit) \in Nat
          BY <2>3, <5>2, BlockAtType
        <5> QED
          BY <5>2, <5>3
      <4> DEFINE i == b1 - v.min[1]
      <4>2. i \in Int
        BY <2>3, <4>1
      <4>4. s2 \in Nat /\ s3 \in Nat /\ s4 \in Nat
        BY <2>4, <2>5, <2>6 DEF SlabOf
      <4> HIDE DEF i
      <4>3. i * s2 * s3 * s4 = i * (s2 * s3 * s4)
        BY <2>3, <4>2, <4>4
      <4> QED
        BY <4>3 DEF i
    <3> DEFINE unit == s2 * s3 * s4
    <3>4. unit \in Nat \ {0} /\ p2 < n[1] * unit /\ p1 = p2 - (b1 - v.min[1]) * unit
          /\ b1 = BlockAt(v, 1, p2, unit) /\ s1 = BlockExtent(v, 1, b1)
      BY <3>1, <3>2, <3>3
    <3> HIDE DEF unit, b1, s1, p1
    <3>5. SlabOf(v, 1, p2, unit, b1, s1, p1)
      BY <2>3, <3>2, <3>4, Slab DEF n
    <3> QED
      BY <3>1, <3>5 DEF unit
  <2> HIDE DEF b1, s1, p1
  <2>8. b1 \in Nat /\ s1 \in Nat \ {0} /\ p1 \in Nat /\ b2 \in Nat /\ s2 \in Nat \ {0} /\ p2 \in Nat
        /\ b3 \in Nat /\ s3 \in Nat \ {0} /\ p3 \in Nat /\ b4 \in Nat /\ s4 \in Nat \ {0} /\ p4 \in Nat
    BY <2>4, <2>5, <2>6, <2>7 DEF SlabOf
  <2>9. p1 < s1 * s2 * s3 * s4
    <3>1. p1 < s1 * (s2 * s3 * s4)
      BY <2>7 DEF SlabOf
    <3> QED
      BY <2>8, <3>1
  <2>10. DigitsOf(p1, s1, s2, s3, s4)
    BY <2>8, <2>9, Digits4
  <2>11. /\ l1 \in 0 .. (s1 - 1) /\ l2 \in 0 .. (s2 - 1) /\ l3 \in 0 .. (s3 - 1) /\ l4 \in 0 .. (s4 - 1)
        /\ p1 = l4 * (s1 * s2 * s3) + (l3 * (s1 * s2) + (l2 * s1 + l1))
    BY <2>10, Zenon DEF DigitsOf, l1, l2, l3, l4
  <2>12. x \in Elements(v)
    <3>1. x[1] \in v.min[1] .. (v.max[1] - 1)
      <4>1. b1 + l1 \in v.min[1] .. (v.max[1] - 1)
        BY <2>3, <2>7, <2>11, InSlab
      <4> QED
        BY <2>2, <4>1
    <3>2. x[2] \in v.min[2] .. (v.max[2] - 1)
      <4>1. b2 + l2 \in v.min[2] .. (v.max[2] - 1)
        BY <2>3, <2>6, <2>11, InSlab
      <4> QED
        BY <2>2, <4>1
    <3>3. x[3] \in v.min[3] .. (v.max[3] - 1)
      <4>1. b3 + l3 \in v.min[3] .. (v.max[3] - 1)
        BY <2>3, <2>5, <2>11, InSlab
      <4> QED
        BY <2>2, <4>1
    <3>4. x[4] \in v.min[4] .. (v.max[4] - 1)
      <4>1. b4 + l4 \in v.min[4] .. (v.max[4] - 1)
        BY <2>3, <2>4, <2>11, InSlab
      <4> QED
        BY <2>2, <4>1
    <3>5. DOMAIN x = 1 .. 4 /\ x = [d \in DOMAIN x |-> x[d]]
      BY <2>2
    <3>6. \A d \in 1 .. Dim(v) : x[d] \in v.min[d] .. (v.max[d] - 1)
      <4>1. \A d \in 1 .. Dim(v) : d = 1 \/ d = 2 \/ d = 3 \/ d = 4
        BY <1>6
      <4> QED
        BY <4>1, <3>1, <3>2, <3>3, <3>4
    <3> QED
      BY <1>6, <3>5, <3>6, TupleElement
  <2>13. Pos(v, x)[1] = b1 - v.min[1] /\ Siz(v, x)[1] = s1 /\ Loc(v, x)[1] = l1
    <3>1. x[1] = b1 + l1
      BY <2>2
    <3> QED
      BY <2>3, <2>7, <2>11, <2>12, <3>1, InSlab
  <2>14. Pos(v, x)[2] = b2 - v.min[2] /\ Siz(v, x)[2] = s2 /\ Loc(v, x)[2] = l2
    <3>1. x[2] = b2 + l2
      BY <2>2
    <3> QED
      BY <2>3, <2>6, <2>11, <2>12, <3>1, InSlab
  <2>15. Pos(v, x)[3] = b3 - v.min[3] /\ Siz(v, x)[3] = s3 /\ Loc(v, x)[3] = l3
    <3>1. x[3] = b3 + l3
      BY <2>2
    <3> QED
      BY <2>3, <2>5, <2>11, <2>12, <3>1, InSlab
  <2>16. Pos(v, x)[4] = b4 - v.min[4] /\ Siz(v, x)[4] = s4 /\ Loc(v, x)[4] = l4
    <3>1. x[4] = b4 + l4
      BY <2>2
    <3> QED
      BY <2>3, <2>4, <2>11, <2>12, <3>1, InSlab
  <2>17. BlockRank(v, x) = p
    <3> DEFINE e == Ext(v)
               s == Siz(v, x)
               c == Pos(v, x)
               l == Loc(v, x)
    <3>2. BlockRank(v, x) = c[4] * (e[1] * e[2] * e[3]) + (c[3] * (e[1] * e[2] * s[4])
                            + (c[2] * (e[1] * s[3] * s[4]) + (c[1] * (s[2] * s[3] * s[4])
                            + (l[4] * (s[1] * s[2] * s[3]) + (l[3] * (s[1] * s[2])
                            + (l[2] * s[1] + l[1]))))))
      BY <2>12, RankForms, Zenon
    <3> HIDE DEF e, s, c, l
    <3>3. /\ e[1] = n[1] /\ s[1] = s1 /\ c[1] = b1 - v.min[1] /\ l[1] = l1 /\ c[1] \in Nat
          /\ e[2] = n[2] /\ s[2] = s2 /\ c[2] = b2 - v.min[2] /\ l[2] = l2 /\ c[2] \in Nat
          /\ e[3] = n[3] /\ s[3] = s3 /\ c[3] = b3 - v.min[3] /\ l[3] = l3 /\ c[3] \in Nat
          /\ e[4] = n[4] /\ s[4] = s4 /\ c[4] = b4 - v.min[4] /\ l[4] = l4 /\ c[4] \in Nat
      <4>1. c[1] = b1 - v.min[1] /\ v.min[1] <= b1
        BY <2>13, <2>7 DEF SlabOf, c
      <4>2. c[2] = b2 - v.min[2] /\ v.min[2] <= b2
        BY <2>14, <2>6 DEF SlabOf, c
      <4>3. c[3] = b3 - v.min[3] /\ v.min[3] <= b3
        BY <2>15, <2>5 DEF SlabOf, c
      <4>4. c[4] = b4 - v.min[4] /\ v.min[4] <= b4
        BY <2>16, <2>4 DEF SlabOf, c
      <4> QED
        BY <2>3, <2>13, <2>14, <2>15, <2>16, <2>8, <4>1, <4>2, <4>3, <4>4 DEF e, s, l
    <3>5. /\ p = c[4] * (n[1] * n[2] * n[3]) + p4
          /\ p4 = c[3] * (n[1] * n[2] * s4) + p3
          /\ p3 = c[2] * (n[1] * s3 * s4) + p2
          /\ p2 = c[1] * (s2 * s3 * s4) + p1
      BY <3>3, <2>4, <2>5, <2>6, <2>7 DEF SlabOf
    <3>6. c[1] * (s2 * s3 * s4) \in Nat /\ c[2] * (n[1] * s3 * s4) \in Nat
          /\ c[3] * (n[1] * n[2] * s4) \in Nat /\ c[4] * (n[1] * n[2] * n[3]) \in Nat
      BY <2>3, <3>3, <2>8
    <3>7. l1 \in Nat /\ l2 \in Nat /\ l3 \in Nat /\ l4 \in Nat
      BY <2>8, <2>11
    <3>8. BlockRank(v, x) = c[4] * (n[1] * n[2] * n[3])
              + (c[3] * (n[1] * n[2] * s4)
                  + (c[2] * (n[1] * s3 * s4)
                      + (c[1] * (s2 * s3 * s4)
                          + (l4 * (s1 * s2 * s3) + (l3 * (s1 * s2) + (l2 * s1 + l1))))))
      BY <2>3, <3>2, <3>3, <3>7, <2>8
    <3> QED
      BY <3>5, <3>6, <3>8, <2>11, <2>8
  <2> QED
    BY <1>6, <2>12, <2>17 DEF ByDim, x
<1> QED
  BY <1>1, <1>3, <1>4, <1>5, <1>6

\* An iterator past the last element is at the end.
LEMMA BlockIndexEnd ==
  ASSUME NEW v \in Views
  PROVE  ByDim(v, iterator1_index(v, Size(v)), iterator2_index(v, Size(v)),
               iterator3_index(v, Size(v)), iterator4_index(v, Size(v))) = End(v)
<1> DEFINE n == Extent(v)
           p == Size(v)
<1>1. /\ Dim(v) \in 1 .. 4
      /\ \A d \in 1 .. Dim(v) : v.min[d] \in Nat /\ v.max[d] \in Nat
  BY ExtentFacts
<1>2. End(v) = [d \in 1 .. Dim(v) |-> IF d = Dim(v) THEN v.max[d] ELSE v.min[d]]
  BY EndFacts
<1>3. CASE Dim(v) = 1
  <2>1. iterator1_index(v, p) = pointer1_index(v, p)
    BY Zenon DEF iterator1_index, pointer1_index
  <2> HIDE DEF p
  <2>2. pointer1_index(v, p) = End(v)
    BY <1>3, RowIndexEnd DEF ByDim, p
  <2> QED
    BY <1>3, <2>1, <2>2 DEF ByDim, p
<1>4. CASE Dim(v) = 2
  <2>1. p = n[1] * n[2]
    BY <1>4 DEF Size, ByDim
  <2>2. iterator2_index(v, p) = <<v.min[1], v.max[2]>>
    BY <2>1, Zenon DEF iterator2_index
  <2>3. End(v) = <<v.min[1], v.max[2]>>
    BY <1>2, <1>4
  <2> HIDE DEF n, p
  <2> QED
    BY <1>4, <2>2, <2>3 DEF ByDim, p
<1>5. CASE Dim(v) = 3
  <2>1. p = n[1] * n[2] * n[3]
    BY <1>5 DEF Size, ByDim
  <2>2. iterator3_index(v, p) = <<v.min[1], v.min[2], v.max[3]>>
    BY <2>1, Zenon DEF iterator3_index
  <2>3. End(v) = <<v.min[1], v.min[2], v.max[3]>>
    BY <1>2, <1>5
  <2> HIDE DEF n, p
  <2> QED
    BY <1>5, <2>2, <2>3 DEF ByDim, p
<1>6. CASE Dim(v) = 4
  <2>1. p = n[1] * n[2] * n[3] * n[4]
    BY <1>6 DEF Size, ByDim
  <2>2. iterator4_index(v, p) = <<v.min[1], v.min[2], v.min[3], v.max[4]>>
    BY <2>1, Zenon DEF iterator4_index
  <2>3. End(v) = <<v.min[1], v.min[2], v.min[3], v.max[4]>>
    BY <1>2, <1>6
  <2> HIDE DEF n, p
  <2> QED
    BY <1>6, <2>2, <2>3 DEF ByDim, p
<1> QED
  BY <1>1, <1>3, <1>4, <1>5, <1>6

-----------------------------------------------------------------------------
\* The orders of elements are those of their offsets.

\* Of two different tuples, one precedes the other.
LEMMA OnePrecedes ==
  ASSUME NEW D \in 1 .. 4, NEW f, NEW g, DOMAIN f = 1 .. D, DOMAIN g = 1 .. D,
         \A d \in 1 .. D : f[d] \in Nat /\ g[d] \in Nat,
         \E d \in 1 .. D : f[d] # g[d]
  PROVE  Precedes(f, g) \/ Precedes(g, f)
<1>1. \E d \in 1 .. D : f[d] # g[d] /\ \A e \in 1 .. D : e > d => f[e] = g[e]
  <2>1. D = 1 \/ D = 2 \/ D = 3 \/ D = 4
    OBVIOUS
  <2>2. CASE D = 1
    BY <2>2
  <2>3. CASE D = 2
    BY <2>3
  <2>4. CASE D = 3
    BY <2>4
  <2>5. CASE D = 4
    BY <2>5
  <2> QED
    BY <2>1, <2>2, <2>3, <2>4, <2>5
<1>2. PICK d \in 1 .. D : f[d] # g[d] /\ \A e \in 1 .. D : e > d => f[e] = g[e]
  BY <1>1
<1>3. f[d] < g[d] \/ g[d] < f[d]
  BY <1>2
<1> QED
  BY <1>2, <1>3 DEF Precedes

\* A pointer's order.
LEMMA RowsOrdered ==
  ASSUME NEW v \in Views, NEW x \in Elements(v), NEW y \in Elements(v), Precedes(x, y)
  PROVE  RowRank(v, x) < RowRank(v, y)
<1> DEFINE n == Ext(v)
           q == Row(v, x)
           r == Row(v, y)
           z == [d \in 1 .. 4 |-> 0]
<1>1. /\ n \in [1 .. 4 -> Nat] /\ q \in [1 .. 4 -> Nat] /\ r \in [1 .. 4 -> Nat]
      /\ \A d \in 1 .. 4 : q[d] < n[d] /\ r[d] < n[d]
  BY Shape
<1>2. \E d \in 1 .. 4 : q[d] < r[d] /\ \A e \in 1 .. 4 : e > d => q[e] = r[e]
  <2>1. Dim(v) \in 1 .. 4 /\ DOMAIN x = 1 .. Dim(v)
    BY ViewFacts, IsElement
  <2>2. PICK d \in 1 .. Dim(v) : x[d] < y[d] /\ \A e \in 1 .. Dim(v) : e > d => x[e] = y[e]
    BY <2>1 DEF Precedes
  <2>3. \A e \in 1 .. Dim(v) : /\ q[e] = x[e] - v.min[e] /\ r[e] = y[e] - v.min[e]
                               /\ x[e] \in v.min[e] .. (v.max[e] - 1)
                               /\ y[e] \in v.min[e] .. (v.max[e] - 1)
                               /\ v.min[e] \in Nat /\ v.max[e] \in Nat
    BY Along
  <2>4. \A e \in 1 .. 4 : e > Dim(v) => q[e] = 0 /\ r[e] = 0
    BY Padding
  <2> HIDE DEF q, r
  <2>5. d \in 1 .. 4 /\ q[d] < r[d]
    <3>1. x[d] \in Nat /\ y[d] \in Nat /\ v.min[d] \in Nat
      BY <2>3
    <3>2. q[d] = x[d] - v.min[d] /\ r[d] = y[d] - v.min[d]
      BY <2>3
    <3>3. x[d] < y[d]
      BY <2>2
    <3> QED
      BY <2>1, <3>1, <3>2, <3>3
  <2>6. ASSUME NEW e \in 1 .. 4, e > d
        PROVE  q[e] = r[e]
    <3>1. CASE e \in 1 .. Dim(v)
      BY <2>2, <2>3, <2>6, <3>1
    <3>2. CASE e > Dim(v)
      BY <2>4, <3>2
    <3> QED
      BY <2>1, <3>1, <3>2
  <2> QED
    BY <2>5, <2>6
<1>3. z \in [1 .. 4 -> Nat] /\ \A d \in 1 .. 4 : z[d] = 0 /\ z[d] + n[d] <= n[d]
  <2> HIDE DEF n
  <2> QED
    BY <1>1
<1> HIDE DEF n, q, r, z
<1>4. Sequential(n, n, z, q) < Sequential(n, n, z, r)
  BY <1>1, <1>2, <1>3, SequentialOrder
<1>5. ASSUME NEW l \in [1 .. 4 -> Nat]
      PROVE  Sequential(n, n, z, l) = Local4(n, l)
  <2>1. n[1] \in Nat /\ n[2] \in Nat /\ n[3] \in Nat /\ n[4] \in Nat
    BY <1>1
  <2>2. z[1] = 0 /\ z[2] = 0 /\ z[3] = 0 /\ z[4] = 0
    BY <1>3
  <2>3. l[1] \in Nat /\ l[2] \in Nat /\ l[3] \in Nat /\ l[4] \in Nat
    OBVIOUS
  <2>4. Local4(n, l) \in Nat
    <3>1. Local2(n, l) \in Nat
      BY <2>1, <2>3 DEF Local2
    <3>2. Local3(n, l) \in Nat
      BY <2>1, <2>3, <3>1 DEF Local3
    <3> QED
      BY <2>1, <2>3, <3>2 DEF Local4
  <2>5. Blocks1(n, z, l) = Local4(n, l)
    BY <2>1, <2>2, <2>4 DEF Blocks1
  <2>6. Blocks2(n, n, z, l) = Local4(n, l)
    BY <2>1, <2>2, <2>4, <2>5 DEF Blocks2
  <2>7. Blocks3(n, n, z, l) = Local4(n, l)
    BY <2>1, <2>2, <2>4, <2>6 DEF Blocks3
  <2> QED
    BY <2>1, <2>2, <2>4, <2>7 DEF Sequential
<1>6. Sequential(n, n, z, q) = Local4(n, q) /\ Sequential(n, n, z, r) = Local4(n, r)
  BY <1>1, <1>5
<1> QED
  BY <1>4, <1>6 DEF RowRank, n, q, r

\* An iterator's order.
LEMMA BlockwiseOrdered ==
  ASSUME NEW v \in Views, NEW x \in Elements(v), NEW y \in Elements(v), BlockOrder(x, y)
  PROVE  BlockRank(v, x) < BlockRank(v, y)
<1> DEFINE n == Ext(v)
           s == Siz(v, x)
           c == Pos(v, x)
           l == Loc(v, x)
           t == Siz(v, y)
           b == Pos(v, y)
           k == Loc(v, y)
<1>1. /\ n \in [1 .. 4 -> Nat] /\ s \in [1 .. 4 -> Nat] /\ c \in [1 .. 4 -> Nat]
      /\ l \in [1 .. 4 -> Nat] /\ t \in [1 .. 4 -> Nat] /\ b \in [1 .. 4 -> Nat]
      /\ k \in [1 .. 4 -> Nat]
      /\ \A d \in 1 .. 4 : l[d] < s[d] /\ c[d] + s[d] <= n[d]
      /\ \A d \in 1 .. 4 : k[d] < t[d] /\ b[d] + t[d] <= n[d]
  BY Shape
<1>2. Dim(v) \in 1 .. 4 /\ DOMAIN x = 1 .. Dim(v) /\ DOMAIN y = 1 .. Dim(v)
  BY ViewFacts, IsElement
<1>3. \A e \in 1 .. Dim(v) :
        /\ v.min[e] \in Nat /\ v.max[e] \in Nat
        /\ x[e] \in v.min[e] .. (v.max[e] - 1) /\ y[e] \in v.min[e] .. (v.max[e] - 1)
        /\ c[e] = Lo(v.min[e], x[e]) - v.min[e] /\ b[e] = Lo(v.min[e], y[e]) - v.min[e]
        /\ s[e] = Hi(v.max[e], x[e]) - Lo(v.min[e], x[e])
        /\ t[e] = Hi(v.max[e], y[e]) - Lo(v.min[e], y[e])
        /\ l[e] = x[e] - Lo(v.min[e], x[e]) /\ k[e] = y[e] - Lo(v.min[e], y[e])
  BY Along
<1>4. \A e \in 1 .. 4 : e > Dim(v) => c[e] = b[e] /\ s[e] = t[e] /\ l[e] = k[e]
  BY Padding
<1> HIDE DEF n, s, c, l, t, b, k
<1>5. \A e \in 1 .. Dim(v) : BlockOf(x)[e] = x[e] \div BlockSize /\ BlockOf(y)[e] = y[e] \div BlockSize
  BY <1>2 DEF BlockOf
<1>6. \A e \in 1 .. Dim(v) : BlockOf(x)[e] = BlockOf(y)[e] => c[e] = b[e] /\ s[e] = t[e]
  <2>1. SUFFICES ASSUME NEW e \in 1 .. Dim(v), BlockOf(x)[e] = BlockOf(y)[e]
                 PROVE  c[e] = b[e] /\ s[e] = t[e]
    OBVIOUS
  <2>2. Lo(v.min[e], x[e]) = Lo(v.min[e], y[e]) /\ Hi(v.max[e], x[e]) = Hi(v.max[e], y[e])
    BY <1>3, <1>5, <2>1, BlocksOrdered
  <2> QED
    BY <1>3, <2>2
<1>7. \A e \in 1 .. Dim(v) : BlockOf(x)[e] < BlockOf(y)[e] => c[e] + s[e] <= b[e]
  <2>1. SUFFICES ASSUME NEW e \in 1 .. Dim(v), BlockOf(x)[e] < BlockOf(y)[e]
                 PROVE  c[e] + s[e] <= b[e]
    OBVIOUS
  <2>2. Hi(v.max[e], x[e]) <= Lo(v.min[e], y[e])
    BY <1>3, <1>5, <2>1, BlocksOrdered
  <2>3. /\ Lo(v.min[e], x[e]) \in Nat /\ Hi(v.max[e], x[e]) \in Nat
        /\ Lo(v.min[e], y[e]) \in Nat
    BY <1>3, BlockFacts
  <2> QED
    BY <1>3, <2>2, <2>3
<1>8. CASE Precedes(BlockOf(x), BlockOf(y))
  <2>1. PICK d \in 1 .. Dim(v) :
          BlockOf(x)[d] < BlockOf(y)[d] /\ \A e \in 1 .. Dim(v) : e > d => BlockOf(x)[e] = BlockOf(y)[e]
    BY <1>2, <1>8 DEF Precedes, BlockOf
  <2>2. d \in 1 .. 4 /\ c[d] + s[d] <= b[d]
    BY <1>2, <1>7, <2>1
  <2>3. ASSUME NEW e \in 1 .. 4, e > d
        PROVE  c[e] = b[e] /\ s[e] = t[e]
    <3>1. CASE e \in 1 .. Dim(v)
      BY <1>6, <2>1, <2>3, <3>1
    <3>2. CASE e > Dim(v)
      BY <1>4, <3>2
    <3> QED
      BY <1>2, <3>1, <3>2
  <2>4. Sequential(n, s, c, l) < Sequential(n, t, b, k)
    BY <1>1, <2>2, <2>3, SequentialOrder
  <2> QED
    BY <2>4 DEF BlockRank, n, s, c, l, t, b, k
<1>9. CASE BlockOf(x) = BlockOf(y) /\ Precedes(x, y)
  <2>1. PICK d \in 1 .. Dim(v) : x[d] < y[d] /\ \A e \in 1 .. Dim(v) : e > d => x[e] = y[e]
    BY <1>2, <1>9 DEF Precedes
  <2>2. ASSUME NEW e \in 1 .. 4
        PROVE  c[e] = b[e] /\ s[e] = t[e]
    <3>1. CASE e \in 1 .. Dim(v)
      BY <1>6, <1>9, <3>1
    <3>2. CASE e > Dim(v)
      BY <1>4, <3>2
    <3> QED
      BY <1>2, <3>1, <3>2
  <2>3. \A e \in 1 .. Dim(v) : Lo(v.min[e], x[e]) \in Nat /\ Lo(v.min[e], y[e]) = Lo(v.min[e], x[e])
    <3>1. \A e \in 1 .. Dim(v) : Lo(v.min[e], x[e]) \in Nat /\ Lo(v.min[e], y[e]) \in Nat
      BY <1>3, BlockFacts
    <3>2. \A e \in 1 .. Dim(v) : Lo(v.min[e], x[e]) - v.min[e] = Lo(v.min[e], y[e]) - v.min[e]
      BY <1>2, <1>3, <2>2
    <3> QED
      BY <1>3, <3>1, <3>2
  <2>4. d \in 1 .. 4 /\ l[d] < k[d]
    BY <1>2, <1>3, <2>1, <2>3
  <2>5. ASSUME NEW e \in 1 .. 4, e > d
        PROVE  l[e] = k[e]
    <3>1. CASE e \in 1 .. Dim(v)
      BY <1>3, <2>1, <2>3, <2>5, <3>1
    <3>2. CASE e > Dim(v)
      BY <1>4, <3>2
    <3> QED
      BY <1>2, <3>1, <3>2
  <2>6. Sequential(n, s, c, l) < Sequential(n, t, b, k)
    BY <1>1, <2>2, <2>4, <2>5, SequentialOrder
  <2> QED
    BY <2>6 DEF BlockRank, n, s, c, l, t, b, k
<1> QED
  BY <1>8, <1>9 DEF BlockOrder

\* The order of the kinds of cursor, and the offset of an element by it.
Blockwise(k) == k \in {"iterator", "cfp_iter"}
Rank(k, v, x) == IF Blockwise(k) THEN BlockRank(v, x) ELSE RowRank(v, x)
Earlier(k, x, y) == IF Blockwise(k) THEN BlockOrder(x, y) ELSE Precedes(x, y)

\* An element is earlier than another one exactly if its offset is smaller.
LEMMA EarlierRank ==
  ASSUME NEW k, NEW v \in Views, NEW x \in Elements(v), NEW y \in Elements(v)
  PROVE  /\ Earlier(k, x, y) <=> Rank(k, v, x) < Rank(k, v, y)
         /\ Rank(k, v, x) = Rank(k, v, y) => x = y
<1>1. \A a, b \in Elements(v) : Earlier(k, a, b) => Rank(k, v, a) < Rank(k, v, b)
  <2>1. SUFFICES ASSUME NEW a \in Elements(v), NEW b \in Elements(v), Earlier(k, a, b)
                 PROVE  Rank(k, v, a) < Rank(k, v, b)
    OBVIOUS
  <2>2. CASE Blockwise(k)
    <3>1. BlockOrder(a, b)
      BY <2>1, <2>2 DEF Earlier
    <3> QED
      BY <2>2, <3>1, BlockwiseOrdered DEF Rank
  <2>3. CASE ~ Blockwise(k)
    <3>1. Precedes(a, b)
      BY <2>1, <2>3 DEF Earlier
    <3> QED
      BY <2>3, <3>1, RowsOrdered DEF Rank
  <2> QED
    BY <2>2, <2>3
<1>2. Rank(k, v, x) \in Nat /\ Rank(k, v, y) \in Nat
  <2>1. /\ BlockRank(v, x) \in 0 .. (Size(v) - 1) /\ RowRank(v, x) \in 0 .. (Size(v) - 1)
        /\ BlockRank(v, y) \in 0 .. (Size(v) - 1) /\ RowRank(v, y) \in 0 .. (Size(v) - 1)
    BY RankBound
  <2>2. Size(v) \in Nat
    BY SizeIs
  <2> QED
    BY <2>1, <2>2 DEF Rank
<1>3. x # y => Earlier(k, x, y) \/ Earlier(k, y, x)
  <2>1. SUFFICES ASSUME x # y
                 PROVE  Earlier(k, x, y) \/ Earlier(k, y, x)
    OBVIOUS
  <2>2. /\ Dim(v) \in 1 .. 4 /\ DOMAIN x = 1 .. Dim(v) /\ DOMAIN y = 1 .. Dim(v)
        /\ x = [d \in 1 .. Dim(v) |-> x[d]] /\ y = [d \in 1 .. Dim(v) |-> y[d]]
    BY ViewFacts, IsElement, SMTT(30)
  <2>3. \A d \in 1 .. Dim(v) : /\ x[d] \in v.min[d] .. (v.max[d] - 1)
                               /\ y[d] \in v.min[d] .. (v.max[d] - 1)
                               /\ v.min[d] \in Nat /\ v.max[d] \in Nat
    BY Along
  <2>4. \A d \in 1 .. Dim(v) : x[d] \in Nat /\ y[d] \in Nat
    BY <2>3
  <2>5. \E d \in 1 .. Dim(v) : x[d] # y[d]
    <3>1. (\A d \in 1 .. Dim(v) : x[d] = y[d]) => x = y
      BY <2>2
    <3> QED
      BY <2>1, <3>1
  <2>6. Precedes(x, y) \/ Precedes(y, x)
    <3> DEFINE D == Dim(v)
    <3>1. /\ D \in 1 .. 4 /\ DOMAIN x = 1 .. D /\ DOMAIN y = 1 .. D
          /\ \A d \in 1 .. D : x[d] \in Nat /\ y[d] \in Nat
          /\ \E d \in 1 .. D : x[d] # y[d]
      BY <2>2, <2>4, <2>5
    <3> HIDE DEF D
    <3> QED
      BY <3>1, OnePrecedes
  <2>7. ASSUME BlockOf(x) # BlockOf(y)
        PROVE  Precedes(BlockOf(x), BlockOf(y)) \/ Precedes(BlockOf(y), BlockOf(x))
    <3>1. /\ DOMAIN BlockOf(x) = 1 .. Dim(v) /\ DOMAIN BlockOf(y) = 1 .. Dim(v)
          /\ \A d \in 1 .. Dim(v) : /\ BlockOf(x)[d] = x[d] \div BlockSize
                                    /\ BlockOf(y)[d] = y[d] \div BlockSize
          /\ BlockOf(x) = [d \in 1 .. Dim(v) |-> BlockOf(x)[d]]
          /\ BlockOf(y) = [d \in 1 .. Dim(v) |-> BlockOf(y)[d]]
      BY <2>2 DEF BlockOf
    <3>2. \A d \in 1 .. Dim(v) : BlockOf(x)[d] \in Nat /\ BlockOf(y)[d] \in Nat
      <4>1. \A d \in 1 .. Dim(v) : x[d] \div BlockSize \in Nat /\ y[d] \div BlockSize \in Nat
        BY <2>3, BlocksOrdered
      <4> QED
        BY <3>1, <4>1
    <3>3. \E d \in 1 .. Dim(v) : BlockOf(x)[d] # BlockOf(y)[d]
      <4> DEFINE f == BlockOf(x)
                 g == BlockOf(y)
      <4>1. f = [d \in 1 .. Dim(v) |-> f[d]] /\ g = [d \in 1 .. Dim(v) |-> g[d]] /\ f # g
        BY <2>7, <3>1
      <4> HIDE DEF f, g
      <4>2. (\A d \in 1 .. Dim(v) : f[d] = g[d]) => f = g
        BY <4>1
      <4>3. \E d \in 1 .. Dim(v) : f[d] # g[d]
        BY <4>1, <4>2
      <4> QED
        BY <4>3 DEF f, g
    <3> DEFINE f == BlockOf(x)
               g == BlockOf(y)
    <3>4. /\ DOMAIN f = 1 .. Dim(v) /\ DOMAIN g = 1 .. Dim(v)
          /\ \A d \in 1 .. Dim(v) : f[d] \in Nat /\ g[d] \in Nat
          /\ \E d \in 1 .. Dim(v) : f[d] # g[d]
      BY <3>1, <3>2, <3>3
    <3> HIDE DEF f, g
    <3>5. Precedes(f, g) \/ Precedes(g, f)
      BY <2>2, <3>4, OnePrecedes
    <3> QED
      BY <3>5 DEF f, g
  <2> QED
    BY <2>6, <2>7 DEF Earlier, BlockOrder
<1>4. Earlier(k, x, y) => Rank(k, v, x) < Rank(k, v, y)
  BY <1>1
<1>5. Earlier(k, y, x) => Rank(k, v, y) < Rank(k, v, x)
  BY <1>1
<1> QED
  BY <1>2, <1>3, <1>4, <1>5

\* The index of offset p by the order of a kind of cursor, the offset of an index.
IndexOf(k, v, p) ==
  IF Blockwise(k) THEN ByDim(v, iterator1_index(v, p), iterator2_index(v, p),
                             iterator3_index(v, p), iterator4_index(v, p))
  ELSE ByDim(v, pointer1_index(v, p), pointer2_index(v, p),
             pointer3_index(v, p), pointer4_index(v, p))
OffsetOf(k, v, x) ==
  IF Blockwise(k) THEN ByDim(v, iterator1_offset(v, x), iterator2_offset(v, x),
                             iterator3_offset(v, x), iterator4_offset(v, x))
  ELSE ByDim(v, pointer1_offset(v, x), pointer2_offset(v, x),
             pointer3_offset(v, x), pointer4_offset(v, x))

\* The cursor has c elements before it: x is the element with offset c, or the end.
Place(k, v, x, c) ==
  /\ c \in 0 .. Size(v)
  /\ IF c = Size(v) THEN x = End(v) ELSE x \in Elements(v) /\ Rank(k, v, x) = c

\* Every offset has its index, and leads back.
LEMMA PlaceOfIndex ==
  \A k : \A v \in Views : \A p \in 0 .. Size(v) : Place(k, v, IndexOf(k, v, p), p)
<1>1. SUFFICES ASSUME NEW k, NEW v \in Views, NEW p \in 0 .. Size(v)
               PROVE  Place(k, v, IndexOf(k, v, p), p)
  OBVIOUS
<1>2. CASE p = Size(v)
  <2>1. IndexOf(k, v, Size(v)) = End(v)
    BY RowIndexEnd, BlockIndexEnd DEF IndexOf
  <2> QED
    BY <1>2, <2>1 DEF Place
<1>3. CASE p # Size(v)
  <2>1. p \in 0 .. (Size(v) - 1)
    BY <1>3, SizeIs
  <2>2. CASE Blockwise(k)
    <3>1. IndexOf(k, v, p) \in Elements(v) /\ BlockRank(v, IndexOf(k, v, p)) = p
      BY <2>1, <2>2, BlockIndex DEF IndexOf
    <3> QED
      BY <1>3, <2>2, <3>1 DEF Place, Rank
  <2>3. CASE ~ Blockwise(k)
    <3>1. IndexOf(k, v, p) \in Elements(v) /\ RowRank(v, IndexOf(k, v, p)) = p
      BY <2>1, <2>3, RowIndex DEF IndexOf
    <3> QED
      BY <1>3, <2>3, <3>1 DEF Place, Rank
  <2> QED
    BY <2>2, <2>3
<1> QED
  BY <1>2, <1>3

\* The offset that a cursor reports is its count.
LEMMA OffsetOfPlace ==
  \A k : \A v \in Views : \A x, c : Place(k, v, x, c) => OffsetOf(k, v, x) = c
<1>1. SUFFICES ASSUME NEW k, NEW v \in Views, NEW x, NEW c, Place(k, v, x, c)
               PROVE  OffsetOf(k, v, x) = c
  OBVIOUS
<1>2. CASE c = Size(v)
  <2>1. x = End(v)
    BY <1>1, <1>2 DEF Place
  <2> QED
    BY <1>2, <2>1, EndOffset DEF OffsetOf
<1>3. CASE c # Size(v)
  <2>1. x \in Elements(v) /\ Rank(k, v, x) = c
    BY <1>1, <1>3 DEF Place
  <2> QED
    BY <2>1, BlockOffset, RowOffset DEF OffsetOf, Rank
<1> QED
  BY <1>2, <1>3

\* As many elements are earlier than x as its offset says.
LEMMA CountEarlier ==
  ASSUME NEW k, NEW v \in Views, NEW x \in Elements(v)
  PROVE  Cardinality({y \in Elements(v) : Earlier(k, y, x)}) = Rank(k, v, x)
<1> DEFINE c == Rank(k, v, x)
           S == {y \in Elements(v) : Earlier(k, y, x)}
           f == [p \in 0 .. (c - 1) |-> IndexOf(k, v, p)]
<1>1. c \in Nat /\ c < Size(v) /\ Size(v) \in Nat
  <2>1. BlockRank(v, x) \in 0 .. (Size(v) - 1) /\ RowRank(v, x) \in 0 .. (Size(v) - 1)
    BY RankBound
  <2>2. Size(v) \in Nat
    BY SizeIs
  <2> QED
    BY <2>1, <2>2 DEF Rank
<1>2. \A y \in Elements(v) : y \in S <=> Rank(k, v, y) < c
  BY EarlierRank
<1>3. S \subseteq Elements(v)
  OBVIOUS
<1> HIDE DEF c, S
<1>4. \A p \in 0 .. (c - 1) : IndexOf(k, v, p) \in S /\ Rank(k, v, IndexOf(k, v, p)) = p
  <2>1. SUFFICES ASSUME NEW p \in 0 .. (c - 1)
                 PROVE  IndexOf(k, v, p) \in S /\ Rank(k, v, IndexOf(k, v, p)) = p
    OBVIOUS
  <2>2. p \in 0 .. Size(v) /\ p # Size(v) /\ p < c
    BY <1>1
  <2>3. Place(k, v, IndexOf(k, v, p), p)
    BY <2>2, PlaceOfIndex
  <2>4. IndexOf(k, v, p) \in Elements(v) /\ Rank(k, v, IndexOf(k, v, p)) = p
    BY <2>2, <2>3 DEF Place
  <2> QED
    BY <1>2, <2>2, <2>4
<1>5. \A y \in S : Rank(k, v, y) \in 0 .. (c - 1) /\ IndexOf(k, v, Rank(k, v, y)) = y
  <2>1. SUFFICES ASSUME NEW y \in S
                 PROVE  Rank(k, v, y) \in 0 .. (c - 1) /\ IndexOf(k, v, Rank(k, v, y)) = y
    OBVIOUS
  <2>2. y \in Elements(v) /\ Rank(k, v, y) < c
    BY <1>2, <1>3
  <2>3. Rank(k, v, y) \in Nat
    <3>1. BlockRank(v, y) \in 0 .. (Size(v) - 1) /\ RowRank(v, y) \in 0 .. (Size(v) - 1)
      BY <2>2, RankBound
    <3> QED
      BY <1>1, <3>1 DEF Rank
  <2>4. Rank(k, v, y) \in 0 .. (c - 1)
    BY <1>1, <2>2, <2>3
  <2>5. IndexOf(k, v, Rank(k, v, y)) \in S /\ Rank(k, v, IndexOf(k, v, Rank(k, v, y))) = Rank(k, v, y)
    BY <1>4, <2>4
  <2> QED
    BY <1>3, <2>2, <2>4, <2>5, EarlierRank
<1>6. f \in Bijection(0 .. (c - 1), S)
  <2>1. f \in [0 .. (c - 1) -> S]
    BY <1>4
  <2>2. \A p, q \in 0 .. (c - 1) : f[p] = f[q] => p = q
    BY <1>4
  <2>3. \A y \in S : \E p \in 0 .. (c - 1) : f[p] = y
    BY <1>5
  <2> HIDE DEF f
  <2> QED
    BY <2>1, <2>2, <2>3, Fun_IsBij
<1>7. IsFiniteSet(0 .. (c - 1)) /\ Cardinality(0 .. (c - 1)) = c
  <2>1. 0 \in Int /\ c - 1 \in Int
    BY <1>1
  <2>2. /\ IsFiniteSet(0 .. (c - 1))
        /\ Cardinality(0 .. (c - 1)) = IF 0 > c - 1 THEN 0 ELSE (c - 1) - 0 + 1
    BY <2>1, FS_Interval
  <2> QED
    BY <1>1, <2>2
<1>8. ExistsBijection(0 .. (c - 1), S)
  BY <1>6 DEF ExistsBijection
<1>9. Cardinality(S) = c
  BY <1>7, <1>8, FS_Bijection
<1> QED
  BY <1>9 DEF c, S

-----------------------------------------------------------------------------
\* The steps of a cursor.

\* The cursors of C are into whole arrays.
Cursor(v) ==
  /\ v \in Views
  /\ kind \in {"iterator", "pointer", "cfp_iter", "cfp_ptr"}
  /\ kind \in {"cfp_iter", "cfp_ptr"} => \A d \in 1 .. Dim(v) : v.min[d] = 0

\* In one dimension, moving by j is adding j.
LEMMA OneDimension ==
  ASSUME NEW k, NEW v \in Views, Dim(v) = 1, NEW x, NEW c, Place(k, v, x, c), NEW j \in Int,
         c + j \in 0 .. Size(v)
  PROVE  /\ x[1] \in Nat /\ v.min[1] \in Nat /\ c = x[1] - v.min[1]
         /\ Place(k, v, <<x[1] + j>>, c + j)
<1>1. v.min[1] \in Nat /\ v.max[1] \in Nat
  BY ExtentFacts
<1>2. x[1] \in Nat
  <2>1. CASE c = Size(v)
    <3>1. x = End(v)
      BY <2>1 DEF Place
    <3>2. End(v)[1] = v.max[1]
      BY EndFacts
    <3> QED
      BY <1>1, <3>1, <3>2
  <2>2. CASE c # Size(v)
    <3>1. x \in Elements(v)
      BY <2>2 DEF Place
    <3>2. x[1] \in v.min[1] .. (v.max[1] - 1)
      BY <3>1, Along
    <3> QED
      BY <1>1, <3>2
  <2> QED
    BY <2>1, <2>2
<1>3. c = x[1] - v.min[1]
  <2>1. OffsetOf(k, v, x) = c
    BY OffsetOfPlace
  <2>2. OffsetOf(k, v, x) = x[1] - v.min[1]
    BY DEF OffsetOf, ByDim, iterator1_offset, pointer1_offset
  <2> QED
    BY <2>1, <2>2
<1>4. IndexOf(k, v, c + j) = <<v.min[1] + (c + j)>>
  BY DEF IndexOf, ByDim, iterator1_index, pointer1_index
<1>5. v.min[1] + (c + j) = x[1] + j
  BY <1>1, <1>2, <1>3
<1>6. Place(k, v, IndexOf(k, v, c + j), c + j)
  BY PlaceOfIndex
<1> QED
  BY <1>1, <1>2, <1>3, <1>4, <1>5, <1>6

\* The offset in C of a pointer.
LEMMA CfpOffset ==
  ASSUME NEW v, Cursor(v), kind = "cfp_ptr", NEW x, NEW c, Place(kind, v, x, c)
  PROVE  ByDim(v, cfp1_ref_offset(v, x), cfp2_ref_offset(v, x),
               cfp3_ref_offset(v, x), cfp4_ref_offset(v, x)) = c
<1>1. v \in Views /\ \A d \in 1 .. Dim(v) : v.min[d] = 0
  BY DEF Cursor
<1>2. CASE c = Size(v)
  <2>1. x = End(v)
    BY <1>2 DEF Place
  <2> QED
    BY <1>1, <1>2, <2>1, EndOffset
<1>3. CASE c # Size(v)
  <2>1. x \in Elements(v) /\ RowRank(v, x) = c
    BY <1>3 DEF Place, Rank, Blockwise
  <2> QED
    BY <1>1, <2>1, RowOffset
<1> QED
  BY <1>2, <1>3

\* operator+=, operator-= and what they are in C.
LEMMA MovedPlace ==
  ASSUME NEW v, Cursor(v), NEW x, NEW c, Place(kind, v, x, c), NEW j \in Int,
         c + j \in 0 .. Size(v)
  PROVE  Place(kind, v, Moved(v, x, j), c + j)
<1>1. v \in Views /\ Dim(v) \in 1 .. 4
  BY ViewFacts DEF Cursor
<1>2. OffsetOf(kind, v, x) = c
  BY <1>1, OffsetOfPlace
<1>3. Place(kind, v, IndexOf(kind, v, c + j), c + j)
  BY <1>1, PlaceOfIndex
<1>4. CASE kind = "iterator" \/ kind = "pointer"
  <2>1. Offset(v, x) = OffsetOf(kind, v, x)
    BY <1>4 DEF Offset, OffsetOf, Blockwise
  <2>2. Moved(v, x, j) = IndexOf(kind, v, Offset(v, x) + j)
    BY <1>4 DEF Moved, IndexOf, Blockwise
  <2> QED
    BY <1>2, <1>3, <2>1, <2>2
<1>5. CASE kind = "cfp_iter"
  <2>1. CASE Dim(v) = 1
    <3>1. Moved(v, x, j) = <<x[1] + j>>
      BY <1>5, <2>1 DEF Moved, ByDim, cfp1_iter_next
    <3> QED
      BY <1>1, <2>1, <3>1, OneDimension
  <2>2. CASE Dim(v) # 1
    <3>1. Moved(v, x, j) = IndexOf(kind, v, OffsetOf(kind, v, x) + j)
      BY <1>1, <1>5, <2>2 DEF Moved, IndexOf, OffsetOf, Blockwise, ByDim,
         cfp2_iter_next, cfp3_iter_next, cfp4_iter_next,
         cfp2_iter_offset, cfp3_iter_offset, cfp4_iter_offset,
         cfp2_iter_set_offset, cfp3_iter_set_offset, cfp4_iter_set_offset
    <3> QED
      BY <1>2, <1>3, <3>1
  <2> QED
    BY <2>1, <2>2
<1>6. CASE kind = "cfp_ptr"
  <2>1. ByDim(v, cfp1_ref_offset(v, x), cfp2_ref_offset(v, x),
              cfp3_ref_offset(v, x), cfp4_ref_offset(v, x)) = c
    BY <1>6, CfpOffset
  <2>2. Moved(v, x, j) = ByDim(v, cfp1_ref_set_offset(v, c + j), cfp2_ref_set_offset(v, c + j),
                               cfp3_ref_set_offset(v, c + j), cfp4_ref_set_offset(v, c + j))
    BY <1>1, <1>6, <2>1 DEF Moved, ByDim, cfp1_ptr_next, cfp2_ptr_next, cfp3_ptr_next, cfp4_ptr_next
  <2>3. c + j \in Nat
    BY <1>1, SizeIs
  <2>4. Moved(v, x, j) = IndexOf(kind, v, c + j)
    BY <1>1, <1>6, <2>2, <2>3, CfpRowIndex DEF Cursor, IndexOf, Blockwise
  <2> QED
    BY <1>3, <2>4
<1> QED
  BY <1>4, <1>5, <1>6 DEF Cursor

\* operator++.
LEMMA IncrementedPlace ==
  ASSUME NEW v, Cursor(v), NEW x, NEW c, Place(kind, v, x, c), c < Size(v)
  PROVE  Place(kind, v, Incremented(v, x), c + 1)
<1>1. v \in Views /\ Dim(v) \in 1 .. 4
  BY ViewFacts DEF Cursor
<1>2. c \in Nat /\ Size(v) \in Nat /\ c + 1 \in 0 .. Size(v) /\ c # Size(v)
  BY <1>1, SizeIs DEF Place
<1>3. x \in Elements(v) /\ Rank(kind, v, x) = c
  BY <1>2 DEF Place
<1>4. CASE kind = "cfp_ptr"
  <2>1. Place(kind, v, Moved(v, x, 1), c + 1)
    BY <1>2, MovedPlace
  <2>2. Incremented(v, x) = Moved(v, x, 1)
    BY <1>4 DEF Incremented
  <2> QED
    BY <2>1, <2>2
<1>5. CASE kind # "cfp_ptr" /\ Dim(v) = 1
  <2>1. Incremented(v, x) = <<x[1] + 1>>
    BY <1>5 DEF Cursor, Incremented, ByDim, iterator1_increment, pointer1_step, cfp1_iter_next
  <2> DEFINE j == 1
  <2>2. j \in Int /\ c + j \in 0 .. Size(v)
    BY <1>2
  <2> HIDE DEF j
  <2>3. Place(kind, v, <<x[1] + j>>, c + j)
    BY <1>1, <1>5, <2>2, OneDimension
  <2> QED
    BY <2>1, <2>3 DEF j
<1>6. CASE kind \in {"iterator", "cfp_iter"} /\ Dim(v) # 1
  <2>1. Incremented(v, x) = Advance(v, x)
    <3>1. CASE kind = "iterator"
      BY <1>1, <1>6, <3>1 DEF Incremented, ByDim, iterator2_increment, iterator3_increment,
          iterator4_increment
    <3>2. CASE kind = "cfp_iter"
      BY <1>1, <1>6, <3>2 DEF Incremented, ByDim, cfp2_iter_inc, cfp3_iter_inc, cfp4_iter_inc
    <3> QED
      BY <1>6, <3>1, <3>2
  <2>2. BlockRank(v, x) = c
    BY <1>3, <1>6 DEF Rank, Blockwise
  <2>3. IF c + 1 = Size(v) THEN Advance(v, x) = End(v)
        ELSE Advance(v, x) \in Elements(v) /\ BlockRank(v, Advance(v, x)) = c + 1
    BY <1>1, <1>3, <2>2, AdvanceRank
  <2> QED
    BY <1>2, <1>6, <2>1, <2>3 DEF Place, Rank, Blockwise
<1>7. CASE kind = "pointer" /\ Dim(v) # 1
  <2>1. Incremented(v, x) = RowAdvance(v, x)
    BY <1>1, <1>7 DEF Incremented, ByDim, pointer2_step, pointer3_step, pointer4_step
  <2>2. RowRank(v, x) = c
    BY <1>3, <1>7 DEF Rank, Blockwise
  <2>3. IF c + 1 = Size(v) THEN RowAdvance(v, x) = End(v)
        ELSE RowAdvance(v, x) \in Elements(v) /\ RowRank(v, RowAdvance(v, x)) = c + 1
    BY <1>1, <1>3, <2>2, RowAdvanceRank
  <2> QED
    BY <1>2, <1>7, <2>1, <2>3 DEF Place, Rank, Blockwise
<1> QED
  BY <1>4, <1>5, <1>6, <1>7 DEF Cursor

\* operator--.
LEMMA DecrementedPlace ==
  ASSUME NEW v, Cursor(v), NEW x, NEW c, Place(kind, v, x, c), c > 0
  PROVE  Place(kind, v, Decremented(v, x), c - 1)
<1>1. v \in Views /\ Dim(v) \in 1 .. 4
  BY ViewFacts DEF Cursor
<1>2. c \in Nat /\ Size(v) \in Nat /\ c - 1 \in 0 .. Size(v) /\ c - 1 # Size(v)
  BY <1>1, SizeIs DEF Place
<1>3. c + (-1) = c - 1 /\ -1 \in Int
  BY <1>2
<1>4. CASE kind = "cfp_ptr"
  <2>1. Place(kind, v, Moved(v, x, -1), c + (-1))
    BY <1>2, <1>3, MovedPlace
  <2>2. Decremented(v, x) = Moved(v, x, -1)
    BY <1>4 DEF Decremented
  <2> QED
    BY <1>3, <2>1, <2>2
<1>5. CASE kind # "cfp_ptr" /\ Dim(v) = 1
  <2>1. /\ x[1] \in Nat
        /\ Place(kind, v, <<x[1] + (-1)>>, c + (-1))
    BY <1>1, <1>2, <1>3, <1>5, OneDimension
  <2>2. Decremented(v, x) = <<x[1] + (-1)>>
    <3>1. x[1] + (-1) = x[1] - 1
      BY <2>1
    <3> QED
      BY <1>5, <3>1 DEF Cursor, Decremented, ByDim, iterator1_decrement, pointer1_step, cfp1_iter_next
  <2> QED
    BY <1>3, <2>1, <2>2
<1>6. CASE kind \in {"iterator", "cfp_iter"} /\ Dim(v) # 1
  <2>1. Decremented(v, x) = Retreat(v, x)
    <3>1. CASE kind = "iterator"
      BY <1>1, <1>6, <3>1 DEF Decremented, ByDim, iterator2_decrement, iterator3_decrement,
          iterator4_decrement
    <3>2. CASE kind = "cfp_iter"
      BY <1>1, <1>6, <3>2 DEF Decremented, ByDim, cfp2_iter_dec, cfp3_iter_dec, cfp4_iter_dec
    <3> QED
      BY <1>6, <3>1, <3>2
  <2>2. Retreat(v, x) \in Elements(v) /\ BlockRank(v, Retreat(v, x)) = c - 1
    <3>1. CASE c = Size(v)
      <4>1. x = End(v)
        BY <3>1 DEF Place
      <4>2. Retreat(v, x) = LastOf(v)
        BY <1>1, <4>1, RetreatEnd
      <4> QED
        BY <1>1, <3>1, <4>2, LastOfFacts
    <3>2. CASE c # Size(v)
      <4>1. x \in Elements(v) /\ BlockRank(v, x) = c
        BY <1>6, <3>2 DEF Place, Rank, Blockwise
      <4> QED
        BY <1>1, <4>1, RetreatRank
    <3> QED
      BY <3>1, <3>2
  <2> QED
    BY <1>2, <1>6, <2>1, <2>2 DEF Place, Rank, Blockwise
<1>7. CASE kind = "pointer" /\ Dim(v) # 1
  <2>1. Decremented(v, x) = RowRetreat(v, x)
    BY <1>1, <1>7 DEF Decremented, ByDim, pointer2_step, pointer3_step, pointer4_step
  <2>2. RowRetreat(v, x) \in Elements(v) /\ RowRank(v, RowRetreat(v, x)) = c - 1
    <3>1. CASE c = Size(v)
      <4>1. x = End(v)
        BY <3>1 DEF Place
      <4>2. RowRetreat(v, x) = LastOf(v)
        BY <1>1, <4>1, RowRetreatEnd
      <4> QED
        BY <1>1, <3>1, <4>2, LastOfFacts
    <3>2. CASE c # Size(v)
      <4>1. x \in Elements(v) /\ RowRank(v, x) = c
        BY <1>7, <3>2 DEF Place, Rank, Blockwise
      <4> QED
        BY <1>1, <4>1, RowRetreatRank
    <3> QED
      BY <3>1, <3>2
  <2> QED
    BY <1>2, <1>7, <2>1, <2>2 DEF Place, Rank, Blockwise
<1> QED
  BY <1>4, <1>5, <1>6, <1>7 DEF Cursor

-----------------------------------------------------------------------------
\* The invariant: the cursor is where its count says, by offset.

CursorInv ==
  /\ Cursor(view)
  /\ Place(kind, view, at, count)

\* begin() is at the first element, and every operation keeps the cursor in place.
THEOREM CursorInPlace == Spec => []CursorInv
<1>1. Init => CursorInv
  <2>1. SUFFICES ASSUME Init
                 PROVE  CursorInv
    OBVIOUS
  <2>2. Cursor(view) /\ view \in Views
    BY <2>1 DEF Init, Cursor
  <2>3. Size(view) \in Nat /\ Size(view) > 0
    BY <2>2, SizeIs
  <2>4. /\ view.min \in Elements(view)
        /\ BlockRank(view, view.min) = 0 /\ RowRank(view, view.min) = 0
    BY <2>2, FirstRank
  <2>5. at = view.min /\ count = 0
    BY <2>1 DEF Init
  <2> QED
    BY <2>2, <2>3, <2>4, <2>5 DEF CursorInv, Place, Rank
<1>2. CursorInv /\ [Next]_vars => CursorInv'
  <2>1. SUFFICES ASSUME CursorInv, [Next]_vars
                 PROVE  CursorInv'
    OBVIOUS
  <2>2. /\ Cursor(view) /\ view \in Views /\ Place(kind, view, at, count)
        /\ Size(view) \in Nat /\ count \in 0 .. Size(view)
    BY <2>1, SizeIs DEF CursorInv, Cursor, Place
  <2>3. ASSUME view' = view, kind' = kind, Place(kind, view, at', count')
        PROVE  CursorInv'
    <3>1. Cursor(view)'
      BY <2>2, <2>3 DEF Cursor
    <3>2. Place(kind, view, at, count)'
      BY <2>3 DEF Place, Rank, Blockwise
    <3> QED
      BY <3>1, <3>2 DEF CursorInv
  <2>4. CASE Increment
    <3>1. Place(kind, view, Incremented(view, at), count + 1)
      BY <2>2, <2>4, IncrementedPlace DEF Increment
    <3>2. view' = view /\ kind' = kind /\ at' = Incremented(view, at) /\ count' = count + 1
      BY <2>4 DEF Increment
    <3> QED
      BY <2>3, <3>1, <3>2
  <2>5. CASE Decrement
    <3>1. Place(kind, view, Decremented(view, at), count - 1)
      BY <2>2, <2>5, DecrementedPlace DEF Decrement
    <3>2. view' = view /\ kind' = kind /\ at' = Decremented(view, at) /\ count' = count - 1
      BY <2>5 DEF Decrement
    <3> QED
      BY <2>3, <3>1, <3>2
  <2>6. CASE \E k \in - Size(view) .. Size(view) : AdvanceBy(k)
    <3>1. PICK k \in - Size(view) .. Size(view) : AdvanceBy(k)
      BY <2>6
    <3>2. /\ view' = view /\ kind' = kind /\ at' = Moved(view, at, k) /\ count' = count + k
          /\ count + k \in 0 .. Size(view)
      BY <3>1 DEF AdvanceBy
    <3>3. k \in Int
      BY <2>2
    <3>4. Place(kind, view, Moved(view, at, k), count + k)
      BY <2>2, <3>2, <3>3, MovedPlace
    <3> QED
      BY <2>3, <3>2, <3>4
  <2>7. CASE UNCHANGED vars
    BY <2>2, <2>3, <2>7 DEF vars
  <2> QED
    BY <2>1, <2>4, <2>5, <2>6, <2>7 DEF Next
<1> QED
  BY <1>1, <1>2, PTL DEF Spec

\* A cursor moved past count elements designates the element that count others are before, in
\* the order of its kind, and the end after all of them (operator++, --, += and -= of
\* iterator1.hpp to iterator4.hpp and pointer1.hpp to pointer4.hpp, and those of the C bindings).
THEOREM CursorInOrder == Spec => []InOrder
<1>1. CursorInv => InOrder
  <2>1. SUFFICES ASSUME CursorInv
                 PROVE  InOrder
    OBVIOUS
  <2>2. view \in Views /\ Place(kind, view, at, count)
    BY <2>1 DEF CursorInv, Cursor
  <2>3. CASE count = Size(view)
    BY <2>2, <2>3 DEF InOrder, Place
  <2>4. CASE count # Size(view)
    <3>1. at \in Elements(view) /\ Rank(kind, view, at) = count
      BY <2>2, <2>4 DEF Place
    <3>2. count = Cardinality({x \in Elements(view) : Earlier(kind, x, at)})
      BY <2>2, <3>1, CountEarlier
    <3> QED
      BY <2>4, <3>1, <3>2 DEF InOrder, Earlier, Blockwise
  <2> QED
    BY <2>3, <2>4
<1> QED
  BY <1>1, CursorInPlace, PTL

\* What a comparison of cursors tells, by the elements that are before them.
LEMMA ComparedPlaces ==
  ASSUME NEW v, Cursor(v), NEW x, NEW c, Place(kind, v, x, c), NEW y, NEW d, Place(kind, v, y, d)
  PROVE  Compare(v, x, y).distance = d - c /\ Compare(v, x, y).eq = (x = y)
         /\ Compare(v, x, y).lt = (c < d)
<1>1. v \in Views /\ Dim(v) \in 1 .. 4 /\ c \in Nat /\ d \in Nat
  BY ViewFacts, SizeIs DEF Cursor, Place
<1>2. OffsetOf(kind, v, x) = c /\ OffsetOf(kind, v, y) = d
  BY <1>1, OffsetOfPlace
<1>3. CASE kind = "iterator" \/ kind = "pointer"
  <2>1. Offset(v, x) = OffsetOf(kind, v, x) /\ Offset(v, y) = OffsetOf(kind, v, y)
    BY <1>3 DEF Offset, OffsetOf, Blockwise
  <2>2. Compare(v, x, y) = Compared(x, y, Offset(v, x), Offset(v, y))
    BY <1>3 DEF Compare, iterator_compare
  <2> QED
    BY <1>2, <2>1, <2>2 DEF Compared
<1>4. CASE kind = "cfp_iter" /\ Dim(v) # 1
  <2>1. Compare(v, x, y) = Compared(x, y, OffsetOf(kind, v, x), OffsetOf(kind, v, y))
    BY <1>1, <1>4 DEF Compare, ByDim, OffsetOf, Blockwise, cfp2_iter_compare, cfp3_iter_compare,
       cfp4_iter_compare, cfp2_iter_offset, cfp3_iter_offset, cfp4_iter_offset
  <2> QED
    BY <1>2, <2>1 DEF Compared
<1>5. CASE kind \in {"cfp_iter", "cfp_ptr"} /\ Dim(v) = 1
  <2>1. Compare(v, x, y) = Compared(x, y, x[1], y[1])
    BY <1>5 DEF Compare, ByDim, cfp1_iter_compare, cfp1_ptr_compare
  <2>2. x[1] = c /\ y[1] = d
    <3> DEFINE j == 0
    <3>1. j \in Int /\ c + j \in 0 .. Size(v) /\ d + j \in 0 .. Size(v)
      BY <1>1 DEF Place
    <3> HIDE DEF j
    <3>2. x[1] \in Nat /\ c = x[1] - v.min[1] /\ y[1] \in Nat /\ d = y[1] - v.min[1]
      BY <1>1, <1>5, <3>1, OneDimension
    <3>3. v.min[1] = 0
      BY <1>5 DEF Cursor
    <3> QED
      BY <3>2, <3>3
  <2> QED
    BY <2>1, <2>2 DEF Compared
<1>6. CASE kind = "cfp_ptr" /\ Dim(v) # 1
  <2>1. ByDim(v, cfp1_ref_offset(v, x), cfp2_ref_offset(v, x),
              cfp3_ref_offset(v, x), cfp4_ref_offset(v, x)) = c
    BY <1>6, CfpOffset
  <2>2. ByDim(v, cfp1_ref_offset(v, y), cfp2_ref_offset(v, y),
              cfp3_ref_offset(v, y), cfp4_ref_offset(v, y)) = d
    BY <1>6, CfpOffset
  <2>3. Compare(v, x, y) = Compared(x, y, c, d)
    BY <1>1, <1>6, <2>1, <2>2 DEF Compare, ByDim, cfp2_ptr_compare, cfp3_ptr_compare, cfp4_ptr_compare
  <2> QED
    BY <2>3 DEF Compared
<1> QED
  BY <1>3, <1>4, <1>5, <1>6 DEF Cursor

\* The distance from begin() is the number of elements passed and that to end() the number of
\* those yet to come, and "less than the end" agrees with "not equal to the end" (operator-, <
\* and == of the iterators and pointers, and distance, lt and eq of the C bindings).
THEOREM CursorDistance == Spec => []DistanceIsCount
<1>1. CursorInv => DistanceIsCount
  <2>1. SUFFICES ASSUME CursorInv
                 PROVE  DistanceIsCount
    OBVIOUS
  <2>2. view \in Views /\ Cursor(view) /\ Place(kind, view, at, count)
    BY <2>1 DEF CursorInv, Cursor
  <2>3. Size(view) \in Nat /\ Size(view) > 0 /\ count \in 0 .. Size(view)
    BY <2>2, SizeIs DEF Place
  <2>4. Place(kind, view, view.min, 0)
    BY <2>2, <2>3, FirstRank DEF Place, Rank
  <2>5. Place(kind, view, End(view), Size(view))
    BY <2>3 DEF Place
  <2>6. Compare(view, view.min, at).distance = count - 0
    BY <2>2, <2>4, ComparedPlaces
  <2>7. /\ Compare(view, at, End(view)).distance = Size(view) - count
        /\ Compare(view, at, End(view)).eq = (at = End(view))
        /\ Compare(view, at, End(view)).lt = (count < Size(view))
    BY <2>2, <2>5, ComparedPlaces
  <2>8. count = Size(view) <=> at = End(view)
    BY <2>2, EndFacts DEF Place
  <2>9. (count < Size(view)) <=> ~ (at = End(view))
    BY <2>3, <2>8
  <2>10. Compare(view, at, End(view)).lt = (~ Compare(view, at, End(view)).eq)
    <3>1. CASE count < Size(view)
      <4>1. Compare(view, at, End(view)).lt = TRUE /\ Compare(view, at, End(view)).eq = FALSE
        BY <2>7, <2>9, <3>1
      <4> QED
        BY <4>1
    <3>2. CASE ~ (count < Size(view))
      <4>1. (count < Size(view)) = FALSE /\ (at = End(view)) = TRUE
        BY <2>9, <3>2
      <4>2. Compare(view, at, End(view)).lt = FALSE /\ Compare(view, at, End(view)).eq = TRUE
        BY <2>7, <4>1
      <4> QED
        BY <4>2
    <3> QED
      BY <3>1, <3>2
  <2>11. Compare(view, view.min, at).distance = count
    BY <2>3, <2>6
  <2> QED
    BY <2>7, <2>10, <2>11, Zenon DEF DistanceIsCount
<1> QED
  BY <1>1, CursorInPlace, PTL

\* The flat index of an element is a pointer's offset, and leads back to the element.
LEMMA FlatElement ==
  ASSUME NEW v \in Views, NEW x \in Elements(v), Dim(v) # 1
  PROVE  ByDim(v, x, flat2(v, flat2_index(v, LocalIndex(v, x))),
               flat3(v, flat3_index(v, LocalIndex(v, x))),
               flat4(v, flat4_index(v, LocalIndex(v, x)))) = x
<1> DEFINE n == Extent(v)
           p == RowRank(v, x)
           i == LocalIndex(v, x)
<1>1. /\ Dim(v) \in 1 .. 4
      /\ \A d \in 1 .. Dim(v) : n[d] \in Nat \ {0}
  BY ExtentFacts
<1>2. p \in 0 .. (Size(v) - 1) /\ p \in Nat
  BY RankBound, SizeIs
<1>3. p = ByDim(v, pointer1_offset(v, x), pointer2_offset(v, x),
                pointer3_offset(v, x), pointer4_offset(v, x))
  BY RowOffset
<1>4. \A d \in 1 .. Dim(v) : i[d] = x[d] - v.min[d]
  BY DEF LocalIndex
<1> HIDE DEF p, i
<1>5. p = ByDim(v, p, flat2_index(v, i), flat3_index(v, i), flat4_index(v, i))
  BY <1>1, <1>3, <1>4 DEF ByDim, pointer2_offset, pointer3_offset, pointer4_offset,
     flat2_index, flat3_index, flat4_index
<1>6. ByDim(v, x, flat2(v, p), flat3(v, p), flat4(v, p)) = IndexOf("pointer", v, p)
  <2> HIDE DEF n
  <2>1. CASE Dim(v) = 2
    BY <2>1 DEF ByDim, IndexOf, Blockwise, flat2, pointer2_index
  <2>2. CASE Dim(v) = 3
    <3>1. n[1] \in Nat \ {0} /\ n[2] \in Nat \ {0}
      BY <1>1, <2>2
    <3>2. (p \div n[1]) \div n[2] = p \div (n[1] * n[2])
      BY <1>2, <3>1, DivDiv
    <3>3. flat3(v, p) = pointer3_index(v, p)
      BY <3>2 DEF flat3, pointer3_index, n
    <3> QED
      BY <2>2, <3>3 DEF ByDim, IndexOf, Blockwise
  <2>3. CASE Dim(v) = 4
    <3>1. n[1] \in Nat \ {0} /\ n[2] \in Nat \ {0} /\ n[3] \in Nat \ {0} /\ n[1] * n[2] \in Nat \ {0}
      BY <1>1, <2>3, ProductType
    <3>2. (p \div n[1]) \div n[2] = p \div (n[1] * n[2])
      BY <1>2, <3>1, DivDiv
    <3>3. (p \div (n[1] * n[2])) \div n[3] = p \div (n[1] * n[2] * n[3])
      BY <1>2, <3>1, DivDiv
    <3>4. flat4(v, p) = pointer4_index(v, p)
      BY <3>2, <3>3 DEF flat4, pointer4_index, n
    <3> QED
      BY <2>3, <3>4 DEF ByDim, IndexOf, Blockwise
  <2> QED
    BY <1>1, <2>1, <2>2, <2>3
<1>7. IndexOf("pointer", v, p) = x
  <2>1. p \in 0 .. Size(v) /\ p # Size(v)
    BY <1>2, SizeIs
  <2>2. Place("pointer", v, IndexOf("pointer", v, p), p)
    BY <2>1, PlaceOfIndex
  <2>3. IndexOf("pointer", v, p) \in Elements(v) /\ Rank("pointer", v, IndexOf("pointer", v, p)) = p
    BY <2>1, <2>2 DEF Place
  <2>4. Rank("pointer", v, x) = p
    BY DEF Rank, Blockwise, p
  <2> QED
    BY <2>3, <2>4, EarlierRank
<1> QED
  BY <1>1, <1>5, <1>6, <1>7 DEF ByDim, i

\* A slice begins k elements further along d, at z.
SliceAt(D, u, d, k, z) ==
  /\ D \in Nat /\ u.min \in [1 .. D -> Nat] /\ d \in 1 .. D /\ z \in Nat /\ u.min[d] + k = z
SlicedAt(D, u, w, d, z) ==
  /\ w.min \in [1 .. D -> Nat] /\ w.min[d] = z
  /\ \A e \in 1 .. D : e # d => w.min[e] = u.min[e]

\* Slicing sets where the view begins along one dimension.
LEMMA SliceBegins ==
  \A D, u, d, k, z : SliceAt(D, u, d, k, z) => SlicedAt(D, u, Slice(u, d, k), d, z)
<1>1. SUFFICES ASSUME NEW D, NEW u, NEW d, NEW k, NEW z, SliceAt(D, u, d, k, z)
               PROVE  SlicedAt(D, u, Slice(u, d, k), d, z)
  OBVIOUS
<1> DEFINE m == u.min
<1>2. D \in Nat /\ m \in [1 .. D -> Nat] /\ d \in 1 .. D /\ z \in Nat /\ m[d] + k = z
  BY <1>1 DEF SliceAt
<1>3. Slice(u, d, k).min = [m EXCEPT ![d] = z]
  <2>1. Slice(u, d, k).min = [m EXCEPT ![d] = m[d] + k]
    BY DEF Slice
  <2> HIDE DEF m
  <2> QED
    BY <1>2, <2>1
<1> HIDE DEF m
<1>4. /\ [m EXCEPT ![d] = z] \in [1 .. D -> Nat] /\ [m EXCEPT ![d] = z][d] = z
      /\ \A e \in 1 .. D : e # d => [m EXCEPT ![d] = z][e] = m[e]
  BY <1>2
<1> QED
  BY <1>3, <1>4 DEF m, SlicedAt

\* Slicing a nested view along one dimension after the other leads to the element.
LEMMA NestedElement ==
  ASSUME NEW v \in Views, NEW x \in Elements(v), Dim(v) # 1
  PROVE  ByDim(v, x, nested2(v, LocalIndex(v, x)), nested3(v, LocalIndex(v, x)),
               nested4(v, LocalIndex(v, x))) = x
<1> DEFINE i == LocalIndex(v, x)
<1>1. Dim(v) \in 1 .. 4 /\ v.min \in [1 .. Dim(v) -> Nat]
  BY ViewFacts
<1>2. x = [d \in 1 .. Dim(v) |-> x[d]]
  BY IsElement
<1>3. \A d \in 1 .. Dim(v) : x[d] \in Nat /\ v.min[d] + i[d] = x[d]
  <2>1. \A d \in 1 .. Dim(v) : i[d] = x[d] - v.min[d]
    BY DEF LocalIndex
  <2>2. \A d \in 1 .. Dim(v) : /\ x[d] \in v.min[d] .. (v.max[d] - 1)
                               /\ v.min[d] \in Nat /\ v.max[d] \in Nat
    BY Along
  <2> HIDE DEF i
  <2> QED
    BY <2>1, <2>2
<1>4. ASSUME NEW m \in [1 .. Dim(v) -> Nat], \A d \in 1 .. Dim(v) : m[d] = x[d]
      PROVE  m = x
  <2>1. m = [d \in 1 .. Dim(v) |-> m[d]]
    OBVIOUS
  <2>2. [d \in 1 .. Dim(v) |-> m[d]] = [d \in 1 .. Dim(v) |-> x[d]]
    BY <1>4
  <2> QED
    BY <1>2, <2>1, <2>2
<1> HIDE DEF i
<1>5. CASE Dim(v) = 2
  <2> DEFINE w2 == Slice(v, 2, i[2])
             w1 == Slice(w2, 1, i[1])
  <2>1. nested2(v, i) = w1.min
    BY DEF nested2
  <2>2. /\ 1 \in 1 .. 2 /\ x[1] \in Nat /\ v.min[1] + i[1] = x[1]
        /\ 2 \in 1 .. 2 /\ x[2] \in Nat /\ v.min[2] + i[2] = x[2]
    BY <1>3, <1>5
  <2>3. v.min \in [1 .. 2 -> Nat]
    BY <1>1, <1>5
  <2>4. /\ w2.min \in [1 .. 2 -> Nat]
        /\ w2.min[1] = v.min[1] /\ w2.min[2] = x[2]
    <3>1. SliceAt(2, v, 2, i[2], x[2])
      BY <2>2, <2>3 DEF SliceAt
    <3>2. SlicedAt(2, v, w2, 2, x[2])
      BY <3>1, SliceBegins
    <3> HIDE DEF w2
    <3> QED
      BY <2>2, <2>3, <3>2 DEF SlicedAt
  <2>5. /\ w1.min \in [1 .. 2 -> Nat]
        /\ w1.min[1] = x[1] /\ w1.min[2] = x[2]
    <3> HIDE DEF w2
    <3>1. SliceAt(2, w2, 1, i[1], x[1])
      BY <2>2, <2>4 DEF SliceAt
    <3>2. SlicedAt(2, w2, w1, 1, x[1])
      BY <3>1, SliceBegins
    <3> HIDE DEF w1
    <3> QED
      BY <2>2, <2>4, <3>2 DEF SlicedAt
  <2> HIDE DEF w1, w2
  <2>6. w1.min = x
    <3>1. \A d \in 1 .. 2 : d = 1 \/ d = 2
      OBVIOUS
    <3>2. \A d \in 1 .. 2 : w1.min[d] = x[d]
      BY <2>5, <3>1
    <3> QED
      BY <1>4, <1>5, <2>5, <3>2
  <2> QED
    BY <1>5, <2>1, <2>6 DEF ByDim, i
<1>6. CASE Dim(v) = 3
  <2> DEFINE w3 == Slice(v, 3, i[3])
             w2 == Slice(w3, 2, i[2])
             w1 == Slice(w2, 1, i[1])
  <2>1. nested3(v, i) = w1.min
    BY DEF nested3
  <2>2. /\ 1 \in 1 .. 3 /\ x[1] \in Nat /\ v.min[1] + i[1] = x[1]
        /\ 2 \in 1 .. 3 /\ x[2] \in Nat /\ v.min[2] + i[2] = x[2]
        /\ 3 \in 1 .. 3 /\ x[3] \in Nat /\ v.min[3] + i[3] = x[3]
    BY <1>3, <1>6
  <2>3. v.min \in [1 .. 3 -> Nat]
    BY <1>1, <1>6
  <2>4. /\ w3.min \in [1 .. 3 -> Nat]
        /\ w3.min[1] = v.min[1] /\ w3.min[2] = v.min[2] /\ w3.min[3] = x[3]
    <3>1. SliceAt(3, v, 3, i[3], x[3])
      BY <2>2, <2>3 DEF SliceAt
    <3>2. SlicedAt(3, v, w3, 3, x[3])
      BY <3>1, SliceBegins
    <3> HIDE DEF w3
    <3> QED
      BY <2>2, <2>3, <3>2 DEF SlicedAt
  <2>5. /\ w2.min \in [1 .. 3 -> Nat]
        /\ w2.min[1] = v.min[1] /\ w2.min[2] = x[2] /\ w2.min[3] = x[3]
    <3> HIDE DEF w3
    <3>1. SliceAt(3, w3, 2, i[2], x[2])
      BY <2>2, <2>4 DEF SliceAt
    <3>2. SlicedAt(3, w3, w2, 2, x[2])
      BY <3>1, SliceBegins
    <3> HIDE DEF w2
    <3> QED
      BY <2>2, <2>4, <3>2 DEF SlicedAt
  <2>6. /\ w1.min \in [1 .. 3 -> Nat]
        /\ w1.min[1] = x[1] /\ w1.min[2] = x[2] /\ w1.min[3] = x[3]
    <3> HIDE DEF w2
    <3>1. SliceAt(3, w2, 1, i[1], x[1])
      BY <2>2, <2>5 DEF SliceAt
    <3>2. SlicedAt(3, w2, w1, 1, x[1])
      BY <3>1, SliceBegins
    <3> HIDE DEF w1
    <3> QED
      BY <2>2, <2>5, <3>2 DEF SlicedAt
  <2> HIDE DEF w1, w2, w3
  <2>7. w1.min = x
    <3>1. \A d \in 1 .. 3 : d = 1 \/ d = 2 \/ d = 3
      OBVIOUS
    <3>2. \A d \in 1 .. 3 : w1.min[d] = x[d]
      BY <2>6, <3>1
    <3> QED
      BY <1>4, <1>6, <2>6, <3>2
  <2> QED
    BY <1>6, <2>1, <2>7 DEF ByDim, i
<1>7. CASE Dim(v) = 4
  <2> DEFINE w4 == Slice(v, 4, i[4])
             w3 == Slice(w4, 3, i[3])
             w2 == Slice(w3, 2, i[2])
             w1 == Slice(w2, 1, i[1])
  <2>1. nested4(v, i) = w1.min
    BY DEF nested4
  <2>2. /\ 1 \in 1 .. 4 /\ x[1] \in Nat /\ v.min[1] + i[1] = x[1]
        /\ 2 \in 1 .. 4 /\ x[2] \in Nat /\ v.min[2] + i[2] = x[2]
        /\ 3 \in 1 .. 4 /\ x[3] \in Nat /\ v.min[3] + i[3] = x[3]
        /\ 4 \in 1 .. 4 /\ x[4] \in Nat /\ v.min[4] + i[4] = x[4]
    BY <1>3, <1>7
  <2>3. v.min \in [1 .. 4 -> Nat]
    BY <1>1, <1>7
  <2>4. /\ w4.min \in [1 .. 4 -> Nat]
        /\ w4.min[1] = v.min[1] /\ w4.min[2] = v.min[2] /\ w4.min[3] = v.min[3] /\ w4.min[4] = x[4]
    <3>1. SliceAt(4, v, 4, i[4], x[4])
      BY <2>2, <2>3 DEF SliceAt
    <3>2. SlicedAt(4, v, w4, 4, x[4])
      BY <3>1, SliceBegins
    <3> HIDE DEF w4
    <3> QED
      BY <2>2, <2>3, <3>2 DEF SlicedAt
  <2>5. /\ w3.min \in [1 .. 4 -> Nat]
        /\ w3.min[1] = v.min[1] /\ w3.min[2] = v.min[2] /\ w3.min[3] = x[3] /\ w3.min[4] = x[4]
    <3> HIDE DEF w4
    <3>1. SliceAt(4, w4, 3, i[3], x[3])
      BY <2>2, <2>4 DEF SliceAt
    <3>2. SlicedAt(4, w4, w3, 3, x[3])
      BY <3>1, SliceBegins
    <3> HIDE DEF w3
    <3> QED
      BY <2>2, <2>4, <3>2 DEF SlicedAt
  <2>6. /\ w2.min \in [1 .. 4 -> Nat]
        /\ w2.min[1] = v.min[1] /\ w2.min[2] = x[2] /\ w2.min[3] = x[3] /\ w2.min[4] = x[4]
    <3> HIDE DEF w3
    <3>1. SliceAt(4, w3, 2, i[2], x[2])
      BY <2>2, <2>5 DEF SliceAt
    <3>2. SlicedAt(4, w3, w2, 2, x[2])
      BY <3>1, SliceBegins
    <3> HIDE DEF w2
    <3> QED
      BY <2>2, <2>5, <3>2 DEF SlicedAt
  <2>7. /\ w1.min \in [1 .. 4 -> Nat]
        /\ w1.min[1] = x[1] /\ w1.min[2] = x[2] /\ w1.min[3] = x[3] /\ w1.min[4] = x[4]
    <3> HIDE DEF w2
    <3>1. SliceAt(4, w2, 1, i[1], x[1])
      BY <2>2, <2>6 DEF SliceAt
    <3>2. SlicedAt(4, w2, w1, 1, x[1])
      BY <3>1, SliceBegins
    <3> HIDE DEF w1
    <3> QED
      BY <2>2, <2>6, <3>2 DEF SlicedAt
  <2> HIDE DEF w1, w2, w3, w4
  <2>8. w1.min = x
    <3>1. \A d \in 1 .. 4 : d = 1 \/ d = 2 \/ d = 3 \/ d = 4
      OBVIOUS
    <3>2. \A d \in 1 .. 4 : w1.min[d] = x[d]
      BY <2>7, <3>1
    <3> QED
      BY <1>4, <1>7, <2>7, <3>2
  <2> QED
    BY <1>7, <2>1, <2>8 DEF ByDim, i
<1> QED
  BY <1>1, <1>5, <1>6, <1>7

\* The indices that a cursor reports lead back to its element, in flat and in nested views
\* (i(), j(), k() and l() of iterators and pointers, index() and operator[] of views).
THEOREM CursorElement == Spec => []SameElement
<1>1. CursorInv => SameElement
  <2> DEFINE i == LocalIndex(view, at)
             Two == flat2(view, flat2_index(view, i)) = at /\ nested2(view, i) = at
             Three == flat3(view, flat3_index(view, i)) = at /\ nested3(view, i) = at
             Four == flat4(view, flat4_index(view, i)) = at /\ nested4(view, i) = at
  <2>1. SUFFICES ASSUME CursorInv, count < Size(view)
                 PROVE  CASE Dim(view) = 1 -> TRUE [] Dim(view) = 2 -> Two
                          [] Dim(view) = 3 -> Three [] Dim(view) = 4 -> Four
    BY DEF SameElement
  <2>2. view \in Views /\ at \in Elements(view) /\ Dim(view) \in 1 .. 4
    BY <2>1, SizeIs, ViewFacts DEF CursorInv, Cursor, Place
  <2>3. Dim(view) = 2 => Two
    BY <2>2, FlatElement, NestedElement DEF ByDim
  <2>4. Dim(view) = 3 => Three
    BY <2>2, FlatElement, NestedElement DEF ByDim
  <2>5. Dim(view) = 4 => Four
    BY <2>2, FlatElement, NestedElement DEF ByDim
  <2> HIDE DEF Two, Three, Four
  <2>6. CASE Dim(view) = 1
    BY <2>6
  <2>7. CASE Dim(view) = 2
    BY <2>3, <2>7
  <2>8. CASE Dim(view) = 3
    BY <2>4, <2>8
  <2>9. CASE Dim(view) = 4
    BY <2>5, <2>9
  <2>10. Dim(view) = 1 \/ Dim(view) = 2 \/ Dim(view) = 3 \/ Dim(view) = 4
    BY <2>2
  <2> QED
    BY <2>6, <2>7, <2>8, <2>9, <2>10, Zenon
<1> QED
  BY <1>1, CursorInPlace, PTL
=============================================================================
