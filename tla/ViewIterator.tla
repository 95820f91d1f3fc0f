----------------------------- MODULE ViewIterator -----------------------------
(***************************************************************************)
(* Iterators and pointers into arrays and views of one to four dimensions  *)
(* (iterator1.hpp to iterator4.hpp, pointer1.hpp to pointer4.hpp), and     *)
(* those of the C bindings (cfparray1.cpp to cfparray4.cpp).               *)
(*                                                                         *)
(* An iterator visits the elements block by block, a pointer row by row.   *)
(* A view may begin and end within a block, so the carries of an iterator  *)
(* meet blocks that are cut off on either side.  A program holds a cursor  *)
(* into a view and moves it; count is where its moves should have taken    *)
(* it, as the number of elements before it.                                *)
(*                                                                         *)
(* A view is a record of its bounds: it holds the elements x with          *)
(* min[d] <= x[d] < max[d]; an array is the view with min[d] = 0.          *)
(***************************************************************************)
EXTENDS Integers, Sequences, FiniteSets

CONSTANTS
  BlockSize,      \* elements per block along a dimension: 4
  Views           \* the views considered

ASSUME ViewsAssumption ==
  /\ BlockSize \in Nat \ {0}
  /\ Views \subseteq [min : Seq(Nat), max : Seq(Nat)]
  /\ \A v \in Views :
       /\ Len(v.min) \in 1 .. 4 /\ Len(v.max) = Len(v.min)
       /\ \A d \in 1 .. Len(v.min) : v.min[d] < v.max[d]

VARIABLES
  view,           \* the view
  kind,           \* of cursor: "iterator", "pointer", "cfp_iter" or "cfp_ptr"
  at,             \* the element that the cursor designates
  count           \* the elements that it has been moved past

vars == <<view, kind, at, count>>

Most(m, n) == IF m > n THEN m ELSE n
Fewest(m, n) == IF m < n THEN m ELSE n

Dim(v) == Len(v.min)
Extent(v) == [d \in 1 .. Dim(v) |-> v.max[d] - v.min[d]]
\* The members of the class or the functions for the dimensionality of the view.
ByDim(v, a, b, c, e) == CASE Dim(v) = 1 -> a [] Dim(v) = 2 -> b [] Dim(v) = 3 -> c [] Dim(v) = 4 -> e
Size(v) ==
  LET n == Extent(v)
  IN  ByDim(v, n[1], n[1] * n[2], n[1] * n[2] * n[3], n[1] * n[2] * n[3] * n[4])

\* x & ~3: the first element of the block.
Floor(x) == x - (x % BlockSize)
\* The first element of the view, along d, in the block of x; how many of the
\* block's elements are in the view, given the first.
BlockMin(v, d, x) == Most(Floor(x), v.min[d])
\* Mutant: blocks that the view ends in are taken to be whole.
BlockExtentWhole(v, d, b) == Floor(b + BlockSize) - b
BlockExtent(v, d, b) == Fewest(Floor(b + BlockSize), v.max[d]) - b

-----------------------------------------------------------------------------
\* Sequential offset of element x, in the order of blocks.
iterator1_offset(v, x) == x[1] - v.min[1]

iterator2_offset(v, x) ==
  LET b == [d \in 1 .. 2 |-> BlockMin(v, d, x[d])]
      s == [d \in 1 .. 2 |-> BlockExtent(v, d, b[d])]
      n == Extent(v)
  IN  IF x[2] = v.max[2] THEN n[1] * n[2]
      ELSE (b[2] - v.min[2]) * n[1] + (b[1] - v.min[1]) * s[2]
           + (x[2] - b[2]) * s[1] + (x[1] - b[1])

iterator3_offset(v, x) ==
  LET b == [d \in 1 .. 3 |-> BlockMin(v, d, x[d])]
      s == [d \in 1 .. 3 |-> BlockExtent(v, d, b[d])]
      n == Extent(v)
  IN  IF x[3] = v.max[3] THEN n[1] * n[2] * n[3]
      ELSE (b[3] - v.min[3]) * n[1] * n[2] + (b[2] - v.min[2]) * n[1] * s[3]
           + (b[1] - v.min[1]) * s[2] * s[3]
           + (x[3] - b[3]) * s[1] * s[2] + (x[2] - b[2]) * s[1] + (x[1] - b[1])

iterator4_offset(v, x) ==
  LET b == [d \in 1 .. 4 |-> BlockMin(v, d, x[d])]
      s == [d \in 1 .. 4 |-> BlockExtent(v, d, b[d])]
      n == Extent(v)
  IN  IF x[4] = v.max[4] THEN n[1] * n[2] * n[3] * n[4]
      ELSE (b[4] - v.min[4]) * n[1] * n[2] * n[3] + (b[3] - v.min[3]) * n[1] * n[2] * s[4]
           + (b[2] - v.min[2]) * n[1] * s[3] * s[4] + (b[1] - v.min[1]) * s[2] * s[3] * s[4]
           + (x[4] - b[4]) * s[1] * s[2] * s[3]
           + (x[3] - b[3]) * s[1] * s[2] + (x[2] - b[2]) * s[1] + (x[1] - b[1])

-----------------------------------------------------------------------------
\* The first element along d of the block that sequential offset p is in,
\* when there are unit elements for each step along d.
BlockAt(v, d, p, unit) == BlockMin(v, d, v.min[d] + p \div unit)

\* The element at sequential offset p.
iterator1_index(v, p) == <<v.min[1] + p>>

iterator2_index(v, p) ==
  LET n == Extent(v)
      by == BlockAt(v, 2, p, n[1])     sy == BlockExtent(v, 2, by)
      p1 == p - (by - v.min[2]) * n[1]
      bx == BlockAt(v, 1, p1, sy)      sx == BlockExtent(v, 1, bx)
      r == p1 - (bx - v.min[1]) * sy
  IN  IF p = n[1] * n[2] THEN <<v.min[1], v.max[2]>>
      ELSE <<bx + (r % sx), by + r \div sx>>

iterator3_index(v, p) ==
  LET n == Extent(v)
      bz == BlockAt(v, 3, p, n[1] * n[2])   sz == BlockExtent(v, 3, bz)
      p2 == p - (bz - v.min[3]) * n[1] * n[2]
      by == BlockAt(v, 2, p2, n[1] * sz)    sy == BlockExtent(v, 2, by)
      p1 == p2 - (by - v.min[2]) * n[1] * sz
      bx == BlockAt(v, 1, p1, sy * sz)      sx == BlockExtent(v, 1, bx)
      r == p1 - (bx - v.min[1]) * sy * sz
  IN  IF p = n[1] * n[2] * n[3] THEN <<v.min[1], v.min[2], v.max[3]>>
      ELSE <<bx + (r % sx), by + ((r \div sx) % sy), bz + r \div (sx * sy)>>

iterator4_index(v, p) ==
  LET n == Extent(v)
      bw == BlockAt(v, 4, p, n[1] * n[2] * n[3])   sw == BlockExtent(v, 4, bw)
      p3 == p - (bw - v.min[4]) * n[1] * n[2] * n[3]
      bz == BlockAt(v, 3, p3, n[1] * n[2] * sw)    sz == BlockExtent(v, 3, bz)
      p2 == p3 - (bz - v.min[3]) * n[1] * n[2] * sw
      by == BlockAt(v, 2, p2, n[1] * sz * sw)      sy == BlockExtent(v, 2, by)
      p1 == p2 - (by - v.min[2]) * n[1] * sz * sw
      bx == BlockAt(v, 1, p1, sy * sz * sw)        sx == BlockExtent(v, 1, bx)
      r == p1 - (bx - v.min[1]) * sy * sz * sw
  IN  IF p = n[1] * n[2] * n[3] * n[4] THEN <<v.min[1], v.min[2], v.min[3], v.max[4]>>
      ELSE <<bx + (r % sx), by + ((r \div sx) % sy), bz + ((r \div (sx * sy)) % sz),
             bw + r \div (sx * sy * sz)>>

-----------------------------------------------------------------------------
\* How many of the dimensions 1, 2, ... of v, those in over overflowing, carry one after the
\* other.
Carries(v, over) ==
  CHOOSE c \in 0 .. Dim(v) : 1 .. c \subseteq over /\ (c < Dim(v) => c + 1 \notin over)

\* Past the last element of v.
End(v) == [v.min EXCEPT ![Dim(v)] = v.max[Dim(v)]]

\* The next element of the block (dimensions 1 to c are at the end of it), or
\* the first one of the next block (dimensions 1 to a are in the last block).
\* Mutant: the block begins at a multiple of the block size even where the
\* view begins later.
AdvanceUnclipped(v, x) ==
  LET c == Carries(v, {d \in 1 .. Dim(v) : (x[d] + 1) % BlockSize = 0 \/ x[d] + 1 = v.max[d]})
      b == [d \in 1 .. Dim(v) |-> IF d <= c THEN Floor(x[d]) ELSE x[d]]
      a == Carries(v, {d \in 1 .. Dim(v) : Floor(b[d] + BlockSize) >= v.max[d]})
  IN  IF c < Dim(v) THEN [b EXCEPT ![c + 1] = @ + 1]
      ELSE IF a < Dim(v)
      THEN [d \in 1 .. Dim(v) |-> IF d <= a THEN v.min[d]
                                  ELSE IF d = a + 1 THEN Floor(b[d] + BlockSize) ELSE b[d]]
      ELSE End(v)
Advance(v, x) ==
  LET c == Carries(v, {d \in 1 .. Dim(v) : (x[d] + 1) % BlockSize = 0 \/ x[d] + 1 = v.max[d]})
      b == [d \in 1 .. Dim(v) |-> IF d <= c THEN BlockMin(v, d, x[d]) ELSE x[d]]
      a == Carries(v, {d \in 1 .. Dim(v) : Floor(b[d] + BlockSize) >= v.max[d]})
  IN  IF c < Dim(v) THEN [b EXCEPT ![c + 1] = @ + 1]
      ELSE IF a < Dim(v)
      THEN [d \in 1 .. Dim(v) |-> IF d <= a THEN v.min[d]
                                  ELSE IF d = a + 1 THEN Floor(b[d] + BlockSize) ELSE b[d]]
      ELSE End(v)

\* The element before x: in its block (dimensions 1 to c are at the beginning
\* of it), or the last one of the block before (dimensions 1 to a are in the
\* first block).  The dimensions up to the one that borrows are one too large
\* until the last line.
Retreat(v, x) ==
  LET c == Carries(v, {d \in 1 .. Dim(v) : x[d] % BlockSize = 0 \/ x[d] = v.min[d]})
      e == [d \in 1 .. Dim(v) |->
              IF d <= c THEN Fewest(Floor(x[d] + BlockSize), v.max[d]) ELSE x[d]]
      a == IF c < Dim(v) THEN 0 ELSE Carries(v, {d \in 1 .. Dim(v) : Floor(e[d] - 1) <= v.min[d]})
      f == [d \in 1 .. Dim(v) |->
              IF d <= a THEN v.max[d]
              ELSE IF c = Dim(v) /\ d = a + 1 THEN Floor(e[d] - 1) ELSE e[d]]
  IN  IF x[Dim(v)] = v.max[Dim(v)] THEN [d \in 1 .. Dim(v) |-> v.max[d] - 1]
      ELSE [d \in 1 .. Dim(v) |-> IF d <= c + 1 THEN f[d] - 1 ELSE f[d]]

iterator1_increment(v, x) == <<x[1] + 1>>
iterator2_increment(v, x) == Advance(v, x)
iterator3_increment(v, x) == Advance(v, x)
iterator4_increment(v, x) == Advance(v, x)
iterator1_decrement(v, x) == <<x[1] - 1>>
iterator2_decrement(v, x) == Retreat(v, x)
iterator3_decrement(v, x) == Retreat(v, x)
iterator4_decrement(v, x) == Retreat(v, x)

-----------------------------------------------------------------------------
\* Pointers: row by row.
pointer1_offset(v, x) == x[1] - v.min[1]
pointer2_offset(v, x) ==
  LET n == Extent(v) IN (x[1] - v.min[1]) + n[1] * (x[2] - v.min[2])
pointer3_offset(v, x) ==
  LET n == Extent(v)
  IN  (x[1] - v.min[1]) + n[1] * ((x[2] - v.min[2]) + n[2] * (x[3] - v.min[3]))
pointer4_offset(v, x) ==
  LET n == Extent(v)
  IN  (x[1] - v.min[1])
      + n[1] * ((x[2] - v.min[2])
      + n[2] * ((x[3] - v.min[3]) + n[3] * (x[4] - v.min[4])))

pointer1_index(v, p) == <<v.min[1] + p>>
pointer2_index(v, p) ==
  LET n == Extent(v) IN <<v.min[1] + (p % n[1]), v.min[2] + p \div n[1]>>
pointer3_index(v, p) ==
  LET n == Extent(v)
  IN  <<v.min[1] + (p % n[1]), v.min[2] + ((p \div n[1]) % n[2]),
        v.min[3] + p \div (n[1] * n[2])>>
pointer4_index(v, p) ==
  LET n == Extent(v)
  IN  <<v.min[1] + (p % n[1]), v.min[2] + ((p \div n[1]) % n[2]),
        v.min[3] + ((p \div (n[1] * n[2])) % n[3]), v.min[4] + p \div (n[1] * n[2] * n[3])>>

\* ++x and x-- with the carries into the dimensions up to D = Dim(v); the last
\* one does not wrap around.
RowAdvance(v, x) ==
  LET c == Carries(v, {d \in 1 .. Dim(v) : d < Dim(v) /\ x[d] + 1 = v.max[d]})
  IN  [d \in 1 .. Dim(v) |-> IF d <= c THEN v.min[d] ELSE IF d = c + 1 THEN x[d] + 1 ELSE x[d]]
RowRetreat(v, x) ==
  LET c == Carries(v, {d \in 1 .. Dim(v) : d < Dim(v) /\ x[d] = v.min[d]})
  IN  [d \in 1 .. Dim(v) |-> IF d <= c THEN x[d] - 1 + (v.max[d] - v.min[d])
                             ELSE IF d = c + 1 THEN x[d] - 1 ELSE x[d]]

pointer1_step(v, x, up) == <<IF up THEN x[1] + 1 ELSE x[1] - 1>>
pointer2_step(v, x, up) == IF up THEN RowAdvance(v, x) ELSE RowRetreat(v, x)
pointer3_step(v, x, up) == IF up THEN RowAdvance(v, x) ELSE RowRetreat(v, x)
pointer4_step(v, x, up) == IF up THEN RowAdvance(v, x) ELSE RowRetreat(v, x)

-----------------------------------------------------------------------------
\* The C bindings have iterators and pointers of their own, into whole arrays:
\* v.min is 0 (cfparray1.cpp to cfparray4.cpp).
cfp1_ref_offset(v, x) == x[1]
cfp2_ref_offset(v, x) == x[1] + Extent(v)[1] * x[2]
cfp3_ref_offset(v, x) == LET n == Extent(v) IN x[1] + n[1] * (x[2] + n[2] * x[3])
cfp4_ref_offset(v, x) ==
  LET n == Extent(v) IN x[1] + n[1] * (x[2] + n[2] * (x[3] + n[3] * x[4]))

cfp1_ref_set_offset(v, p) == <<p>>
cfp2_ref_set_offset(v, p) == LET n == Extent(v) IN <<p % n[1], p \div n[1]>>
cfp3_ref_set_offset(v, p) ==
  LET n == Extent(v)
      q == p \div n[1]
  IN  <<p % n[1], q % n[2], q \div n[2]>>
cfp4_ref_set_offset(v, p) ==
  LET n == Extent(v)
      q == p \div n[1]
      r == q \div n[2]
  IN  <<p % n[1], q % n[2], r % n[3], r \div n[3]>>

\* next, prev, inc and dec of pointers.
cfp1_ptr_next(v, x, k) == cfp1_ref_set_offset(v, cfp1_ref_offset(v, x) + k)
cfp2_ptr_next(v, x, k) == cfp2_ref_set_offset(v, cfp2_ref_offset(v, x) + k)
cfp3_ptr_next(v, x, k) == cfp3_ref_set_offset(v, cfp3_ref_offset(v, x) + k)
cfp4_ptr_next(v, x, k) == cfp4_ref_set_offset(v, cfp4_ref_offset(v, x) + k)

\* Iterators repeat the arithmetic of the C++ ones with v.min = 0.
cfp2_iter_offset(v, x) == iterator2_offset(v, x)
cfp3_iter_offset(v, x) == iterator3_offset(v, x)
cfp4_iter_offset(v, x) == iterator4_offset(v, x)
cfp2_iter_set_offset(v, p) == iterator2_index(v, p)
cfp3_iter_set_offset(v, p) == iterator3_index(v, p)
cfp4_iter_set_offset(v, p) == iterator4_index(v, p)
cfp1_iter_next(v, x, k) == <<x[1] + k>>
cfp2_iter_next(v, x, k) == cfp2_iter_set_offset(v, cfp2_iter_offset(v, x) + k)
cfp3_iter_next(v, x, k) == cfp3_iter_set_offset(v, cfp3_iter_offset(v, x) + k)
cfp4_iter_next(v, x, k) == cfp4_iter_set_offset(v, cfp4_iter_offset(v, x) + k)
cfp2_iter_inc(v, x) == Advance(v, x)
cfp3_iter_inc(v, x) == Advance(v, x)
cfp4_iter_inc(v, x) == Advance(v, x)
cfp2_iter_dec(v, x) == Retreat(v, x)
cfp3_iter_dec(v, x) == Retreat(v, x)
cfp4_iter_dec(v, x) == Retreat(v, x)

\* lt, eq and distance of cursors at x and y with offsets p and q; gt, leq, geq
\* and neq are their converses and negations.
Compared(x, y, p, q) == [lt |-> p < q, eq |-> x = y, distance |-> q - p]

iterator_compare(v, x, y, Offset(_, _)) == Compared(x, y, Offset(v, x), Offset(v, y))
cfp1_ptr_compare(v, x, y) == Compared(x, y, x[1], y[1])
cfp2_ptr_compare(v, x, y) == Compared(x, y, cfp2_ref_offset(v, x), cfp2_ref_offset(v, y))
cfp3_ptr_compare(v, x, y) == Compared(x, y, cfp3_ref_offset(v, x), cfp3_ref_offset(v, y))
cfp4_ptr_compare(v, x, y) == Compared(x, y, cfp4_ref_offset(v, x), cfp4_ref_offset(v, y))
cfp1_iter_compare(v, x, y) == Compared(x, y, x[1], y[1])
cfp2_iter_compare(v, x, y) == Compared(x, y, cfp2_iter_offset(v, x), cfp2_iter_offset(v, y))
cfp3_iter_compare(v, x, y) == Compared(x, y, cfp3_iter_offset(v, x), cfp3_iter_offset(v, y))
cfp4_iter_compare(v, x, y) == Compared(x, y, cfp4_iter_offset(v, x), cfp4_iter_offset(v, y))

-----------------------------------------------------------------------------
Offset(v, x) ==
  CASE kind = "iterator" -> ByDim(v, iterator1_offset(v, x), iterator2_offset(v, x),
                                  iterator3_offset(v, x), iterator4_offset(v, x))
    [] kind = "pointer" -> ByDim(v, pointer1_offset(v, x), pointer2_offset(v, x),
                                 pointer3_offset(v, x), pointer4_offset(v, x))

Moved(v, x, k) ==
  CASE kind = "iterator" ->
         LET p == Offset(v, x) + k
         IN  ByDim(v, iterator1_index(v, p), iterator2_index(v, p),
                   iterator3_index(v, p), iterator4_index(v, p))
    [] kind = "pointer" ->
         LET p == Offset(v, x) + k
         IN  ByDim(v, pointer1_index(v, p), pointer2_index(v, p),
                   pointer3_index(v, p), pointer4_index(v, p))
    [] kind = "cfp_iter" -> ByDim(v, cfp1_iter_next(v, x, k), cfp2_iter_next(v, x, k),
                                  cfp3_iter_next(v, x, k), cfp4_iter_next(v, x, k))
    [] kind = "cfp_ptr" -> ByDim(v, cfp1_ptr_next(v, x, k), cfp2_ptr_next(v, x, k),
                                 cfp3_ptr_next(v, x, k), cfp4_ptr_next(v, x, k))

Incremented(v, x) ==
  CASE kind = "iterator" -> ByDim(v, iterator1_increment(v, x), iterator2_increment(v, x),
                                  iterator3_increment(v, x), iterator4_increment(v, x))
    [] kind = "pointer" -> ByDim(v, pointer1_step(v, x, TRUE), pointer2_step(v, x, TRUE),
                                 pointer3_step(v, x, TRUE), pointer4_step(v, x, TRUE))
    [] kind = "cfp_iter" -> ByDim(v, cfp1_iter_next(v, x, 1), cfp2_iter_inc(v, x),
                                  cfp3_iter_inc(v, x), cfp4_iter_inc(v, x))
    [] kind = "cfp_ptr" -> Moved(v, x, 1)

Decremented(v, x) ==
  CASE kind = "iterator" -> ByDim(v, iterator1_decrement(v, x), iterator2_decrement(v, x),
                                  iterator3_decrement(v, x), iterator4_decrement(v, x))
    [] kind = "pointer" -> ByDim(v, pointer1_step(v, x, FALSE), pointer2_step(v, x, FALSE),
                                 pointer3_step(v, x, FALSE), pointer4_step(v, x, FALSE))
    [] kind = "cfp_iter" -> ByDim(v, cfp1_iter_next(v, x, -1), cfp2_iter_dec(v, x),
                                  cfp3_iter_dec(v, x), cfp4_iter_dec(v, x))
    [] kind = "cfp_ptr" -> Moved(v, x, -1)

\* Comparison of the cursor with another one of its kind, at y.
Compare(v, x, y) ==
  CASE kind \in {"iterator", "pointer"} -> iterator_compare(v, x, y, Offset)
    [] kind = "cfp_iter" -> ByDim(v, cfp1_iter_compare(v, x, y), cfp2_iter_compare(v, x, y),
                                  cfp3_iter_compare(v, x, y), cfp4_iter_compare(v, x, y))
    [] kind = "cfp_ptr" -> ByDim(v, cfp1_ptr_compare(v, x, y), cfp2_ptr_compare(v, x, y),
                                 cfp3_ptr_compare(v, x, y), cfp4_ptr_compare(v, x, y))

-----------------------------------------------------------------------------
\* Accessors of views; i is the tuple of an element's indices within the view.
\* The flat views' index(i, j, ...) and operator[](p).
flat2_index(v, i) == LET n == Extent(v) IN i[1] + n[1] * i[2]
flat3_index(v, i) == LET n == Extent(v) IN i[1] + n[1] * (i[2] + n[2] * i[3])
flat4_index(v, i) ==
  LET n == Extent(v) IN i[1] + n[1] * (i[2] + n[2] * (i[3] + n[3] * i[4]))

flat2(v, p) == LET n == Extent(v) IN <<v.min[1] + (p % n[1]), v.min[2] + p \div n[1]>>
\* Mutant: the rows of the plane are counted with the wrong extent.
flat3Square(v, p) ==
  LET n == Extent(v)
      q == p \div n[1]
  IN  <<v.min[1] + (p % n[1]), v.min[2] + (q % n[1]), v.min[3] + q \div n[1]>>
flat3(v, p) ==
  LET n == Extent(v)
      q == p \div n[1]
  IN  <<v.min[1] + (p % n[1]), v.min[2] + (q % n[2]), v.min[3] + q \div n[2]>>
flat4(v, p) ==
  LET n == Extent(v)
      q == p \div n[1]
      r == q \div n[2]
  IN  <<v.min[1] + (p % n[1]), v.min[2] + (q % n[2]), v.min[3] + (r % n[3]),
        v.min[4] + r \div n[3]>>

\* The nested views' operator[](k): the view of one dimension less at k, along d.
Slice(v, d, k) ==
  [min |-> [v.min EXCEPT ![d] = @ + k], max |-> [v.max EXCEPT ![d] = v.min[d] + k + 1]]

\* v[j][i], v[k][j][i], v[l][k][j][i].
nested2(v, i) == Slice(Slice(v, 2, i[2]), 1, i[1]).min
nested3(v, i) == Slice(Slice(Slice(v, 3, i[3]), 2, i[2]), 1, i[1]).min
nested4(v, i) == Slice(Slice(Slice(Slice(v, 4, i[4]), 3, i[3]), 2, i[2]), 1, i[1]).min

\* The cursor's i(), j(), k(), l().
LocalIndex(v, x) == [d \in 1 .. Dim(v) |-> x[d] - v.min[d]]

\* begin(), or the address of the first element.
Init ==
  /\ view \in Views
  /\ kind \in {"iterator", "pointer", "cfp_iter", "cfp_ptr"}
  /\ kind \in {"cfp_iter", "cfp_ptr"} => \A d \in 1 .. Dim(view) : view.min[d] = 0
  /\ at = view.min
  /\ count = 0

Increment ==
  /\ count < Size(view)
  /\ at' = Incremented(view, at)
  /\ count' = count + 1
  /\ UNCHANGED <<view, kind>>

Decrement ==
  /\ count > 0
  /\ at' = Decremented(view, at)
  /\ count' = count - 1
  /\ UNCHANGED <<view, kind>>

\* operator+=, operator-=: to any element of the view or to its end.
AdvanceBy(k) ==
  /\ count + k \in 0 .. Size(view)
  /\ at' = Moved(view, at, k)
  /\ count' = count + k
  /\ UNCHANGED <<view, kind>>

Next ==
  \/ Increment
  \/ Decrement
  \/ \E k \in - Size(view) .. Size(view) : AdvanceBy(k)

Spec == Init /\ [][Next]_vars

-----------------------------------------------------------------------------
Elements(v) ==
  {x \in [1 .. Dim(v) -> UNION {v.min[d] .. (v.max[d] - 1) : d \in 1 .. Dim(v)}] :
     \A d \in 1 .. Dim(v) : v.min[d] <= x[d] /\ x[d] < v.max[d]}

\* Tuples compared by their last component first.
Precedes(x, y) ==
  \E d \in DOMAIN x : x[d] < y[d] /\ \A e \in DOMAIN x : e > d => x[e] = y[e]

BlockOf(x) == [d \in DOMAIN x |-> x[d] \div BlockSize]

\* The order "block by block" (iterator2.hpp:8): by block, then within it.
BlockOrder(x, y) ==
  \/ Precedes(BlockOf(x), BlockOf(y))
  \/ BlockOf(x) = BlockOf(y) /\ Precedes(x, y)

(***************************************************************************)
(* However a cursor is moved, back and forth, by one or by many, in a view *)
(* that begins and ends anywhere: it designates the element with as many   *)
(* elements before it as it was moved past, and end() after all of them.   *)
(* For an iterator they are counted in the order of blocks, so that a loop *)
(* visits every element once and enters every block once; for a pointer in *)
(* row-major order, as for a raw pointer into an uncompressed array.       *)
(***************************************************************************)
InOrder ==
  LET Before(x, y) == IF kind \in {"iterator", "cfp_iter"} THEN BlockOrder(x, y) ELSE Precedes(x, y)
  IN  IF count = Size(view) THEN at = End(view)
      ELSE /\ at \in Elements(view)
           /\ count = Cardinality({x \in Elements(view) : Before(x, at)})

(***************************************************************************)
(* Comparing a cursor with begin() and end() tells how many elements it    *)
(* was moved past and how many there are yet, in partial blocks too; and   *)
(* "less than the end", which compares offsets, says the same as "not      *)
(* equal to the end", which compares indices, so that both end a loop.     *)
(***************************************************************************)
DistanceIsCount ==
  LET e == Compare(view, at, End(view))
  IN  /\ Compare(view, view.min, at).distance = count
      /\ e.distance = Size(view) - count
      /\ e.lt = ~ e.eq

(***************************************************************************)
(* The indices that a cursor reports for its element lead back to it, in   *)
(* flat and in nested views of the same elements.                          *)
(***************************************************************************)
SameElement ==
  count < Size(view) =>
    LET i == LocalIndex(view, at)
    IN  CASE Dim(view) = 1 -> TRUE
          [] Dim(view) = 2 -> /\ flat2(view, flat2_index(view, i)) = at
                              /\ nested2(view, i) = at
          [] Dim(view) = 3 -> /\ flat3(view, flat3_index(view, i)) = at
                              /\ nested3(view, i) = at
          [] Dim(view) = 4 -> /\ flat4(view, flat4_index(view, i)) = at
                              /\ nested4(view, i) = at
=============================================================================
