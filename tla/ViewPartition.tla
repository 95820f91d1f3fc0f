--------------------------- MODULE ViewPartition ---------------------------
(***************************************************************************)
(* Partitioning a private mutable view among threads                       *)
(* (private_view::partition, view1.hpp to view4.hpp).                      *)
(*                                                                         *)
(* A team of threads begin with the same view, and each calls              *)
(* partition(index, count) with an index of its own; a thread may then be  *)
(* replaced by a team that partitions its piece again.  The state is the   *)
(* set of views that the threads hold.  Blocks may be compressed at the    *)
(* same time without a lock because no block belongs to two views.         *)
(***************************************************************************)
EXTENDS Integers, FiniteSets

CONSTANTS
  BlockSize,      \* elements per block along a dimension: 4
  SizeRange,      \* size_t is 0 .. SizeRange - 1
  Dims,           \* the dimensionalities considered
  Roots(_),       \* the whole views considered, for a dimensionality
  MaxCount,       \* bound on the number of pieces per call
  MaxViews        \* bound on the number of views

VARIABLES
  root,           \* the view before it is partitioned
  views           \* the views that the threads hold

vars == <<root, views>>

ASSUME SizesAssumption ==
  /\ BlockSize \in Nat \ {0}
  /\ SizeRange \in Nat
  /\ MaxCount \in Nat
  /\ Dims \subseteq 1 .. 4
  /\ \A D \in Dims : \A r \in Roots(D) :
       /\ r \in [x : [1 .. D -> Nat], n : [1 .. D -> Nat]]
       /\ \A d \in 1 .. D : r.x[d] + r.n[d] < SizeRange

Most(m, n) == IF m > n THEN m ELSE n
Fewest(m, n) == IF m < n THEN m ELSE n

\* Block at which piece i of c begins, of the blocks from lo to hi - 1.
\* Mutant: the piece is bounded before it is aligned with blocks.
CutUnaligned(lo, hi, i, c) == BlockSize * lo + (BlockSize * (hi - lo) * i) \div c
Cut(lo, hi, i, c) == BlockSize * (lo + ((hi - lo) * i) \div c)

\* The bounds of piece i of c of [x, x + n).
Bmin(x) == x \div BlockSize
Bmax(x, n) == (x + n + BlockSize - 1) \div BlockSize
Xmin(x, n, i, c) == Most(x, Cut(Bmin(x), Bmax(x, n), i, c))
\* Mutant: the last piece extends to the end of the last block.
XmaxUnclipped(x, n, i, c) == Cut(Bmin(x), Bmax(x, n), i + 1, c)
Xmax(x, n, i, c) == Fewest(x + n, Cut(Bmin(x), Bmax(x, n), i + 1, c))

\* The dimension along which a view with extents n is partitioned.
SplitDim(n) ==
  CASE DOMAIN n = 1 .. 1 -> 1
    [] DOMAIN n = 1 .. 2 -> IF n[1] > n[2] THEN 1 ELSE 2
    [] DOMAIN n = 1 .. 3 -> IF n[1] > Most(n[2], n[3]) THEN 1
                            ELSE IF n[2] > Most(n[1], n[3]) THEN 2 ELSE 3
    [] DOMAIN n = 1 .. 4 -> IF Most(n[1], n[2]) > Most(n[3], n[4])
                            THEN IF n[1] > n[2] THEN 1 ELSE 2
                            ELSE IF n[3] > n[4] THEN 3 ELSE 4

\* View v after partition(i, c).
Piece(v, i, c) ==
  LET d == SplitDim(v.n)
      lo == Xmin(v.x[d], v.n[d], i, c)
      hi == Xmax(v.x[d], v.n[d], i, c)
  IN  [x |-> [v.x EXCEPT ![d] = lo],
       n |-> [v.n EXCEPT ![d] = (hi - lo) % SizeRange]]

Init ==
  /\ \E D \in Dims : root \in Roots(D)
  /\ views = {root}

\* The c threads of a team that hold view v each call partition.
Partition(v, c) ==
  /\ v \in views
  /\ c \in 1 .. MaxCount
  /\ Cardinality(views) + c - 1 <= MaxViews
  /\ views' = (views \ {v}) \cup {Piece(v, i, c) : i \in 0 .. (c - 1)}
  /\ UNCHANGED root

Next == \E v \in views : \E c \in 1 .. MaxCount : Partition(v, c)

Spec == Init /\ [][Next]_vars

-----------------------------------------------------------------------------
\* Does view v contain element e of the array?
Contains(v, e) == \A d \in DOMAIN v.x : v.x[d] <= e[d] /\ e[d] < v.x[d] + v.n[d]

\* Does view v contain an element of block b?
Touches(v, b) ==
  \A d \in DOMAIN v.x :
    /\ v.n[d] > 0
    /\ v.x[d] < (b[d] + 1) * BlockSize
    /\ b[d] * BlockSize < v.x[d] + v.n[d]

\* The blocks that the whole view contains elements of.
RootBlocks ==
  {b \in [DOMAIN root.x ->
            UNION {Bmin(root.x[d]) .. Bmax(root.x[d], root.n[d]) : d \in DOMAIN root.x}] :
     Touches(root, b)}

(***************************************************************************)
(* "Each block of 4^d array elements must be associated with at most one   *)
(* private mutable view" (views.inc): the views that partition makes of a  *)
(* view share no block, however often and in whatever dimensions the       *)
(* pieces are partitioned again.                                           *)
(***************************************************************************)
NoSharedBlock ==
  \A v, w \in views : v # w =>
    ~ \E b \in RootBlocks : Touches(v, b) /\ Touches(w, b)

\* No piece, an empty one neither, reaches beyond the view it is a piece of.
PiecesWithin ==
  \A v \in views : \A d \in DOMAIN root.x :
    /\ root.x[d] <= v.x[d]
    /\ v.x[d] + v.n[d] <= root.x[d] + root.n[d]

\* No element of the view is left out: every one is in one of the pieces.
PiecesCover ==
  \A e \in [DOMAIN root.x ->
              UNION {root.x[d] .. (root.x[d] + root.n[d] - 1) : d \in DOMAIN root.x}] :
    Contains(root, e) => \E v \in views : Contains(v, e)

(***************************************************************************)
(* The pieces make up the view: they lie within it and leave nothing out.  *)
(* "This may result in empty views whose dimensions are zero, e.g., if     *)
(* there are more pieces than blocks along a dimension" (views.inc,        *)
(* private_view::partition).  The extents are unsigned: a piece that ends  *)
(* before it begins would be nearly as large as the address space.         *)
(***************************************************************************)
PiecesTile == PiecesWithin /\ PiecesCover
=============================================================================
