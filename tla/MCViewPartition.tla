--------------------------- MODULE MCViewPartition ---------------------------
(* Small instances of ViewPartition: blocks of two elements per dimension. *)
EXTENDS ViewPartition

CONSTANTS MaxSize, MaxOffset

\* Views that begin at a block boundary; in three and four dimensions, of the
\* whole array, with one or two blocks along each dimension.
AlignedRoots(D) ==
  CASE D <= 2 -> [x : [1 .. D -> {k \in 0 .. MaxOffset : k % BlockSize = 0}],
                  n : [1 .. D -> 1 .. MaxSize]]
    [] D = 3  -> [x : {[d \in 1 .. D |-> 0]}, n : [1 .. D -> {1, 3, 4}]]
    [] D = 4  -> [x : {[d \in 1 .. D |-> 0]}, n : [1 .. D -> {2, 3}]]
=============================================================================
