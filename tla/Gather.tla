------------------------------- MODULE Gather -------------------------------
(***************************************************************************)
(* Blocks of 4^d elements gathered from, and scattered to, strided arrays. *)
(* A pointer is the number of elements from the first one of the array.    *)
(* The loops walk one pointer through the block; a step of an outer loop   *)
(* moves it by all the steps of the loop inside and a correction.  A       *)
(* gathered block holds, for each of its entries, the pointer read; a      *)
(* scatter gives, for each cell of a partial block, the pointer written    *)
(* and the entry that is written there.  n and s are the widths and the    *)
(* strides along x, y, z and w.                                            *)
(***************************************************************************)
EXTENDS Integers, Sequences, FiniteSetsExt

Unset == "unset"        \* an entry that has not been assigned
Full == <<4, 4, 4, 4>>

\* What a row, a plane and a volume of width n move the pointer by.
RowStep(n, s) == n[1] * s[1] + (s[2] - n[1] * s[1])
PlaneStep(n, s) == n[2] * RowStep(n, s) + (s[3] - n[2] * s[2])
VolumeStep(n, s) == n[3] * PlaneStep(n, s) + (s[4] - n[3] * s[3])

x_(j) == j % 4
y_(j) == (j \div 4) % 4
z_(j) == (j \div 16) % 4
w_(j) == j \div 64

\* Where the walk is at entry j of a block.
Walk_1(p, n, s, j) == p + x_(j) * s[1]
Walk_2(p, n, s, j) == p + y_(j) * RowStep(n, s) + x_(j) * s[1]
Walk_3(p, n, s, j) == p + z_(j) * PlaneStep(n, s) + y_(j) * RowStep(n, s) + x_(j) * s[1]
Walk_4(p, n, s, j) ==
  p + w_(j) * VolumeStep(n, s) + z_(j) * PlaneStep(n, s) + y_(j) * RowStep(n, s) + x_(j) * s[1]

\* The cells of a block that are inside the array.
Cells_1(n) == { j \in 0 .. 3 : x_(j) < n[1] }
Cells_2(n) == { j \in 0 .. 15 : x_(j) < n[1] /\ y_(j) < n[2] }
Cells_3(n) == { j \in 0 .. 63 : x_(j) < n[1] /\ y_(j) < n[2] /\ z_(j) < n[3] }
Cells_4(n) == { j \in 0 .. 255 : x_(j) < n[1] /\ y_(j) < n[2] /\ z_(j) < n[3] /\ w_(j) < n[4] }

-----------------------------------------------------------------------------
\* Padding: the line of stride s at p has n <= 4 values; the rest repeat them.  Callers have
\* n >= 1, so that the case of no value is left out.

pad_block(q, p, n, s) ==
  LET p1 == IF n <= 1 THEN q[p] ELSE q[p + s]
      p2 == IF n <= 2 THEN p1 ELSE q[p + 2 * s]
      p3 == IF n <= 3 THEN q[p] ELSE q[p + 3 * s]
  IN  [q EXCEPT ![p + s] = p1, ![p + 2 * s] = p2, ![p + 3 * s] = p3]
PadLines(q, starts, n, s) == FoldSet(LAMBDA p, r : pad_block(r, p, n, s), q, starts)

gather_1(p, s) == [j \in 0 .. 3 |-> Walk_1(p, Full, s, j)]
gather_2(p, s) == [j \in 0 .. 15 |-> Walk_2(p, Full, s, j)]
gather_3(p, s) == [j \in 0 .. 63 |-> Walk_3(p, Full, s, j)]
gather_4(p, s) == [j \in 0 .. 255 |-> Walk_4(p, Full, s, j)]

gather_partial_1(p, n, s) ==
  pad_block([j \in 0 .. 3 |-> IF j \in Cells_1(n) THEN Walk_1(p, n, s, j) ELSE Unset], 0, n[1], 1)
gather_partial_2(p, n, s) ==
  LET q  == [j \in 0 .. 15 |-> IF j \in Cells_2(n) THEN Walk_2(p, n, s, j) ELSE Unset]
      qx == PadLines(q, { 4 * y : y \in 0 .. (n[2] - 1) }, n[1], 1)
  IN  PadLines(qx, 0 .. 3, n[2], 4)
gather_partial_3(p, n, s) ==
  LET q  == [j \in 0 .. 63 |-> IF j \in Cells_3(n) THEN Walk_3(p, n, s, j) ELSE Unset]
      qx == PadLines(q, { 16 * z + 4 * y : y \in 0 .. (n[2] - 1), z \in 0 .. (n[3] - 1) }, n[1], 1)
      qy == PadLines(qx, { 16 * z + x : x \in 0 .. 3, z \in 0 .. (n[3] - 1) }, n[2], 4)
  IN  PadLines(qy, 0 .. 15, n[3], 16)
gather_partial_4(p, n, s) ==
  LET q  == [j \in 0 .. 255 |-> IF j \in Cells_4(n) THEN Walk_4(p, n, s, j) ELSE Unset]
      qx == PadLines(q, { 64 * w + 16 * z + 4 * y :
                          y \in 0 .. (n[2] - 1), z \in 0 .. (n[3] - 1), w \in 0 .. (n[4] - 1) }, n[1], 1)
      qy == PadLines(qx, { 64 * w + 16 * z + x :
                           x \in 0 .. 3, z \in 0 .. (n[3] - 1), w \in 0 .. (n[4] - 1) }, n[2], 4)
      qz == PadLines(qy, { 64 * w + xy : xy \in 0 .. 15, w \in 0 .. (n[4] - 1) }, n[3], 16)
  IN  PadLines(qz, 0 .. 63, n[4], 64)

-----------------------------------------------------------------------------
\* Scatters: the entry pointer steps over the cells outside the array.

EntryRow(n) == n[1] + 1 * (4 - n[1])
EntryPlane(n) == n[2] * EntryRow(n) + 4 * (4 - n[2])
EntryVolume(n) == n[3] * EntryPlane(n) + 16 * (4 - n[3])

Write(at, from) == [at |-> at, from |-> from]
scatter_1(p, s) == [j \in 0 .. 3 |-> Write(Walk_1(p, Full, s, j), j)]
scatter_2(p, s) == [j \in 0 .. 15 |-> Write(Walk_2(p, Full, s, j), j)]
scatter_3(p, s) == [j \in 0 .. 63 |-> Write(Walk_3(p, Full, s, j), j)]
scatter_4(p, s) == [j \in 0 .. 255 |-> Write(Walk_4(p, Full, s, j), j)]

scatter_partial_1(p, n, s) == [j \in Cells_1(n) |-> Write(Walk_1(p, n, s, j), x_(j))]
\* Mutant: the entry pointer does not step over the cells outside.
scatter_partial_2Dense(p, n, s) ==
  [j \in Cells_2(n) |-> Write(Walk_2(p, n, s, j), y_(j) * n[1] + x_(j))]
scatter_partial_2(p, n, s) ==
  [j \in Cells_2(n) |-> Write(Walk_2(p, n, s, j), y_(j) * EntryRow(n) + x_(j))]
scatter_partial_3(p, n, s) ==
  [j \in Cells_3(n) |-> Write(Walk_3(p, n, s, j),
                              z_(j) * EntryPlane(n) + y_(j) * EntryRow(n) + x_(j))]
scatter_partial_4(p, n, s) ==
  [j \in Cells_4(n) |-> Write(Walk_4(p, n, s, j),
                              w_(j) * EntryVolume(n) + z_(j) * EntryPlane(n) + y_(j) * EntryRow(n) + x_(j))]

-----------------------------------------------------------------------------
\* The GPU kernels walk full and partial blocks the same way, except for lines, which they
\* index, and for the entries of partial blocks, which they index too.

Line_1(p, s, j) == p + x_(j) * s[1]
cuda_gather_1(p, s) == gather_1(p, s)
cuda_gather_2(p, s) == gather_2(p, s)
cuda_gather_3(p, s) == gather_3(p, s)
cuda_gather_partial_1(p, n, s) ==
  pad_block([j \in 0 .. 3 |-> IF j \in Cells_1(n) THEN Line_1(p, s, j) ELSE Unset], 0, n[1], 1)
cuda_gather_partial_2(p, n, s) == gather_partial_2(p, n, s)
cuda_gather_partial_3(p, n, s) == gather_partial_3(p, n, s)
cuda_scatter_1(p, s) == scatter_1(p, s)
cuda_scatter_2(p, s) == scatter_2(p, s)
cuda_scatter_3(p, s) == scatter_3(p, s)
cuda_scatter_partial_1(p, n, s) == [j \in Cells_1(n) |-> Write(Line_1(p, s, j), x_(j))]
cuda_scatter_partial_2(p, n, s) == [j \in Cells_2(n) |-> Write(Walk_2(p, n, s, j), 4 * y_(j) + x_(j))]
cuda_scatter_partial_3(p, n, s) ==
  [j \in Cells_3(n) |-> Write(Walk_3(p, n, s, j), 16 * z_(j) + 4 * y_(j) + x_(j))]
=============================================================================
