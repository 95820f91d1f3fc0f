------------------------------ MODULE StoreShape ------------------------------
(***************************************************************************)
(* How the elements of an array of one to four dimensions are divided into *)
(* blocks of 4 per dimension: BlockStore1 to BlockStore4, the codecs zfp1  *)
(* to zfp4, and the loops of const_array1 to const_array4 that take the    *)
(* blocks from a flat array and put them back.                             *)
(*                                                                         *)
(* n is the tuple of the array's dimensions, bs the tuple of blocks per    *)
(* dimension, b the number of a block, x the tuple of an element's indices.*)
(***************************************************************************)
EXTENDS Integers, Sequences, Bitwise

Ceil4(m) == (m + 3) \div 4

\* Blocks per dimension.
set_size1(n) == IF n[1] = 0 THEN <<0>> ELSE <<Ceil4(n[1])>>
set_size2(n) ==
  IF n[1] = 0 \/ n[2] = 0 THEN <<0, 0>> ELSE <<Ceil4(n[1]), Ceil4(n[2])>>
set_size3(n) ==
  IF n[1] = 0 \/ n[2] = 0 \/ n[3] = 0 THEN <<0, 0, 0>>
  ELSE <<Ceil4(n[1]), Ceil4(n[2]), Ceil4(n[3])>>
set_size4(n) ==
  IF n[1] = 0 \/ n[2] = 0 \/ n[3] = 0 \/ n[4] = 0 THEN <<0, 0, 0, 0>>
  ELSE <<Ceil4(n[1]), Ceil4(n[2]), Ceil4(n[3]), Ceil4(n[4])>>

BlocksPer(n) ==
  CASE Len(n) = 1 -> set_size1(n) [] Len(n) = 2 -> set_size2(n)
    [] Len(n) = 3 -> set_size3(n) [] Len(n) = 4 -> set_size4(n)

Blocks(n) ==
  LET bs == BlocksPer(n)
  IN  CASE Len(n) = 1 -> bs[1] [] Len(n) = 2 -> bs[1] * bs[2]
        [] Len(n) = 3 -> bs[1] * bs[2] * bs[3]
        [] Len(n) = 4 -> bs[1] * bs[2] * bs[3] * bs[4]

-----------------------------------------------------------------------------
\* The block of an element.
block_index1(bs, x) == x[1] \div 4
block_index2(bs, x) == x[1] \div 4 + bs[1] * (x[2] \div 4)
block_index3(bs, x) == x[1] \div 4 + bs[1] * (x[2] \div 4 + bs[2] * (x[3] \div 4))
block_index4(bs, x) ==
  x[1] \div 4
  + bs[1] * (x[2] \div 4 + bs[2] * (x[3] \div 4 + bs[3] * (x[4] \div 4)))

block_index(n, x) ==
  LET bs == BlocksPer(n)
  IN  CASE Len(n) = 1 -> block_index1(bs, x) [] Len(n) = 2 -> block_index2(bs, x)
        [] Len(n) = 3 -> block_index3(bs, x) [] Len(n) = 4 -> block_index4(bs, x)

\* How many elements the block that begins at i is short of 4, in a dimension
\* of n: i and n differ in the two low bits only if the block is partial.
\* Mutant: the elements that the block has instead.
shape_codeWidth(i, n) == IF (i ^^ n) < 4 THEN n % 4 ELSE 0
shape_code(i, n) == IF (i ^^ n) < 4 THEN (4 - (n % 4)) % 4 ELSE 0

block_shape1(n, bs, b) == shape_code(4 * b, n[1])
block_shape2(n, bs, b) ==
  shape_code(4 * (b % bs[1]), n[1]) + 4 * shape_code(4 * (b \div bs[1]), n[2])
block_shape3(n, bs, b) ==
  LET c == b \div bs[1]
  IN  shape_code(4 * (b % bs[1]), n[1]) + 4 * (shape_code(4 * (c % bs[2]), n[2])
      + 4 * shape_code(4 * (c \div bs[2]), n[3]))
block_shape4(n, bs, b) ==
  LET c == b \div bs[1]
      d == c \div bs[2]
  IN  shape_code(4 * (b % bs[1]), n[1]) + 4 * (shape_code(4 * (c % bs[2]), n[2])
      + 4 * (shape_code(4 * (d % bs[3]), n[3]) + 4 * shape_code(4 * (d \div bs[3]), n[4])))

\* The elements per dimension that the codec takes for a shape.
zfp1_widths(shape) == <<4 - (shape % 4)>>
zfp2_widths(shape) == <<4 - (shape % 4), 4 - ((shape \div 4) % 4)>>
zfp3_widths(shape) ==
  <<4 - (shape % 4), 4 - ((shape \div 4) % 4), 4 - ((shape \div 16) % 4)>>
zfp4_widths(shape) ==
  <<4 - (shape % 4), 4 - ((shape \div 4) % 4), 4 - ((shape \div 16) % 4),
    4 - ((shape \div 64) % 4)>>

Widths(n, b) ==
  LET bs == BlocksPer(n)
  IN  CASE Len(n) = 1 -> zfp1_widths(block_shape1(n, bs, b))
        [] Len(n) = 2 -> zfp2_widths(block_shape2(n, bs, b))
        [] Len(n) = 3 -> zfp3_widths(block_shape3(n, bs, b))
        [] Len(n) = 4 -> zfp4_widths(block_shape4(n, bs, b))

-----------------------------------------------------------------------------
\* Where the flat array's pointer is when block b is encoded: 4 per block, and
\* at the end of a row, plane or volume of blocks what is left of the elements.
set1(n, b) == 4 * b
set2(n, b) ==
  LET bs == BlocksPer(n)
      row == bs[1] * 4 + 4 * (n[1] - bs[1])
  IN  (b \div bs[1]) * row + (b % bs[1]) * 4
set3(n, b) ==
  LET bs == BlocksPer(n)
      row == bs[1] * 4 + 4 * (n[1] - bs[1])
      plane == bs[2] * row + 4 * n[1] * (n[2] - bs[2])
      j == b \div bs[1]
  IN  (j \div bs[2]) * plane + (j % bs[2]) * row + (b % bs[1]) * 4
set4(n, b) ==
  LET bs == BlocksPer(n)
      row == bs[1] * 4 + 4 * (n[1] - bs[1])
      plane == bs[2] * row + 4 * n[1] * (n[2] - bs[2])
      volume == bs[3] * plane + 4 * n[1] * n[2] * (n[3] - bs[3])
      j == b \div bs[1]
      k == j \div bs[2]
  IN  (k \div bs[3]) * volume + (k % bs[3]) * plane + (j % bs[2]) * row + (b % bs[1]) * 4

\* And when block b is decoded.
get1(n, b) == set1(n, b)
get2(n, b) == set2(n, b)
get3(n, b) == set3(n, b)
get4(n, b) == set4(n, b)

SetPointer(n, b) ==
  CASE Len(n) = 1 -> set1(n, b) [] Len(n) = 2 -> set2(n, b)
    [] Len(n) = 3 -> set3(n, b) [] Len(n) = 4 -> set4(n, b)

GetPointer(n, b) ==
  CASE Len(n) = 1 -> get1(n, b) [] Len(n) = 2 -> get2(n, b)
    [] Len(n) = 3 -> get3(n, b) [] Len(n) = 4 -> get4(n, b)

-----------------------------------------------------------------------------
\* The elements copied between a flat array with strides s and a cache line, as
\* pairs of offsets into the two, for a block with widths w.
line1(w, s) == {<<x * s[1], x>> : x \in 0 .. (w[1] - 1)}
line2(w, s) ==
  LET prow == w[1] * s[1] + (s[2] - w[1] * s[1])
      qrow == w[1] + (4 - w[1])
  IN  {<<y * prow + x * s[1], y * qrow + x>> : x \in 0 .. (w[1] - 1), y \in 0 .. (w[2] - 1)}
line3(w, s) ==
  LET prow == w[1] * s[1] + (s[2] - w[1] * s[1])
      qrow == w[1] + (4 - w[1])
      pplane == w[2] * prow + (s[3] - w[2] * s[2])
      qplane == w[2] * qrow + (16 - 4 * w[2])
  IN  {<<z * pplane + y * prow + x * s[1], z * qplane + y * qrow + x>> :
         x \in 0 .. (w[1] - 1), y \in 0 .. (w[2] - 1), z \in 0 .. (w[3] - 1)}
line4(w, s) ==
  LET prow == w[1] * s[1] + (s[2] - w[1] * s[1])
      qrow == w[1] + (4 - w[1])
      pplane == w[2] * prow + (s[3] - w[2] * s[2])
      qplane == w[2] * qrow + (16 - 4 * w[2])
      pvolume == w[3] * pplane + (s[4] - w[3] * s[3])
      qvolume == w[3] * qplane + (64 - 16 * w[3])
  IN  {<<t * pvolume + z * pplane + y * prow + x * s[1],
         t * qvolume + z * qplane + y * qrow + x>> :
         x \in 0 .. (w[1] - 1), y \in 0 .. (w[2] - 1), z \in 0 .. (w[3] - 1),
         t \in 0 .. (w[4] - 1)}

\* The copies between the flat array and the cached block b.
LineCopies(n, b) ==
  CASE Len(n) = 1 -> line1(Widths(n, b), <<1>>)
    [] Len(n) = 2 -> line2(Widths(n, b), <<1, n[1]>>)
    [] Len(n) = 3 -> line3(Widths(n, b), <<1, n[1], n[1] * n[2]>>)
    [] Len(n) = 4 -> line4(Widths(n, b), <<1, n[1], n[1] * n[2], n[1] * n[2] * n[3]>>)

\* Where element x is in the cache line of its block.
line_index1(x) == x[1] % 4
line_index2(x) == (x[1] % 4) + 4 * (x[2] % 4)
line_index3(x) == (x[1] % 4) + 4 * ((x[2] % 4) + 4 * (x[3] % 4))
line_index4(x) == (x[1] % 4) + 4 * ((x[2] % 4) + 4 * ((x[3] % 4) + 4 * (x[4] % 4)))

LineIndex(x) ==
  CASE Len(x) = 1 -> line_index1(x) [] Len(x) = 2 -> line_index2(x)
    [] Len(x) = 3 -> line_index3(x) [] Len(x) = 4 -> line_index4(x)

\* The element with flat index p (operator[]).
ij(n, p) == <<p % n[1], p \div n[1]>>
ijk(n, p) == <<p % n[1], (p \div n[1]) % n[2], p \div (n[1] * n[2])>>
ijkl(n, p) ==
  <<p % n[1], (p \div n[1]) % n[2], (p \div (n[1] * n[2])) % n[3],
    p \div (n[1] * n[2] * n[3])>>

FlatIndex(n, p) ==
  CASE Len(n) = 1 -> <<p>> [] Len(n) = 2 -> ij(n, p)
    [] Len(n) = 3 -> ijk(n, p) [] Len(n) = 4 -> ijkl(n, p)
=============================================================================
