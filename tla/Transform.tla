----------------------------- MODULE Transform -----------------------------
(***************************************************************************)
(* The separable transform of a block of 4^d integers, one lifting pass    *)
(* per dimension, and the order in which coefficients are coded.  A block  *)
(* is a function on 0 .. 4^d - 1, transformed in place: a pass lifts the   *)
(* four values at p, p + s, p + 2s and p + 3s for each start p of a line.  *)
(***************************************************************************)
EXTENDS Lift, FiniteSetsExt

I4 == 0 .. 3
LiftAt(Lift(_), q, p, s) ==
  LET l == Lift(<<q[p], q[p + s], q[p + 2 * s], q[p + 3 * s]>>)
  IN  [q EXCEPT ![p] = l[1], ![p + s] = l[2], ![p + 2 * s] = l[3], ![p + 3 * s] = l[4]]
Pass(Lift(_), q, starts, s) == FoldSet(LAMBDA p, r : LiftAt(Lift, r, p, s), q, starts)

\* Starts of the lines of a block along x, y, z and w.
X2 == { 4 * y : y \in I4 }
Y2 == { x : x \in I4 }
X3 == { 4 * y + 16 * z : y, z \in I4 }
Y3 == { 16 * z + x : x, z \in I4 }
Z3 == { x + 4 * y : x, y \in I4 }
X4 == { 4 * y + 16 * z + 64 * w : y, z, w \in I4 }
Y4 == { 16 * z + 64 * w + x : x, z, w \in I4 }
Z4 == { 64 * w + x + 4 * y : x, y, w \in I4 }
W4 == { x + 4 * y + 16 * z : x, y, z \in I4 }

fwd_xform_1(q) == Pass(fwd_lift, q, {0}, 1)
fwd_xform_2(q) == Pass(fwd_lift, Pass(fwd_lift, q, X2, 1), Y2, 4)
fwd_xform_3(q) == Pass(fwd_lift, Pass(fwd_lift, Pass(fwd_lift, q, X3, 1), Y3, 4), Z3, 16)
fwd_xform_4(q) ==
  Pass(fwd_lift, Pass(fwd_lift, Pass(fwd_lift, Pass(fwd_lift, q, X4, 1), Y4, 4), Z4, 16), W4, 64)

inv_xform_1(q) == Pass(inv_lift, q, {0}, 1)
inv_xform_2(q) == Pass(inv_lift, Pass(inv_lift, q, Y2, 4), X2, 1)
inv_xform_3(q) == Pass(inv_lift, Pass(inv_lift, Pass(inv_lift, q, Z3, 16), Y3, 4), X3, 1)
inv_xform_4(q) ==
  Pass(inv_lift, Pass(inv_lift, Pass(inv_lift, Pass(inv_lift, q, W4, 64), Z4, 16), Y4, 4), X4, 1)

rev_fwd_xform_1(q) == Pass(rev_fwd_lift, q, {0}, 1)
rev_fwd_xform_2(q) == Pass(rev_fwd_lift, Pass(rev_fwd_lift, q, X2, 1), Y2, 4)
rev_fwd_xform_3(q) == Pass(rev_fwd_lift, Pass(rev_fwd_lift, Pass(rev_fwd_lift, q, X3, 1), Y3, 4), Z3, 16)
rev_fwd_xform_4(q) ==
  Pass(rev_fwd_lift, Pass(rev_fwd_lift, Pass(rev_fwd_lift, Pass(rev_fwd_lift, q, X4, 1), Y4, 4), Z4, 16), W4, 64)

rev_inv_xform_1(q) == Pass(rev_inv_lift, q, {0}, 1)
rev_inv_xform_2(q) == Pass(rev_inv_lift, Pass(rev_inv_lift, q, Y2, 4), X2, 1)
rev_inv_xform_3(q) == Pass(rev_inv_lift, Pass(rev_inv_lift, Pass(rev_inv_lift, q, Z3, 16), Y3, 4), X3, 1)
rev_inv_xform_4(q) ==
  Pass(rev_inv_lift, Pass(rev_inv_lift, Pass(rev_inv_lift, Pass(rev_inv_lift, q, W4, 64), Z4, 16), Y4, 4), X4, 1)

\* The transforms of the GPU kernels, which are lossy and up to three-dimensional.
cuda_fwd_xform(d, q) ==
  CASE d = 1 -> Pass(fwd_lift, q, {0}, 1)
    [] d = 2 -> Pass(fwd_lift, Pass(fwd_lift, q, X2, 1), Y2, 4)
    [] d = 3 -> Pass(fwd_lift, Pass(fwd_lift, Pass(fwd_lift, q, X3, 1), Y3, 4), Z3, 16)
cuda_inv_xform(d, q) ==
  CASE d = 1 -> Pass(inv_lift, q, {0}, 1)
    [] d = 2 -> Pass(inv_lift, Pass(inv_lift, q, Y2, 4), X2, 1)
    [] d = 3 -> Pass(inv_lift, Pass(inv_lift, Pass(inv_lift, q, Z3, 16), Y3, 4), X3, 1)

fwd_xform(d, rev, q) ==
  CASE d = 1 -> IF rev THEN rev_fwd_xform_1(q) ELSE fwd_xform_1(q)
    [] d = 2 -> IF rev THEN rev_fwd_xform_2(q) ELSE fwd_xform_2(q)
    [] d = 3 -> IF rev THEN rev_fwd_xform_3(q) ELSE fwd_xform_3(q)
    [] d = 4 -> IF rev THEN rev_fwd_xform_4(q) ELSE fwd_xform_4(q)
inv_xform(d, rev, q) ==
  CASE d = 1 -> IF rev THEN rev_inv_xform_1(q) ELSE inv_xform_1(q)
    [] d = 2 -> IF rev THEN rev_inv_xform_2(q) ELSE inv_xform_2(q)
    [] d = 3 -> IF rev THEN rev_inv_xform_3(q) ELSE inv_xform_3(q)
    [] d = 4 -> IF rev THEN rev_inv_xform_4(q) ELSE inv_xform_4(q)

-----------------------------------------------------------------------------
\* The order of coefficients: the i-th coded is the one at perm[i].

perm_1 ==
  <<0, 1, 2, 3>>
perm_2 ==
  <<0, 1, 4, 5, 2, 8, 6, 9, 3, 12, 10, 7, 13, 11, 14, 15>>
perm_3 ==
  <<0, 1, 4, 16, 20, 17, 5, 2, 8, 32, 21, 6, 18, 24, 9, 33, 36, 3, 12, 48,
    22, 25, 37, 40, 34, 10, 7, 19, 28, 13, 49, 52, 41, 38, 26, 23, 29, 53, 11, 35,
    44, 14, 50, 56, 42, 27, 39, 45, 30, 54, 57, 60, 51, 15, 43, 46, 58, 61, 55, 31,
    62, 59, 47, 63>>
perm_4Low ==
  <<0, 1, 4, 16, 64, 5, 80, 17, 68, 65, 20, 2, 8, 32, 128, 84, 81, 69, 21, 6,
    18, 66, 24, 72, 9, 96, 33, 36, 129, 132, 144, 3, 12, 48, 192, 85, 82, 70, 22, 73,
    25, 88, 37, 100, 97, 148, 145, 133, 10, 160, 34, 136, 130, 40, 7, 19, 67, 28, 76, 13,
    112, 49, 52, 193, 196, 208, 86, 89, 101, 149, 161, 137, 41, 134, 38, 164, 26, 152, 146, 104,
    98, 74, 83, 71, 23, 77, 29, 92, 53, 116, 113, 212, 209, 197, 11, 35, 131, 44, 140, 14,
    176, 50, 56, 194, 200, 224, 90, 165, 102, 153, 150, 105, 168, 162, 138, 42, 87, 93, 117, 213,
    27, 75, 99, 39, 135, 147, 108, 45, 141, 156>>
perm_4High ==
  <<30, 78, 177, 180, 54, 114, 120, 57, 198, 210, 216, 201, 225, 228, 15, 240, 51, 204, 195, 60,
    169, 166, 154, 106, 91, 103, 151, 109, 157, 94, 181, 118, 121, 214, 217, 229, 163, 139, 43, 142,
    46, 172, 58, 184, 178, 232, 226, 202, 241, 205, 61, 199, 55, 244, 31, 220, 211, 124, 115, 79,
    170, 167, 155, 107, 158, 110, 173, 122, 185, 182, 233, 230, 218, 95, 245, 119, 221, 215, 125, 242,
    206, 62, 203, 59, 248, 47, 236, 227, 188, 179, 143, 171, 174, 186, 234, 246, 222, 126, 219, 123,
    249, 111, 237, 231, 189, 183, 159, 252, 243, 207, 63, 175, 250, 187, 238, 235, 190, 253, 247, 223,
    127, 254, 251, 239, 191, 255>>
perm_4 == perm_4Low \o perm_4High
\* The tables of the GPU kernels.
cuda_perm_1 ==
  <<0, 1, 2, 3>>
cuda_perm_2 ==
  <<0, 1, 4, 5, 2, 8, 6, 9, 3, 12, 10, 7, 13, 11, 14, 15>>
cuda_perm_3 ==
  <<0, 1, 4, 16, 20, 17, 5, 2, 8, 32, 21, 6, 18, 24, 9, 33, 36, 3, 12, 48,
    22, 25, 37, 40, 34, 10, 7, 19, 28, 13, 49, 52, 41, 38, 26, 23, 29, 53, 11, 35,
    44, 14, 50, 56, 42, 27, 39, 45, 30, 54, 57, 60, 51, 15, 43, 46, 58, 61, 55, 31,
    62, 59, 47, 63>>
perm(d) == CASE d = 1 -> perm_1 [] d = 2 -> perm_2 [] d = 3 -> perm_3 [] d = 4 -> perm_4
get_perm(d) == CASE d = 1 -> cuda_perm_1 [] d = 2 -> cuda_perm_2 [] d = 3 -> cuda_perm_3

\* Coefficients in coding order, and back in place.
fwd_order(table, q) == [i \in DOMAIN table |-> q[table[i]]]
inv_order(table, u) == [j \in 0 .. (Len(table) - 1) |-> u[CHOOSE i \in DOMAIN table : table[i] = j]]
=============================================================================
