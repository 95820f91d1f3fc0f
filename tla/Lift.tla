-------------------------------- MODULE Lift --------------------------------
(***************************************************************************)
(* The lifted transforms of four integers, lossy and reversible, forward   *)
(* and inverse.  Integers have IntPrec bits and wrap around.               *)
(***************************************************************************)
EXTENDS Integers, Sequences

CONSTANT IntPrec        \* bits of an integer: 32 or 64; even

Signed(x) == ((x + 2 ^ (IntPrec - 1)) % 2 ^ IntPrec) - 2 ^ (IntPrec - 1)
Half(x) == x \div 2      \* arithmetic shift
fwd_lift(b) ==
  LET x1 == Half(b[1] + b[4])   w1 == b[4] - x1
      z1 == Half(b[3] + b[2])   y1 == b[2] - z1
      x2 == Half(x1 + z1)       z2 == z1 - x2
      w2 == Half(w1 + y1)       y2 == y1 - w2
      w3 == w2 + Half(y2)       y3 == y2 - Half(w3)
  IN  <<x2, y3, z2, w3>>
inv_lift(b) ==
  LET y1 == Signed(b[2] + Half(b[4]))   w1 == Signed(b[4] - Half(y1))
      y2 == Signed(y1 + w1)             w2 == Signed(w1 - (y2 - w1))
      z1 == Signed(b[3] + b[1])         x1 == Signed(b[1] - (z1 - b[1]))
      y3 == Signed(y2 + z1)             z2 == Signed(z1 - (y3 - z1))
      w3 == Signed(w2 + x1)             x2 == Signed(x1 - (w3 - x1))
  IN  <<x2, y3, z2, w3>>

rev_fwd_lift(b) ==
  LET w1 == b[4] - b[3]   z1 == b[3] - b[2]   y1 == b[2] - b[1]
      w2 == w1 - z1       z2 == z1 - y1
  IN  <<Signed(b[1]), Signed(y1), Signed(z2), Signed(w2 - z2)>>
rev_inv_lift(b) ==
  LET w1 == b[4] + b[3]
      z1 == b[3] + b[2]   w2 == w1 + z1
      y1 == b[2] + b[1]   z2 == z1 + y1
  IN  <<Signed(b[1]), Signed(y1), Signed(z2), Signed(w2 + z2)>>
=============================================================================
