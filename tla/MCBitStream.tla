---------------------------- MODULE MCBitStream ----------------------------
(* Small instances of BitStream. *)
EXTENDS BitStream

\* No bits, the lowest and the highest bit, and all bits.
ThreeValues == {0, 2^(ValueBits - 1) + 1, 2^ValueBits - 1}

MixedBits == [k \in 0 .. (Size - 1) |-> IF k % 3 = 0 THEN 1 ELSE 0]
=============================================================================
