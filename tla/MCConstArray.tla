---------------------------- MODULE MCConstArray ----------------------------
(* Arrays of up to nine blocks, so that both kinds of chunk are filled and   *)
(* begun; sizes that overflow a digit, a block and a chunk of the indices.   *)
EXTENDS ConstArray

MCShapes(D) ==
  CASE D = 1 -> {<<0>>, <<18>>, <<33>>}
    [] D = 2 -> {<<10, 9>>}
    [] D = 3 -> {<<5, 5, 2>>}
    [] D = 4 -> {<<5, 1, 5, 2>>}

MCRanges == {<<2, 5>>}

\* Blocks take the least or the most, in turns.
MCSizesOf(n, bits) ==
  {[k \in 1 .. n |-> s[1 + (k % 2)]] : s \in [1 .. 2 -> {bits[1], bits[2]}]}
=============================================================================
