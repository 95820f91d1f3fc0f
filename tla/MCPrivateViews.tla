---------------------------- MODULE MCPrivateViews ----------------------------
(* Small instances of PrivateViews: each view that writes has one block. *)
EXTENDS PrivateViews, TLC

MCRegions == {{b} : b \in Blocks}
Symmetry == Permutations(Views)
=============================================================================
