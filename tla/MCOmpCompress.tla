---------------------------- MODULE MCOmpCompress ----------------------------
(* Small instances of OmpCompress: words of two bits. *)
EXTENDS OmpCompress

\* Variable rate, and fixed rate unaligned and aligned with words.
MCBudgets == {<<1, 2>>, <<1, 1>>, <<2, 2>>}
=============================================================================
