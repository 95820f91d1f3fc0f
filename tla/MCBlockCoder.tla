---------------------------- MODULE MCBlockCoder ----------------------------
\* Small instances of BlockCoder: 4-bit integers, and floats with 2-bit exponents.
EXTENDS BlockCoder

Job(kind, reversible, minbits, maxbits, maxprec, minexp) ==
  [kind |-> kind, reversible |-> reversible, minbits |-> minbits, maxbits |-> maxbits,
   maxprec |-> maxprec, minexp |-> minexp]
Unlimited == 40

\* Budgets that cut blocks everywhere, fixed rates, precisions, tolerances, and the
\* parameters of reversible mode.
MCJobs ==
  { Job("int", FALSE, minbits, maxbits, 4, 0) : minbits \in {0, 7}, maxbits \in {7, 10, 13} }
  \cup { Job("int", FALSE, 0, maxbits, maxprec, 0) : maxbits \in {1, 11, Unlimited}, maxprec \in {1, 3, 4} }
  \cup { Job("int", TRUE, minbits, maxbits, 4, 0) : minbits \in {1, 12}, maxbits \in {15, Unlimited} }
  \cup { Job("float", FALSE, minbits, maxbits, maxprec, minexp) :
           minbits \in {1, 9}, maxbits \in {9, Unlimited}, maxprec \in {2, 4}, minexp \in {-20, 4, 7} }
  \cup { Job("float", TRUE, minbits, maxbits, 4, -20) : minbits \in {1, 14}, maxbits \in {15, Unlimited} }

Float(x) == IF x = -99 THEN [neg |-> TRUE, mag |-> 0]
            ELSE [neg |-> x < 0, mag |-> IF x < 0 THEN -x ELSE x]
MCIntBlocks == [1 .. 4 -> {-4, -1, 0, 3}] \cup [1 .. 4 -> {-8, 7, 2}]
MCFloatBlocks ==
  { [i \in 1 .. 4 |-> Float(b[i])] :
      b \in { c \in [1 .. 4 -> {-99, 0, 1, -3, 6}] :
                c \in [1 .. 4 -> {0, -99}] \/ \E i \in 1 .. 4 : c[i] \in {-3, 6} } }
MCMoreInts == { <<-4, 3, 0, 1>> }
MCMoreFloats == { [i \in 1 .. 4 |-> Float(<<0, 2, -6, 4>>[i])] }
=============================================================================
