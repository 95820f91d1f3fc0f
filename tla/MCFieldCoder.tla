---------------------------- MODULE MCFieldCoder ----------------------------
\* Small fields: all widths of partial blocks, rows of up to three blocks, several layouts.
EXTENDS FieldCoder

Job(size, stride, enc, dec, rev) == [n |-> size, s |-> stride, enc |-> enc, dec |-> dec, rev |-> rev]
Engines == {"serial", "omp", "cuda"}
Decoders == {"serial", "cuda"}

\* Lines: default, contiguous, reversed, spaced; the GPU refuses to space them.
Lines == { Job(<<nx>>, <<sx>>, enc, dec, FALSE) :
             nx \in 1 .. 10, sx \in {0, 1, -1, 3}, enc \in Engines, dec \in Decoders }
         \cup { Job(<<nx>>, <<sx>>, enc, "serial", TRUE) :
                  nx \in 1 .. 10, sx \in {0, -2}, enc \in {"serial", "omp"} }

\* Planes: default, transposed, both axes reversed, rows with gaps.
PlaneStrides(nx, ny) == { <<0, 0>>, <<ny, 1>>, <<-1, -nx>> }
Planes == UNION { { Job(<<nx, ny>>, st, enc, dec, rev) :
                        st \in PlaneStrides(nx, ny) \cup (IF "cuda" \in {enc, dec} THEN {<<2, 17>>} ELSE {<<2, -17>>}) } :
                    nx \in {1, 3, 5, 8}, ny \in {2, 4, 7}, enc \in Engines, dec \in Decoders, rev \in BOOLEAN }

Volumes == { Job(size, st, enc, dec, rev) :
               size \in { <<5, 4, 3>>, <<2, 6, 4>>, <<4, 4, 5>>, <<1, 9, 5>> },
               st \in { <<0, 0, 0>>, <<1, -9, 90>> }, enc \in Engines, dec \in Decoders, rev \in BOOLEAN }
Hypervolumes == { Job(size, st, enc, "serial", rev) :
                    size \in { <<5, 3, 4, 1>>, <<2, 2, 5, 5>> }, st \in { <<0, 0, 0, 0>>, <<-1, 10, 100, 1000>> },
                    enc \in {"serial", "omp"}, rev \in BOOLEAN }

\* The GPU engine is lossy.  A null pointer is taken for memory when an array is not contiguous
\* and has a negative stride: such arrays are left out.
Sound(j) == "cuda" \in {j.enc, j.dec} =>
              /\ ~j.rev
              /\ \A i \in DOMAIN j.s : j.s[i] >= 0 \/ Len(j.n) = 1 \/ j.s = <<-1, -(j.n[1])>>
MCJobs == { j \in Lines \cup Planes \cup Volumes \cup Hypervolumes : Sound(j) }
=============================================================================
