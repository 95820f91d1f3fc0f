---------------------------- MODULE MCViewIterator ----------------------------
(* Blocks of two elements per dimension; views that begin and end anywhere. *)
EXTENDS ViewIterator

\* Views of D dimensions with the given bounds along each.
ViewsOf(D, ranges) ==
  {[min |-> [d \in 1 .. D |-> r[d][1]], max |-> [d \in 1 .. D |-> r[d][2]]] :
     r \in [1 .. D -> ranges]}

Ranges(lo, hi) == {<<m, n>> \in (0 .. hi) \X (0 .. hi) : m <= lo /\ m < n}

\* In four dimensions: cut off on both sides with a whole block between, cut
\* off on the right, or one element.
MCViews ==
  ViewsOf(1, Ranges(3, 7)) \cup ViewsOf(2, Ranges(2, 5)) \cup ViewsOf(3, Ranges(1, 3))
    \cup ViewsOf(4, {<<1, 5>>, <<1, 2>>, <<0, 3>>})
=============================================================================
