---------------------------- MODULE MCRingQueue ----------------------------
(* The claim queue for TLC: a ring that is the whole frame, and one shorter  *)
(* than its frame, both with an even number of passes in the period.  Any    *)
(* permutation of the packed frames is a symmetry.                           *)
EXTENDS RingQueue, TLC

FullRing == [n |-> 4, rows |-> 4, period |-> 8]
ShortRing == [n |-> 4, rows |-> 6, period |-> 12]
OddRing == [n |-> 5, rows |-> 6, period |-> 30]

EvenShapes == {FullRing, ShortRing}
OddShapes == {OddRing}
FrameSymmetry == Permutations(Frame)
=============================================================================
