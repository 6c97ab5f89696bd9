---------------------------- MODULE MCHistogram ----------------------------
(* A small instance of Histogram for TLC. *)
EXTENDS Histogram, TLC

MCBoundaries == <<0, 2>>
MCValues == {-1, 0, 2, 3}
\* One with a negative increment, one of the wrong length.
MCBulks == {
  [increments |-> <<1, 0, 2>>, sum |-> 5],
  [increments |-> <<0, -1, 1>>, sum |-> 1],
  [increments |-> <<1>>, sum |-> 1]}
Symmetries == Permutations(Threads)
=============================================================================
