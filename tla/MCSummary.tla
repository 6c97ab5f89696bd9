----------------------------- MODULE MCSummary -----------------------------
(* A small instance of Summary for TLC. *)
EXTENDS Summary, TLC

Symmetries == Permutations(Threads)
=============================================================================
