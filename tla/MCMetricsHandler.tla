-------------------------- MODULE MCMetricsHandler --------------------------
(* Clients, workers and collectables are interchangeable. *)
EXTENDS MetricsHandler, TLC

Symmetry ==
  Permutations(Clients) \cup Permutations(Workers) \cup Permutations(Collectables)

=============================================================================
