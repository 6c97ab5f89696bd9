----------------------------- MODULE MCExposer -----------------------------
(* Threads, URIs, passwords and addresses are interchangeable. *)
EXTENDS Exposer, TLC

Symmetry ==
  Permutations(Clients) \cup Permutations(Workers) \cup Permutations(Uris)
    \cup Permutations(Passwords) \cup Permutations(EndpointAddrs)
    \cup Permutations(AuthAddrs)

=============================================================================
