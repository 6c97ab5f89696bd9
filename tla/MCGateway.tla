----------------------------- MODULE MCGateway -----------------------------
(* The instance of Gateway that TLC checks. *)
EXTENDS Gateway, FiniteSets, TLC

MCStatuses == {202, 302, 400, 0 - 28}

Symmetry == Permutations(Clients) \cup Permutations(Tasks) \cup Permutations(Collectables)

Busy == {t \in Clients : ~ Free(t)}
Started == {k \in Tasks : pc[k] # "idle"}
Touched ==
  {c \in Collectables :
    c \notin owned \/ version[c] > 0 \/ \E e \in Entries : e.ptr = c}

\* One client alone has a list of two collectables, which its owners may drop, and a
\* task for each, with a server that does not lag.
OneClient ==
  /\ Cardinality(Busy) <= 1
  /\ late = <<>> /\ headers = <<ContentType>>
  /\ \A c \in Collectables : version[c] <= 1

\* Two clients share one entry and one task; headers are added before there is one.
OneEntry ==
  /\ Len(collectables) <= 1 /\ Cardinality(Touched) <= 1
  /\ Cardinality(Busy) <= 1 \/ Cardinality(Started) <= 1
  /\ headers = <<ContentType>> \/ collectables = <<>>

OneClientOrEntry == OneClient \/ OneEntry
=============================================================================
