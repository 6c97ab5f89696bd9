----------------------------- MODULE MCRegistry -----------------------------
(* Small instances of Registry for TLC. *)
EXTENDS Registry, TLC

NoLabels == <<>>
X == [x |-> "1"]
Quantile == [quantile |-> "1"]
Reserved == [__r |-> "1"]

Request(type, name, labels) == [type |-> type, name |-> name, labels |-> labels]

\* Two types and two label sets for one name, a second name, and one request
\* for each way the constructor rejects.
MergeSpecs == {
  Request("Counter", "a", NoLabels),
  Request("Counter", "a", X),
  Request("Summary", "a", NoLabels),
  Request("Summary", "b", NoLabels),
  Request("Summary", "b", Quantile),
  Request("Gauge", "0", NoLabels),
  Request("Info", "b", Reserved)}

MergeLabels == {NoLabels, X, Quantile}

\* For liveness: fewer requests, one of each verdict.
ThrowSpecs == {
  Request("Counter", "a", NoLabels),
  Request("Histogram", "a", NoLabels),
  Request("Histogram", "b", NoLabels),
  Request("Gauge", "0", NoLabels)}

ThrowLabels == {NoLabels, [le |-> "1"]}

Symmetries ==
  Permutations(Threads) \cup Permutations(FamilyAddrs)
    \cup Permutations(MetricAddrs)
=============================================================================
