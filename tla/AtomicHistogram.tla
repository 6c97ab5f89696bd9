-------------------------- MODULE AtomicHistogram --------------------------
(***************************************************************************)
(* What Histogram promises its callers ("thread-safe", histogram.h): each  *)
(* call takes effect at one moment, on the buckets and the sum together,   *)
(* and Collect answers with the state of one moment.                       *)
(***************************************************************************)
EXTENDS Integers, Sequences

CONSTANTS Threads, Buckets, Values, Bulks, NoAnswer, BucketOf(_), Increment(_, _)

VARIABLES counts,  \* the number of observations of each bucket
          sum,     \* the sum of all observations
          answer   \* per thread what its last Collect returned

vars == <<counts, sum, answer>>

Init ==
  /\ counts = [i \in Buckets |-> 0]
  /\ sum = 0
  /\ answer = [t \in Threads |-> NoAnswer]

Observe(v) ==
  /\ counts' = [counts EXCEPT ![BucketOf(v)] = @ + 1]
  /\ sum' = sum + v
  /\ UNCHANGED answer

ObserveMultiple(b) ==
  /\ counts' = [i \in Buckets |-> Increment(counts[i], b.increments[i])]
  /\ sum' = sum + b.sum
  /\ UNCHANGED answer

Reset ==
  /\ counts' = [i \in Buckets |-> 0]
  /\ sum' = 0
  /\ UNCHANGED answer

\* The cumulative counts a have the counts of the buckets as differences.
Cumulates(a) ==
  /\ DOMAIN a = Buckets
  /\ \A i \in Buckets : a[i] = counts[i] + (IF i = 1 THEN 0 ELSE a[i - 1])

Collect(t) ==
  /\ answer'[t] # NoAnswer
  /\ Cumulates(answer'[t].bucket)
  /\ answer'[t].sample_sum = sum
  /\ answer' = [answer EXCEPT ![t] = answer'[t]]
  /\ UNCHANGED <<counts, sum>>

Next ==
  \/ \E v \in Values : Observe(v)
  \/ \E b \in Bulks : ObserveMultiple(b)
  \/ Reset
  \/ \E t \in Threads : Collect(t)

Spec == Init /\ [][Next]_vars
=============================================================================
