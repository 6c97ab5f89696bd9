----------------------------- MODULE Histogram -----------------------------
(***************************************************************************)
(* prometheus::Histogram: a counter per bucket and a sum, changed and read *)
(* one after the other by several threads under one mutex.  Between two    *)
(* of these accesses any other thread may run, as far as the mutex lets    *)
(* it.  Values are integers: rounding is not modelled.                     *)
(***************************************************************************)
EXTENDS Integers, Sequences, FiniteSets

CONSTANTS
  Threads,
  NoThread,    \* the owner of a mutex nobody holds
  Boundaries,  \* bucket_boundaries_
  Values,      \* the values that are observed
  Bulks,       \* the arguments of ObserveMultiple: increments and sum
  NoCall,      \* no call in progress
  NoAnswer,    \* no Collect has returned yet
  MaxCalls     \* bound on the observations between two calls of Reset

\* is_strict_sorted, the precondition the constructors check.
StrictSorted(s) == \A i \in 1 .. Len(s) - 1 : s[i] < s[i + 1]

ASSUME BoundariesAssumption == Boundaries \in Seq(Int) /\ StrictSorted(Boundaries)
ASSUME ValuesAssumption == Values \subseteq Int
ASSUME BulksAssumption == Bulks \subseteq [increments : Seq(Int), sum : Int]
ASSUME HistogramThreads == NoThread \notin Threads

\* ClientMetric::Histogram: what Collect returns.
Answers == [bucket : Seq(Nat), sample_count : Nat, sample_sum : Int]
ASSUME AnswerAssumption == NoAnswer \notin Answers

\* bucket_counts_ has one element more than there are boundaries: the last
\* bucket reaches to infinity.
N == Len(Boundaries) + 1
Buckets == 1 .. N

VARIABLES
  counts,   \* bucket_counts_
  sum,      \* sum_
  mutex,    \* mutex_: its owner
  pc,       \* where each thread is
  arg,      \* the argument of the call in progress
  pos,      \* the index of the loop over the buckets
  partial,  \* Collect: the cumulative counts so far
  answer,   \* what a thread's last Collect returned
  log       \* history: the observations since the last Reset

data == <<counts, sum>>
vars == <<counts, sum, mutex, pc, arg, pos, partial, answer, log>>

-----------------------------------------------------------------------------
\* std::lower_bound, the distance to the first boundary that is not less than the
\* value; indices start with 1 here.
UpperBound(v) == 1 + Cardinality({i \in 1 .. Len(Boundaries) : Boundaries[i] <= v})
BucketOf(v) == 1 + Cardinality({i \in 1 .. Len(Boundaries) : Boundaries[i] < v})

\* Counter::Increment ignores a negative amount.
AddsAnything(n, d) == n + d
Increment(n, d) == IF d < 0 THEN n ELSE n + d

\* std::lock_guard<std::mutex> lock(mutex_).
Unguarded == TRUE
ObserveLocks == mutex = NoThread
CollectLocks == mutex = NoThread

Init ==
  /\ counts = [i \in Buckets |-> 0]
  /\ sum = 0
  /\ mutex = NoThread
  /\ pc = [t \in Threads |-> "idle"]
  /\ arg = [t \in Threads |-> NoCall]
  /\ pos = [t \in Threads |-> 1]
  /\ partial = [t \in Threads |-> <<>>]
  /\ answer = [t \in Threads |-> NoAnswer]
  /\ log = <<>>

\* A thread takes the mutex and starts at loc with argument a.
Enter(t, loc, a) ==
  /\ pc[t] = "idle"
  /\ mutex' = t
  /\ pc' = [pc EXCEPT ![t] = loc]
  /\ arg' = [arg EXCEPT ![t] = a]
  /\ UNCHANGED <<data, pos, partial, answer>>

Leave(t) ==
  /\ mutex' = NoThread
  /\ pc' = [pc EXCEPT ![t] = "idle"]
  /\ arg' = [arg EXCEPT ![t] = NoCall]
  /\ pos' = [pos EXCEPT ![t] = 1]

\* One turn of a loop over the buckets; after the last one on to loc.
NextBucket(t, loc) ==
  /\ pos' = [pos EXCEPT ![t] = IF pos[t] = N THEN 1 ELSE pos[t] + 1]
  /\ pc' = IF pos[t] = N THEN [pc EXCEPT ![t] = loc] ELSE pc
  /\ UNCHANGED <<mutex, arg>>

-----------------------------------------------------------------------------
(* Histogram::Observe.  The bucket is found before the lock is taken, from *)
(* boundaries that never change.                                           *)

ObserveBegins(t, v) ==
  /\ ObserveLocks /\ Len(log) < MaxCalls
  /\ Enter(t, "observe_sum", [value |-> v, bucket |-> BucketOf(v)])
  /\ log' = Append(log, [value |-> v])

ObserveAddsSum(t) ==
  /\ pc[t] = "observe_sum"
  /\ sum' = sum + arg[t].value
  /\ pc' = [pc EXCEPT ![t] = "observe_count"]
  /\ UNCHANGED <<counts, mutex, arg, pos, partial, answer, log>>

ObserveCounts(t) ==
  /\ pc[t] = "observe_count"
  /\ counts' = [counts EXCEPT ![arg[t].bucket] = Increment(@, 1)]
  /\ Leave(t)
  /\ UNCHANGED <<sum, partial, answer, log>>

-----------------------------------------------------------------------------
(* Histogram::ObserveMultiple.                                             *)

\* The wrong number of increments: throws.
BulkRejects(t, b) ==
  /\ pc[t] = "idle"
  /\ Len(b.increments) # N
  /\ UNCHANGED vars

BulkBegins(t, b) ==
  /\ ObserveLocks /\ Len(log) < MaxCalls
  /\ Len(b.increments) = N
  /\ Enter(t, "bulk_sum", b)
  /\ log' = Append(log, b)

BulkAddsSum(t) ==
  /\ pc[t] = "bulk_sum"
  /\ sum' = sum + arg[t].sum
  /\ pc' = [pc EXCEPT ![t] = "bulk_count"]
  /\ UNCHANGED <<counts, mutex, arg, pos, partial, answer, log>>

BulkCounts(t) ==
  /\ pc[t] = "bulk_count"
  /\ counts' = [counts EXCEPT ![pos[t]] = Increment(@, arg[t].increments[pos[t]])]
  /\ IF pos[t] = N THEN Leave(t) ELSE NextBucket(t, "bulk_count")
  /\ UNCHANGED <<sum, partial, answer, log>>

-----------------------------------------------------------------------------
(* Histogram::Reset.                                                       *)

ResetBegins(t) ==
  /\ ObserveLocks
  /\ Enter(t, "reset_count", NoCall)
  /\ log' = <<>>

ResetCounts(t) ==
  /\ pc[t] = "reset_count"
  /\ counts' = [counts EXCEPT ![pos[t]] = 0]
  /\ NextBucket(t, "reset_sum")
  /\ UNCHANGED <<sum, partial, answer, log>>

ResetSum(t) ==
  /\ pc[t] = "reset_sum"
  /\ sum' = 0
  /\ Leave(t)
  /\ UNCHANGED <<counts, partial, answer, log>>

-----------------------------------------------------------------------------
(* Histogram::Collect.                                                     *)

CollectBegins(t) ==
  /\ CollectLocks
  /\ Enter(t, "collect_count", NoCall)
  /\ UNCHANGED log

Last(s) == IF s = <<>> THEN 0 ELSE s[Len(s)]

CollectCounts(t) ==
  /\ pc[t] = "collect_count"
  /\ partial' = [partial EXCEPT ![t] = Append(@, Last(@) + counts[pos[t]])]
  /\ NextBucket(t, "collect_sum")
  /\ UNCHANGED <<data, answer, log>>

CollectReturns(t) ==
  /\ pc[t] = "collect_sum"
  /\ answer' = [answer EXCEPT ![t] =
                 [bucket |-> partial[t], sample_count |-> Last(partial[t]),
                  sample_sum |-> sum]]
  /\ partial' = [partial EXCEPT ![t] = <<>>]
  /\ Leave(t)
  /\ UNCHANGED <<data, log>>

-----------------------------------------------------------------------------
Next == \E t \in Threads :
  \/ \E v \in Values : ObserveBegins(t, v)
  \/ ObserveAddsSum(t) \/ ObserveCounts(t)
  \/ \E b \in Bulks : BulkRejects(t, b) \/ BulkBegins(t, b)
  \/ BulkAddsSum(t) \/ BulkCounts(t)
  \/ ResetBegins(t) \/ ResetCounts(t) \/ ResetSum(t)
  \/ CollectBegins(t) \/ CollectCounts(t) \/ CollectReturns(t)

Spec == Init /\ [][Next]_vars

-----------------------------------------------------------------------------
(* Properties.                                                             *)

Calls == [value : Int, bucket : Buckets] \cup Bulks \cup {NoCall}

\* Every variable has its type; no bucket count is ever negative, whatever the
\* increments of ObserveMultiple are.
TypeOK ==
  /\ counts \in [Buckets -> Nat]
  /\ sum \in Int
  /\ mutex \in Threads \cup {NoThread}
  /\ pc \in [Threads -> {"idle", "observe_sum", "observe_count", "bulk_sum",
                         "bulk_count", "reset_count", "reset_sum",
                         "collect_count", "collect_sum"}]
  /\ arg \in [Threads -> Calls]
  /\ pos \in [Threads -> Buckets]
  /\ partial \in [Threads -> Seq(Nat)]
  /\ answer \in [Threads -> Answers \cup {NoAnswer}]

\* The sum of f over 1 .. n.
Total(f, n) ==
  LET upTo[i \in 0 .. n] == IF i = 0 THEN 0 ELSE upTo[i - 1] + f[i]
  IN upTo[n]

\* The observations up to and including boundary i, by what was observed.
BulkUpTo(b, i) == Total([j \in 1 .. i |-> Increment(0, b.increments[j])], i)
Contribution(e, i) ==
  IF "value" \in DOMAIN e
    THEN IF i = N \/ e.value <= Boundaries[i] THEN 1 ELSE 0
    ELSE BulkUpTo(e, i)
Amount(e) == IF "value" \in DOMAIN e THEN e.value ELSE e.sum

\* The observations since the last Reset up to and including boundary i, and the
\* sum of them all.
ObservedUpTo(i) == Total([k \in DOMAIN log |-> Contribution(log[k], i)], Len(log))
SumOfObserved == Total([k \in DOMAIN log |-> Amount(log[k])], Len(log))

\* What Collect returns is one consistent snapshot: each bucket counts exactly
\* the observations since the last Reset that are not above its bound, the count
\* is that of the last bucket and the sum is theirs.
AnswersExact ==
  [][\A t \in Threads : CollectReturns(t) =>
       LET a == answer'[t] IN
         /\ \A i \in Buckets : a.bucket[i] = ObservedUpTo(i)
         /\ a.sample_count = a.bucket[N]
         /\ a.sample_sum = SumOfObserved]_vars

\* histogram.h: "The observed bucket is chosen for which the given amount falls
\* into the half-open interval [b_n, b_n+1)", so that a bucket would not count
\* the observations that are equal to its upper bound.
HalfOpenIntervals ==
  [][\A t \in Threads : CollectReturns(t) =>
       \A i \in 1 .. Len(Boundaries) :
         (\A k \in DOMAIN log : "value" \in DOMAIN log[k]) =>
           answer'[t].bucket[i] =
             Cardinality({k \in DOMAIN log : log[k].value < Boundaries[i]})]_vars

-----------------------------------------------------------------------------
(* Refinement: a call takes effect when it gets the mutex.  What the owner *)
(* of the mutex has still to do is added to what the variables hold.       *)

AtomicCounts ==
  [i \in Buckets |->
    IF mutex = NoThread THEN counts[i]
    ELSE IF pc[mutex] \in {"observe_sum", "observe_count"} /\ i = arg[mutex].bucket
      THEN counts[i] + 1
    ELSE IF pc[mutex] \in {"bulk_sum", "bulk_count"} /\ i >= pos[mutex]
      THEN Increment(counts[i], arg[mutex].increments[i])
    ELSE IF pc[mutex] \in {"reset_count", "reset_sum"} THEN 0
    ELSE counts[i]]

AtomicSum ==
  IF mutex = NoThread THEN sum
  ELSE IF pc[mutex] = "observe_sum" THEN sum + arg[mutex].value
  ELSE IF pc[mutex] = "bulk_sum" THEN sum + arg[mutex].sum
  ELSE IF pc[mutex] \in {"reset_count", "reset_sum"} THEN 0
  ELSE sum

Atomic ==
  INSTANCE AtomicHistogram WITH
    counts <- AtomicCounts, sum <- AtomicSum,
    Bulks <- {b \in Bulks : Len(b.increments) = N}

\* With its mutex, Histogram is an AtomicHistogram: no scrape and no other call
\* sees a sum without its count, half of a bulk, or half of a reset.
RefinesAtomicHistogram == Atomic!Spec
=============================================================================
