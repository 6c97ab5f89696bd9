-------------------------- MODULE HistogramProofs --------------------------
(***************************************************************************)
(* Theorems about Histogram, for any number of threads and of buckets, any *)
(* values and any bound on the calls.                                      *)
(***************************************************************************)
EXTENDS Histogram, SequenceTheorems, FiniteSetTheorems,
        WellFoundedInduction, TLAPS

\* There is at least one bucket.
LEMMA BucketsAssumption == N \in Nat \ {0} /\ Len(Boundaries) = N - 1 /\ 1 \in Buckets
BY BoundariesAssumption, LenProperties DEF N, Buckets

\* Every value falls into a bucket.
LEMMA BucketOfType == ASSUME NEW v PROVE BucketOf(v) \in Buckets
<1> DEFINE S == 1 .. Len(Boundaries)
           T == {i \in S : Boundaries[i] < v}
<1>1. IsFiniteSet(S) /\ Cardinality(S) = N - 1
  <2>1. N \in Nat \ {0} /\ S = 1 .. (N - 1)
    BY BucketsAssumption
  <2>2. 1 \in Int /\ N - 1 \in Int
    BY <2>1
  <2>3. IsFiniteSet(1 .. (N - 1))
        /\ Cardinality(1 .. (N - 1)) = IF 1 > N - 1 THEN 0 ELSE (N - 1) - 1 + 1
    <3> HIDE DEF S
    <3> QED BY <2>2, FS_Interval
  <2> QED BY <2>1, <2>3
<1>2. Cardinality(T) \in Nat /\ Cardinality(T) <= N - 1
  <2> HIDE DEF S
  <2> QED BY <1>1, FS_Subset, FS_CardinalityType
<1> HIDE DEF T
<1> QED BY <1>2, BucketsAssumption DEF BucketOf, Buckets, T

-----------------------------------------------------------------------------
(* Type correctness: the argument of a call fits the place it is used at.  *)

Args == \A t \in Threads :
  /\ pc[t] \in {"observe_sum", "observe_count"} => arg[t] \in [value : Int, bucket : Buckets]
  /\ pc[t] \in {"bulk_sum", "bulk_count"} => arg[t] \in Bulks /\ Len(arg[t].increments) = N

\* A bulk of the right length has an integer for each bucket.
LEMMA BulkTypes ==
  ASSUME NEW b \in Bulks, Len(b.increments) = N
  PROVE  b.sum \in Int /\ b.increments \in [Buckets -> Int]
BY BulksAssumption, BucketsAssumption DEF Buckets

\* Counter::Increment never makes a count negative.
LEMMA IncrementType ==
  ASSUME NEW n \in Nat, NEW d \in Int PROVE Increment(n, d) \in Nat
BY DEF Increment

\* What Collect has read is an answer.
LEMMA AnswerType ==
  ASSUME TypeOK, NEW t \in Threads
  PROVE  [bucket |-> partial[t], sample_count |-> Last(partial[t]), sample_sum |-> sum]
           \in Answers
<1>1. partial[t] \in Seq(Nat) /\ sum \in Int
  BY DEF TypeOK
<1>2. Last(partial[t]) \in Nat
  BY <1>1, LenProperties, ElementOfSeq, EmptySeq DEF Last
<1> QED BY <1>1, <1>2 DEF Answers

\* Every step keeps the types, and the argument of a call fits its place.
LEMMA TypeStep == TypeOK /\ Args /\ [Next]_vars => TypeOK' /\ Args'
<1> SUFFICES ASSUME TypeOK, Args, [Next]_vars PROVE TypeOK' /\ Args'
  OBVIOUS
<1> USE BucketsAssumption
<1>1. CASE UNCHANGED vars
  BY <1>1 DEF TypeOK, Args, vars, data
<1>2. ASSUME NEW t \in Threads, NEW v \in Values, ObserveBegins(t, v)
      PROVE  TypeOK' /\ Args'
  <2>1. [value |-> v, bucket |-> BucketOf(v)] \in [value : Int, bucket : Buckets]
    BY ValuesAssumption, BucketOfType
  <2> QED BY <1>2, <2>1 DEF ObserveBegins, Enter, TypeOK, Args, Calls, data
<1>3. ASSUME NEW t \in Threads, ObserveAddsSum(t) PROVE TypeOK' /\ Args'
  <2>1. sum' \in Int
    BY <1>3 DEF ObserveAddsSum, TypeOK, Args
  <2> QED BY <1>3, <2>1 DEF ObserveAddsSum, TypeOK, Args
<1>4. ASSUME NEW t \in Threads, ObserveCounts(t) PROVE TypeOK' /\ Args'
  <2>1. counts' \in [Buckets -> Nat]
    <3>1. arg[t].bucket \in Buckets
      BY <1>4 DEF ObserveCounts, Args
    <3>2. Increment(counts[arg[t].bucket], 1) \in Nat
      <4>1. counts[arg[t].bucket] \in Nat /\ 1 \in Int
        BY <3>1 DEF TypeOK
      <4> QED BY <4>1, IncrementType
    <3> QED BY <1>4, <3>2 DEF ObserveCounts, TypeOK
  <2> QED BY <1>4, <2>1 DEF ObserveCounts, Leave, TypeOK, Args, Calls
<1>5. ASSUME NEW t \in Threads, NEW b \in Bulks, BulkBegins(t, b)
      PROVE  TypeOK' /\ Args'
  BY <1>5 DEF BulkBegins, Enter, TypeOK, Args, Calls, data
<1>6. ASSUME NEW t \in Threads, BulkAddsSum(t) PROVE TypeOK' /\ Args'
  <2>1. sum' \in Int
    BY <1>6, BulkTypes DEF BulkAddsSum, TypeOK, Args
  <2> QED BY <1>6, <2>1 DEF BulkAddsSum, TypeOK, Args
<1>7. ASSUME NEW t \in Threads, BulkCounts(t) PROVE TypeOK' /\ Args'
  <2>1. counts' \in [Buckets -> Nat]
    <3>1. arg[t].increments[pos[t]] \in Int /\ pos[t] \in Buckets
      BY <1>7, BulkTypes DEF BulkCounts, TypeOK, Args
    <3> QED BY <1>7, <3>1, IncrementType DEF BulkCounts, TypeOK
  <2>2. UNCHANGED <<sum, partial, answer, log>>
    BY <1>7 DEF BulkCounts
  <2>3. CASE Leave(t)
    BY <1>7, <2>1, <2>2, <2>3 DEF Leave, TypeOK, Args, Calls
  <2>4. CASE NextBucket(t, "bulk_count")
    BY <1>7, <2>1, <2>2, <2>4 DEF BulkCounts, NextBucket, TypeOK, Args, Buckets
  <2> QED BY <1>7, <2>3, <2>4 DEF BulkCounts
<1>8. ASSUME NEW t \in Threads, ResetBegins(t) PROVE TypeOK' /\ Args'
  BY <1>8 DEF ResetBegins, Enter, TypeOK, Args, Calls, data
<1>9. ASSUME NEW t \in Threads, ResetCounts(t) PROVE TypeOK' /\ Args'
  BY <1>9 DEF ResetCounts, NextBucket, TypeOK, Args, Buckets
<1>10. ASSUME NEW t \in Threads, ResetSum(t) PROVE TypeOK' /\ Args'
  BY <1>10 DEF ResetSum, Leave, TypeOK, Args, Calls
<1>11. ASSUME NEW t \in Threads, CollectBegins(t) PROVE TypeOK' /\ Args'
  BY <1>11 DEF CollectBegins, Enter, TypeOK, Args, Calls, data
<1>12. ASSUME NEW t \in Threads, CollectCounts(t) PROVE TypeOK' /\ Args'
  <2>1. partial' \in [Threads -> Seq(Nat)]
    <3>1. Last(partial[t]) + counts[pos[t]] \in Nat
      BY LenProperties, ElementOfSeq DEF TypeOK, Last
    <3> QED BY <1>12, <3>1 DEF CollectCounts, TypeOK
  <2>2. /\ pc[t] = "collect_count" /\ UNCHANGED <<counts, sum, mutex, arg, answer>>
        /\ pos' = [pos EXCEPT ![t] = IF pos[t] = N THEN 1 ELSE pos[t] + 1]
        /\ pc' = IF pos[t] = N THEN [pc EXCEPT ![t] = "collect_sum"] ELSE pc
    BY <1>12 DEF CollectCounts, NextBucket, data
  <2>3. pos' \in [Threads -> Buckets]
    BY <2>2 DEF TypeOK, Buckets
  <2>4. TypeOK'
    BY <2>1, <2>2, <2>3 DEF TypeOK
  <2>5. Args'
    BY <2>2 DEF TypeOK, Args
  <2> QED BY <2>4, <2>5
<1>13. ASSUME NEW t \in Threads, CollectReturns(t) PROVE TypeOK' /\ Args'
  BY <1>13, AnswerType DEF CollectReturns, Leave, TypeOK, Args, Calls, data
<1>14. ASSUME NEW t \in Threads, NEW b \in Bulks, BulkRejects(t, b)
       PROVE  TypeOK' /\ Args'
  BY <1>14, <1>1 DEF BulkRejects
<1> QED BY <1>1, <1>2, <1>3, <1>4, <1>5, <1>6, <1>7, <1>8, <1>9, <1>10, <1>11,
           <1>12, <1>13, <1>14 DEF Next

\* Every variable keeps its type, and no count is ever negative.
THEOREM TypeCorrect == Spec => []TypeOK
<1>1. Init => TypeOK /\ Args
  BY BucketsAssumption DEF Init, TypeOK, Args, Calls
<1> QED BY <1>1, TypeStep, PTL DEF Spec

-----------------------------------------------------------------------------
(* The mutex has an owner exactly while a call is in progress, and a loop  *)
(* index other than the first only inside a loop.                          *)

Loops == {"bulk_count", "reset_count", "collect_count"}
Owned == \A t \in Threads :
  /\ pc[t] # "idle" <=> mutex = t
  /\ pos[t] # 1 => pc[t] \in Loops

\* Every step of every operation takes and releases the mutex as Owned says.
LEMMA OwnedStep == TypeOK /\ Owned /\ [Next]_vars => Owned'
<1> SUFFICES ASSUME TypeOK, Owned, [Next]_vars PROVE Owned'
  OBVIOUS
<1> USE BucketsAssumption, HistogramThreads
<1>1. CASE UNCHANGED vars
  BY <1>1 DEF Owned, vars
<1>2. ASSUME NEW t \in Threads, NEW loc, NEW a, loc # "idle", Enter(t, loc, a),
             mutex = NoThread
      PROVE  Owned'
  BY <1>2 DEF Enter, TypeOK, Owned, Loops
<1>3. ASSUME NEW t \in Threads, pc[t] # "idle", Leave(t) PROVE Owned'
  BY <1>3 DEF Leave, TypeOK, Owned, Loops
<1>4. ASSUME NEW t \in Threads, NEW loc, loc # "idle", pc[t] \in Loops, NextBucket(t, loc)
      PROVE  Owned'
  BY <1>4 DEF NextBucket, TypeOK, Owned, Loops, Buckets
<1>5. ASSUME NEW t \in Threads, ObserveAddsSum(t) \/ BulkAddsSum(t) PROVE Owned'
  BY <1>5 DEF ObserveAddsSum, BulkAddsSum, TypeOK, Owned, Loops
<1>6. ASSUME NEW t \in Threads, BulkCounts(t) PROVE Owned'
  <2>1. pc[t] = "bulk_count" /\ (Leave(t) \/ NextBucket(t, "bulk_count"))
    BY <1>6 DEF BulkCounts
  <2> QED BY <2>1, <1>3, <1>4 DEF Loops
<1>7. ASSUME NEW t \in Threads,
             \/ \E v \in Values : ObserveBegins(t, v)
             \/ \E b \in Bulks : BulkBegins(t, b)
             \/ ResetBegins(t) \/ CollectBegins(t)
      PROVE  Owned'
  BY <1>7, <1>2 DEF ObserveBegins, BulkBegins, ResetBegins, CollectBegins,
                    ObserveLocks, CollectLocks
<1>8. ASSUME NEW t \in Threads, ObserveCounts(t) \/ ResetSum(t) \/ CollectReturns(t)
      PROVE  Owned'
  BY <1>8, <1>3 DEF ObserveCounts, ResetSum, CollectReturns
<1>9. ASSUME NEW t \in Threads, ResetCounts(t) \/ CollectCounts(t) PROVE Owned'
  BY <1>9, <1>4 DEF ResetCounts, CollectCounts, Loops
<1>10. ASSUME NEW t \in Threads, NEW b \in Bulks, BulkRejects(t, b) PROVE Owned'
  BY <1>10, <1>1 DEF BulkRejects
<1> QED BY <1>1, <1>5, <1>6, <1>7, <1>8, <1>9, <1>10 DEF Next

-----------------------------------------------------------------------------
(* What the loops of Reset and Collect have done so far.                   *)

Cleared == \A t \in Threads : \A j \in Buckets :
  pc[t] = "reset_sum" \/ (pc[t] = "reset_count" /\ j < pos[t]) => counts[j] = 0

Differences(a) ==
  \A i \in 1 .. Len(a) : a[i] = counts[i] + (IF i = 1 THEN 0 ELSE a[i - 1])

SnapshotOf(t) ==
  /\ Len(partial[t]) = IF pc[t] = "collect_sum" THEN N
                       ELSE IF pc[t] = "collect_count" THEN pos[t] - 1
                       ELSE 0
  /\ Differences(partial[t])
Snapshot == \A t \in Threads : SnapshotOf(t)

\* While Reset clears the buckets, nobody else counts in them.
LEMMA ClearedStep == TypeOK /\ Owned /\ Cleared /\ [Next]_vars => Cleared'
<1> SUFFICES ASSUME TypeOK, Owned, Cleared, [Next]_vars,
                    NEW u \in Threads, NEW j \in Buckets,
                    pc'[u] = "reset_sum" \/ (pc'[u] = "reset_count" /\ j < pos'[u])
             PROVE  counts'[j] = 0
  BY DEF Cleared
<1> USE BucketsAssumption, HistogramThreads
\* While u resets, no other thread has a call in progress.
<1>1. \A t \in Threads : t # u /\ pc[t] # "idle" => pc[u] = "idle"
  BY DEF Owned
<1>2. CASE UNCHANGED vars
  BY <1>2 DEF Cleared, vars, data
<1>3. ASSUME NEW t \in Threads, NEW loc, NEW a, loc # "reset_sum",
             Enter(t, loc, a), mutex = NoThread
      PROVE  counts'[j] = 0
  <2>1. pos[t] = 1 /\ pos' = pos /\ counts' = counts
    BY <1>3 DEF Enter, Owned, Loops, data
  <2>2. ~ (j < 1)
    BY DEF Buckets
  <2>3. u # t
    BY <1>3, <2>1, <2>2 DEF Enter, TypeOK
  <2> QED BY <1>3, <2>1, <2>3 DEF Enter, TypeOK, Cleared
<1>4. ASSUME NEW t \in Threads, ResetCounts(t) PROVE counts'[j] = 0
  <2>1. pc[t] = "reset_count" /\ pos[t] \in 1 .. N
    BY <1>4 DEF ResetCounts, TypeOK, Buckets
  <2>2. u = t
    BY <1>1, <1>4, <2>1 DEF ResetCounts, NextBucket, TypeOK
  <2>3. j = pos[t] \/ j < pos[t]
    BY <1>4, <2>1, <2>2 DEF ResetCounts, NextBucket, TypeOK, Buckets
  <2> QED BY <1>4, <2>1, <2>3 DEF ResetCounts, Cleared, TypeOK
<1>5. ASSUME NEW t \in Threads,
             \/ ObserveAddsSum(t) \/ BulkAddsSum(t) \/ ObserveCounts(t) \/ BulkCounts(t)
             \/ ResetSum(t) \/ CollectCounts(t) \/ CollectReturns(t)
      PROVE  counts'[j] = 0
  <2>1. pc[t] \notin {"idle", "reset_count"} /\ pc'[t] \notin {"reset_count", "reset_sum"}
    BY <1>5 DEF ObserveAddsSum, BulkAddsSum, ObserveCounts, BulkCounts, ResetSum,
                CollectCounts, CollectReturns, Leave, NextBucket, TypeOK
  <2>2. u # t
    BY <2>1
  <2>3. pc'[u] = pc[u]
    BY <1>5, <2>2 DEF ObserveAddsSum, BulkAddsSum, ObserveCounts, BulkCounts, ResetSum,
                CollectCounts, CollectReturns, Leave, NextBucket, TypeOK
  <2> QED BY <1>1, <2>1, <2>2, <2>3
<1>6. ASSUME NEW t \in Threads, NEW b \in Bulks, BulkRejects(t, b) PROVE counts'[j] = 0
  BY <1>2, <1>6 DEF BulkRejects
<1> QED BY <1>2, <1>3, <1>4, <1>5, <1>6 DEF Next, ObserveBegins, BulkBegins,
           ResetBegins, CollectBegins, ObserveLocks, CollectLocks

\* While Collect reads the buckets, nobody else changes them.
LEMMA SnapshotStep == TypeOK /\ Owned /\ Snapshot /\ [Next]_vars => Snapshot'
<1> SUFFICES ASSUME TypeOK, Owned, Snapshot, [Next]_vars, NEW u \in Threads
             PROVE  SnapshotOf(u)'
  BY DEF Snapshot
<1> USE BucketsAssumption, HistogramThreads
<1>1. \A t \in Threads : t # u /\ pc[t] # "idle" => pc[u] = "idle"
  BY DEF Owned
<1>2. CASE UNCHANGED vars
  BY <1>2 DEF Snapshot, SnapshotOf, Differences, vars, data
<1>3. ASSUME NEW t \in Threads, NEW loc, NEW a, loc # "collect_sum", Enter(t, loc, a)
      PROVE  SnapshotOf(u)'
  <2>1. pos[t] = 1 /\ pos' = pos /\ counts' = counts /\ partial' = partial
    BY <1>3 DEF Enter, Owned, Loops, data
  <2>2. Differences(partial[u])'
    BY <2>1 DEF Snapshot, SnapshotOf, Differences
  <2>3. Len(partial[t]) = 0 /\ pos[t] - 1 = 0
    BY <1>3, <2>1 DEF Enter, Snapshot, SnapshotOf
  <2> QED BY <1>3, <2>1, <2>2, <2>3 DEF Enter, TypeOK, Snapshot, SnapshotOf
\* A thread that is not collecting has collected nothing.
<1>4. ASSUME partial'[u] = <<>>, pc'[u] \notin {"collect_count", "collect_sum"} PROVE SnapshotOf(u)'
  BY <1>4, LenProperties DEF SnapshotOf, Differences
<1>5. ASSUME NEW t \in Threads,
             \/ ObserveAddsSum(t) \/ BulkAddsSum(t) \/ ObserveCounts(t) \/ BulkCounts(t)
             \/ ResetCounts(t) \/ ResetSum(t)
      PROVE  SnapshotOf(u)'
  <2>1. /\ pc[t] \notin {"idle", "collect_count", "collect_sum"}
        /\ partial' = partial
        /\ pc'[t] \notin {"collect_count", "collect_sum"}
        /\ u # t => pc'[u] = pc[u]
    BY <1>5 DEF ObserveAddsSum, BulkAddsSum, ObserveCounts, BulkCounts, ResetSum,
                ResetCounts, Leave, NextBucket, TypeOK
  <2>2. pc[u] \notin {"collect_count", "collect_sum"}
    BY <1>1, <2>1
  <2>3. partial[u] = <<>>
    BY <2>2, EmptySeq, LenProperties DEF Snapshot, SnapshotOf, TypeOK
  <2> QED BY <1>4, <2>1, <2>2, <2>3
<1>6. ASSUME NEW t \in Threads, CollectCounts(t) PROVE SnapshotOf(u)'
  <2>1. CASE u = t
    <3> DEFINE p == partial[t]
               q == Append(p, Last(p) + counts[pos[t]])
    <3>1. p \in Seq(Nat) /\ Len(p) = pos[t] - 1 /\ pos[t] \in 1 .. N /\ pc[t] = "collect_count"
      BY <1>6 DEF CollectCounts, TypeOK, Snapshot, SnapshotOf, Buckets
    <3>2. partial'[t] = q /\ counts' = counts
      BY <1>6 DEF CollectCounts, TypeOK, data
    <3>3. Len(q) = pos[t] /\ q[pos[t]] = Last(p) + counts[pos[t]]
          /\ \A i \in 1 .. Len(p) : q[i] = p[i]
      BY <3>1, AppendProperties
    <3>4. Last(p) = IF pos[t] = 1 THEN 0 ELSE p[pos[t] - 1]
      BY <3>1, EmptySeq, LenProperties DEF Last
    <3>5. Differences(p)
      BY DEF Snapshot, SnapshotOf
    <3>6. \A i \in 1 .. Len(q) : q[i] = counts[i] + (IF i = 1 THEN 0 ELSE q[i - 1])
      <4> HIDE DEF p, q
      <4> TAKE i \in 1 .. Len(q)
      <4>1. i \in 1 .. pos[t] /\ counts[i] \in Nat
        BY <3>1, <3>3 DEF TypeOK, Buckets
      <4>2. \A k \in 1 .. pos[t] - 1 : p[k] \in Nat /\ q[k] = p[k]
        BY <3>1, <3>3, ElementOfSeq
      <4>3. CASE i = pos[t]
        <5>1. i # 1 => i - 1 \in 1 .. pos[t] - 1
          BY <3>1, <4>3
        <5> QED BY <3>3, <3>4, <4>1, <4>2, <4>3, <5>1
      <4>4. CASE i # pos[t]
        <5>1. i \in 1 .. Len(p) /\ i \in 1 .. pos[t] - 1
              /\ (i # 1 => i - 1 \in 1 .. pos[t] - 1)
          BY <3>1, <4>1, <4>4
        <5> QED BY <3>5, <4>2, <5>1 DEF Differences
      <4> QED BY <4>3, <4>4
    <3>7. Differences(partial[t])'
      BY <3>2, <3>6 DEF Differences
    <3>8. Len(partial'[t]) = IF pc'[t] = "collect_sum" THEN N
                             ELSE IF pc'[t] = "collect_count" THEN pos'[t] - 1 ELSE 0
      BY <1>6, <3>1, <3>2, <3>3 DEF CollectCounts, NextBucket, TypeOK
    <3> QED BY <2>1, <3>7, <3>8 DEF SnapshotOf
  <2>2. CASE u # t
    BY <1>6, <2>2 DEF CollectCounts, NextBucket, TypeOK, Snapshot, SnapshotOf, Differences, data
  <2> QED BY <2>1, <2>2
<1>7. ASSUME NEW t \in Threads, CollectReturns(t) PROVE SnapshotOf(u)'
  <2>1. CASE u = t
    BY <1>4, <1>7, <2>1 DEF CollectReturns, Leave, TypeOK
  <2>2. CASE u # t
    BY <1>7, <2>2 DEF CollectReturns, Leave, TypeOK, Snapshot, SnapshotOf, Differences, data
  <2> QED BY <2>1, <2>2
<1>8. ASSUME NEW t \in Threads, NEW b \in Bulks, BulkRejects(t, b) PROVE SnapshotOf(u)'
  BY <1>2, <1>8 DEF BulkRejects
<1>9. ASSUME NEW t \in Threads,
             \/ \E v \in Values : ObserveBegins(t, v)
             \/ \E b \in Bulks : BulkBegins(t, b)
             \/ ResetBegins(t) \/ CollectBegins(t)
      PROVE  SnapshotOf(u)'
  BY <1>9, <1>3 DEF ObserveBegins, BulkBegins, ResetBegins, CollectBegins
<1> QED BY <1>2, <1>5, <1>6, <1>7, <1>8, <1>9 DEF Next

-----------------------------------------------------------------------------
(* Refinement.  The four invariants say what the owner of the mutex has    *)
(* done of its call, the mapping adds what it has still to do.             *)

IInv == TypeOK /\ Args /\ Owned /\ Cleared /\ Snapshot

\* The invariants together are inductive.
LEMMA Inductive == Spec => []IInv
<1>1. Init => IInv
  BY BucketsAssumption, HistogramThreads, LenProperties, EmptySeq
  DEF Init, IInv, TypeOK, Args, Calls, Owned, Cleared, Snapshot, SnapshotOf, Differences
<1>2. IInv /\ [Next]_vars => IInv'
  BY TypeStep, OwnedStep, ClearedStep, SnapshotStep DEF IInv
<1> QED BY <1>1, <1>2, PTL DEF Spec

\* Nobody holds the mutex: the variables are what a caller sees.
LEMMA MappingWhenFree ==
  ASSUME TypeOK, mutex = NoThread
  PROVE  AtomicCounts = counts /\ AtomicSum = sum
BY DEF AtomicCounts, AtomicSum, TypeOK

\* The same after a step.
LEMMA MappingWhenFreeNext ==
  ASSUME TypeOK', mutex' = NoThread
  PROVE  AtomicCounts' = counts' /\ AtomicSum' = sum'
BY DEF AtomicCounts, AtomicSum, TypeOK

\* A call that gets the mutex takes effect.
LEMMA BeginsRefine ==
  ASSUME IInv, IInv', NEW t \in Threads,
         \/ \E v \in Values : ObserveBegins(t, v)
         \/ \E b \in Bulks : BulkBegins(t, b)
         \/ ResetBegins(t) \/ CollectBegins(t)
  PROVE  /\ \A v \in Values : ObserveBegins(t, v) => Atomic!Observe(v)
         /\ \A b \in Bulks : BulkBegins(t, b) =>
              Atomic!ObserveMultiple(b) /\ Len(b.increments) = N
         /\ ResetBegins(t) => Atomic!Reset
         /\ CollectBegins(t) => UNCHANGED Atomic!vars
<1> USE BucketsAssumption, HistogramThreads DEF IInv
<1>1. mutex = NoThread /\ counts' = counts /\ sum' = sum /\ answer' = answer
      /\ mutex' = t /\ pos' = pos /\ pos[t] = 1
  BY DEF ObserveBegins, BulkBegins, ResetBegins, CollectBegins, ObserveLocks, CollectLocks,
         Enter, data, Owned, Loops
<1>2. AtomicCounts = counts /\ AtomicSum = sum
  BY <1>1, MappingWhenFree
<1>3. ASSUME NEW v \in Values, ObserveBegins(t, v) PROVE Atomic!Observe(v)
  <2>1. pc'[t] = "observe_sum" /\ arg'[t] = [value |-> v, bucket |-> BucketOf(v)]
    BY <1>3 DEF ObserveBegins, Enter, TypeOK
  <2>2. AtomicSum' = sum + v
    BY <1>1, <2>1 DEF AtomicSum
  <2>3. AtomicCounts' = [counts EXCEPT ![BucketOf(v)] = @ + 1]
    <3> DEFINE k == BucketOf(v)
    <3>1. k \in Buckets /\ arg'[t].bucket = k
      BY <2>1, BucketOfType
    <3> HIDE DEF k
    <3>2. AtomicCounts' = [i \in Buckets |-> IF i = k THEN counts[i] + 1 ELSE counts[i]]
      BY <1>1, <2>1, <3>1 DEF AtomicCounts
    <3>3. AtomicCounts' = [counts EXCEPT ![k] = @ + 1]
      BY <3>1, <3>2 DEF TypeOK
    <3> QED BY <3>3 DEF k
  <2> QED BY <1>1, <1>2, <2>2, <2>3 DEF Atomic!Observe
<1>4. ASSUME NEW b \in Bulks, BulkBegins(t, b)
      PROVE  Atomic!ObserveMultiple(b) /\ Len(b.increments) = N
  <2>1. pc'[t] = "bulk_sum" /\ arg'[t] = b /\ Len(b.increments) = N
    BY <1>4 DEF BulkBegins, Enter, TypeOK
  <2>2. AtomicSum' = sum + b.sum
    BY <1>1, <2>1 DEF AtomicSum
  <2>3. \A i \in Buckets : i >= 1
    BY DEF Buckets
  <2>4. AtomicCounts' = [i \in Buckets |-> Increment(counts[i], b.increments[i])]
    BY <1>1, <2>1, <2>3 DEF AtomicCounts, TypeOK
  <2> QED BY <1>1, <1>2, <2>1, <2>2, <2>4 DEF Atomic!ObserveMultiple
<1>5. ASSUME ResetBegins(t) PROVE Atomic!Reset
  <2>1. pc'[t] = "reset_count"
    BY <1>5 DEF ResetBegins, Enter, TypeOK
  <2>2. AtomicSum' = 0 /\ AtomicCounts' = [i \in Buckets |-> 0]
    BY <1>1, <2>1 DEF AtomicSum, AtomicCounts
  <2> QED BY <1>1, <2>2 DEF Atomic!Reset
<1>6. ASSUME CollectBegins(t) PROVE UNCHANGED Atomic!vars
  <2>1. pc'[t] = "collect_count"
    BY <1>6 DEF CollectBegins, Enter, TypeOK
  <2>2. AtomicSum' = sum /\ AtomicCounts' = counts
    BY <1>1, <2>1 DEF AtomicSum, AtomicCounts, TypeOK
  <2> QED BY <1>1, <1>2, <2>2 DEF Atomic!vars
<1> QED BY <1>3, <1>4, <1>5, <1>6

\* The steps in between and the release change nothing a caller sees.
LEMMA ChangesRefine ==
  ASSUME IInv, IInv', NEW t \in Threads,
         \/ ObserveAddsSum(t) \/ ObserveCounts(t) \/ BulkAddsSum(t) \/ BulkCounts(t)
         \/ ResetCounts(t) \/ ResetSum(t) \/ CollectCounts(t)
  PROVE  UNCHANGED <<AtomicCounts, AtomicSum, answer>>
<1> USE BucketsAssumption, HistogramThreads DEF IInv
<1> USE DEF AtomicCounts, AtomicSum
<1>1. mutex = t
  BY DEF Owned, ObserveAddsSum, ObserveCounts, BulkAddsSum, BulkCounts, ResetCounts,
         ResetSum, CollectCounts
<1>2. CASE ObserveAddsSum(t)
  BY <1>1, <1>2 DEF ObserveAddsSum, TypeOK
<1>3. CASE BulkAddsSum(t)
  BY <1>1, <1>3 DEF BulkAddsSum, TypeOK
<1>4. CASE ObserveCounts(t)
  <2>1. counts[arg[t].bucket] \in Nat /\ arg[t].bucket \in Buckets
    BY <1>4 DEF ObserveCounts, Args, TypeOK
  <2>2. counts' = [counts EXCEPT ![arg[t].bucket] = @ + 1]
    BY <1>4, <2>1 DEF ObserveCounts, Increment
  <2>3. AtomicCounts' = counts' /\ AtomicSum' = sum'
    BY <1>4, MappingWhenFreeNext DEF ObserveCounts, Leave
  <2>4. AtomicCounts = counts' /\ AtomicSum = sum
    BY <1>1, <1>4, <2>2 DEF ObserveCounts, TypeOK
  <2> QED BY <1>4, <2>3, <2>4 DEF ObserveCounts
<1>5. CASE BulkCounts(t)
  <2>1. pc[t] = "bulk_count" /\ pos[t] \in 1 .. N /\ sum' = sum /\ answer' = answer
        /\ counts' = [counts EXCEPT ![pos[t]] = Increment(@, arg[t].increments[pos[t]])]
    BY <1>5 DEF BulkCounts, TypeOK, Buckets
  <2>2. CASE pos[t] = N
    <3>1. mutex' = NoThread
      BY <1>5, <2>2 DEF BulkCounts, Leave
    <3>2. AtomicCounts' = counts' /\ AtomicSum' = sum'
      BY <3>1, MappingWhenFreeNext
    <3>3. \A i \in Buckets : i >= pos[t] <=> i = pos[t]
      BY <2>2 DEF Buckets
    <3>4. AtomicCounts = counts'
      BY <1>1, <2>1, <3>3 DEF TypeOK
    <3> QED BY <1>1, <2>1, <3>2, <3>4
  <2>3. CASE pos[t] # N
    <3>1. mutex' = t /\ pc' = pc /\ arg' = arg /\ pos'[t] = pos[t] + 1
      BY <1>1, <1>5, <2>3 DEF BulkCounts, NextBucket, TypeOK
    <3>2. \A i \in Buckets : i >= pos[t] <=> i = pos[t] \/ i >= pos[t] + 1
      BY <2>1 DEF Buckets
    <3>3. ~ (pos[t] >= pos[t] + 1)
      BY <2>1
    <3>4. AtomicCounts' = AtomicCounts
      BY <1>1, <2>1, <3>1, <3>2, <3>3 DEF TypeOK
    <3> QED BY <1>1, <2>1, <3>1, <3>4
  <2> QED BY <2>2, <2>3
<1>6. CASE ResetCounts(t)
  <2>1. pc[t] = "reset_count" /\ pc'[t] \in {"reset_count", "reset_sum"} /\ mutex' = t
        /\ answer' = answer
    BY <1>1, <1>6 DEF ResetCounts, NextBucket, TypeOK
  <2> QED BY <1>1, <2>1
<1>7. CASE ResetSum(t)
  <2>1. AtomicCounts' = counts' /\ AtomicSum' = sum'
    BY <1>7, MappingWhenFreeNext DEF ResetSum, Leave
  <2>2. \A i \in Buckets : counts[i] = 0
    BY <1>7 DEF ResetSum, Cleared
  <2>3. counts = [i \in Buckets |-> 0]
    BY <2>2 DEF TypeOK
  <2>4. AtomicCounts = counts /\ AtomicSum = 0
    BY <1>1, <1>7, <2>3 DEF ResetSum
  <2> QED BY <1>7, <2>1, <2>4 DEF ResetSum
<1>8. CASE CollectCounts(t)
  <2>1. pc[t] = "collect_count" /\ pc'[t] \in {"collect_count", "collect_sum"} /\ mutex' = t
        /\ answer' = answer /\ counts' = counts /\ sum' = sum
    BY <1>1, <1>8 DEF CollectCounts, NextBucket, TypeOK, data
  <2> QED BY <1>1, <2>1 DEF TypeOK
<1> QED BY <1>2, <1>3, <1>4, <1>5, <1>6, <1>7, <1>8

\* Collect answers with what the buckets and the sum hold.
LEMMA CollectRefines ==
  ASSUME IInv, IInv', NEW t \in Threads, CollectReturns(t)
  PROVE  Atomic!Collect(t)
<1> USE BucketsAssumption, HistogramThreads DEF IInv
<1> DEFINE a == [bucket |-> partial[t], sample_count |-> Last(partial[t]),
                 sample_sum |-> sum]
<1>1. mutex = t /\ pc[t] = "collect_sum" /\ mutex' = NoThread /\ counts' = counts
      /\ sum' = sum /\ answer' = [answer EXCEPT ![t] = a]
  BY DEF Owned, CollectReturns, Leave, data
<1>2. AtomicCounts = counts /\ AtomicSum = sum
  BY <1>1 DEF AtomicCounts, AtomicSum, TypeOK
<1>3. AtomicCounts' = counts' /\ AtomicSum' = sum'
  BY <1>1, MappingWhenFreeNext
<1>4. answer'[t] = a
  BY <1>1 DEF TypeOK
<1>5. a # NoAnswer
  BY AnswerType, AnswerAssumption
<1>6. DOMAIN partial[t] = Buckets /\ Len(partial[t]) = N
  BY <1>1, LenProperties DEF Snapshot, SnapshotOf, TypeOK, Buckets
<1>7. \A i \in Buckets : a.bucket[i] = counts[i] + (IF i = 1 THEN 0 ELSE a.bucket[i - 1])
  BY <1>6 DEF Snapshot, SnapshotOf, Differences, Buckets
<1> HIDE DEF a
<1>8. DOMAIN a.bucket = Buckets /\ a.sample_sum = sum
  BY <1>6 DEF a
<1> QED BY <1>1, <1>2, <1>3, <1>4, <1>5, <1>7, <1>8 DEF Atomic!Collect, Atomic!Cumulates

\* With its mutex, Histogram is an AtomicHistogram.
THEOREM HistogramIsAtomic == Spec => RefinesAtomicHistogram
<1>1. Init => Atomic!Init
  BY DEF Init, Atomic!Init, AtomicCounts, AtomicSum
<1>2. IInv /\ IInv' /\ [Next]_vars => [Atomic!Next]_Atomic!vars
  <2> SUFFICES ASSUME IInv, IInv', [Next]_vars PROVE [Atomic!Next]_Atomic!vars
    OBVIOUS
  <2>1. CASE UNCHANGED vars
    BY <2>1 DEF vars, data, Atomic!vars, AtomicCounts, AtomicSum
  <2>2. ASSUME NEW t \in Threads,
               \/ \E v \in Values : ObserveBegins(t, v)
               \/ \E b \in Bulks : BulkBegins(t, b)
               \/ ResetBegins(t) \/ CollectBegins(t)
        PROVE  [Atomic!Next]_Atomic!vars
    BY <2>2, BeginsRefine DEF Atomic!Next
  <2>3. ASSUME NEW t \in Threads,
               \/ ObserveAddsSum(t) \/ ObserveCounts(t) \/ BulkAddsSum(t) \/ BulkCounts(t)
               \/ ResetCounts(t) \/ ResetSum(t) \/ CollectCounts(t)
        PROVE  [Atomic!Next]_Atomic!vars
    BY <2>3, ChangesRefine DEF Atomic!vars
  <2>4. ASSUME NEW t \in Threads, CollectReturns(t) PROVE [Atomic!Next]_Atomic!vars
    BY <2>4, CollectRefines DEF Atomic!Next
  <2>5. ASSUME NEW t \in Threads, NEW b \in Bulks, BulkRejects(t, b)
        PROVE  [Atomic!Next]_Atomic!vars
    BY <2>5, <2>1 DEF BulkRejects
  <2> QED BY <2>1, <2>2, <2>3, <2>4, <2>5 DEF Next
<1> QED BY <1>1, <1>2, Inductive, PTL DEF Spec, RefinesAtomicHistogram, Atomic!Spec

-----------------------------------------------------------------------------
(* Induction over data: the numbers are well-founded, so a set of them that *)
(* is not empty has a least element.                                       *)

\* A set of natural numbers that is not empty has a least element.
LEMMA LeastNatural ==
  ASSUME NEW T \in SUBSET Nat, T # {}
  PROVE  \E x \in T : \A y \in T : x <= y
<1>1. PICK R : R = {p \in Nat \X Nat : p[1] < p[2]}
  OBVIOUS
<1>2. IsWellFoundedOn(R, Nat)
  BY <1>1, NatLessThanWellFounded DEF OpToRel
<1>3. PICK x \in T : \A y \in T : ~ <<y, x>> \in R
  BY <1>2, WFMin, Zenon
<1>4. \A y \in T : y \in Nat /\ x \in Nat /\ ~ (y < x)
  BY <1>1, <1>3
<1> QED
  BY <1>4

\* A set with 0 and the successor of each of its numbers has them all.
LEMMA Induction ==
  ASSUME NEW T, 0 \in T, \A n \in Nat : n \in T => n + 1 \in T
  PROVE  Nat \subseteq T
<1> SUFFICES ASSUME Nat \ T # {} PROVE FALSE
  OBVIOUS
<1>1. PICK x \in Nat \ T : \A y \in Nat \ T : x <= y
  BY LeastNatural
<1>2. x - 1 \in Nat /\ x - 1 \in T
  BY <1>1
<1> QED
  BY <1>1, <1>2

\* f starts with b, and each value follows from the one before it.
Follows(f, n, b, step) == f[0] = b /\ \A i \in 1 .. n : f[i] = step[i][f[i - 1]]

\* A recursive definition on 0 .. n has a solution.
LEMMA Recursion ==
  ASSUME NEW S, NEW n \in Nat, NEW b \in S, NEW step \in [1 .. n -> [S -> S]]
  PROVE  \E f \in [0 .. n -> S] : Follows(f, n, b, step)
<1> DEFINE T == {m \in Nat : m <= n => \E f \in [0 .. m -> S] : Follows(f, m, b, step)}
<1>1. 0 \in T
  <2>1. [i \in 0 .. 0 |-> b] \in [0 .. 0 -> S] /\ Follows([i \in 0 .. 0 |-> b], 0, b, step)
    BY DEF Follows
  <2> QED
    BY <2>1
<1>2. ASSUME NEW m \in Nat, m \in T PROVE m + 1 \in T
  <2> SUFFICES ASSUME m + 1 <= n
               PROVE  \E f \in [0 .. m + 1 -> S] : Follows(f, m + 1, b, step)
    OBVIOUS
  <2>1. PICK f \in [0 .. m -> S] : Follows(f, m, b, step)
    BY <1>2
  <2>2. PICK g : g = [i \in 0 .. m + 1 |-> IF i = m + 1 THEN step[m + 1][f[m]] ELSE f[i]]
    OBVIOUS
  <2>3. step[m + 1] \in [S -> S] /\ f[m] \in S
    OBVIOUS
  <2>4. step[m + 1][f[m]] \in S
    BY <2>3
  <2>5. g \in [0 .. m + 1 -> S]
    BY <2>2, <2>4
  <2>6. Follows(g, m + 1, b, step)
    BY <2>1, <2>2 DEF Follows
  <2> QED
    BY <2>5, <2>6
<1>3. Nat \subseteq T
  <2> HIDE DEF T
  <2> QED
    BY <1>1, <1>2, Induction
<1> QED
  BY <1>3

\* u adds up the values of f one after the other.
IsTotal(u, f, n) ==
  u \in [0 .. n -> Int] /\ u[0] = 0 /\ \A i \in 1 .. n : u[i] = u[i - 1] + f[i]

\* Total adds up the values of f one after the other.
LEMMA Totals ==
  ASSUME NEW n \in Nat, NEW f \in [1 .. n -> Int]
  PROVE  \E u : IsTotal(u, f, n) /\ Total(f, n) = u[n]
<1> DEFINE UpTo(u) == [i \in 0 .. n |-> IF i = 0 THEN 0 ELSE u[i - 1] + f[i]]
<1>1. Total(f, n) = (CHOOSE u : u = UpTo(u))[n]
  BY Zenon DEF Total
<1>2. PICK step : step = [i \in 1 .. n |-> [x \in Int |-> x + f[i]]]
  OBVIOUS
<1>3. step \in [1 .. n -> [Int -> Int]] /\ 0 \in Int
  BY <1>2
<1>4. PICK u \in [0 .. n -> Int] : Follows(u, n, 0, step)
  BY <1>3, Recursion
<1>5. u = UpTo(u)
  <2>1. u[0] = 0
    BY <1>4 DEF Follows
  <2>2. \A i \in 1 .. n : i - 1 \in 0 .. n /\ u[i] = step[i][u[i - 1]]
    BY <1>4 DEF Follows
  <2>3. \A i \in 1 .. n : u[i] = u[i - 1] + f[i]
    BY <1>2, <2>2
  <2>4. \A i \in 0 .. n : u[i] = IF i = 0 THEN 0 ELSE u[i - 1] + f[i]
    BY <2>1, <2>3
  <2>5. u = [i \in 0 .. n |-> u[i]]
    OBVIOUS
  <2>6. [i \in 0 .. n |-> u[i]] = UpTo(u)
    BY <2>4
  <2> QED BY <2>5, <2>6, Zenon
<1> HIDE DEF UpTo
<1>6. PICK w : w = UpTo(w) /\ Total(f, n) = w[n]
  BY <1>1, <1>5
<1>7. /\ w[0] = 0
      /\ \A i \in 1 .. n : w[i] = w[i - 1] + f[i]
      /\ w = [i \in 0 .. n |-> w[i]]
  <2>1. \A i \in 0 .. n : w[i] = IF i = 0 THEN 0 ELSE w[i - 1] + f[i]
    BY <1>6 DEF UpTo
  <2>2. DOMAIN w = 0 .. n /\ w = [i \in DOMAIN w |-> w[i]]
    BY <1>6 DEF UpTo
  <2> QED BY <2>1, <2>2
<1> DEFINE T == {m \in Nat : m <= n => w[m] \in Int}
<1>8. 0 \in T
  BY <1>7
<1>9. ASSUME NEW m \in Nat, m \in T PROVE m + 1 \in T
  <2> SUFFICES ASSUME m + 1 <= n PROVE w[m + 1] \in Int
    OBVIOUS
  <2>1. m + 1 \in 1 .. n /\ (m + 1) - 1 = m /\ w[m] \in Int
    BY <1>9
  <2>2. f[m + 1] \in Int /\ w[m + 1] = w[m] + f[m + 1]
    BY <1>7, <2>1
  <2> QED BY <2>1, <2>2
<1>10. \A m \in 0 .. n : w[m] \in Int
  <2> HIDE DEF T
  <2>1. Nat \subseteq T
    BY <1>8, <1>9, Induction
  <2> QED BY <2>1 DEF T
<1>11. w \in [0 .. n -> Int]
  BY <1>7, <1>10
<1> QED BY <1>6, <1>7, <1>11 DEF IsTotal

\* It is an integer, and 0 where there is nothing to add.
LEMMA TotalType ==
  ASSUME NEW n \in Nat, NEW f \in [1 .. n -> Int]
  PROVE  Total(f, n) \in Int /\ (n = 0 => Total(f, n) = 0)
<1>1. PICK u : IsTotal(u, f, n) /\ Total(f, n) = u[n]
  BY Totals
<1> QED BY <1>1 DEF IsTotal

\* One value more.
LEMMA TotalStep ==
  ASSUME NEW n \in Nat, NEW f \in [1 .. n + 1 -> Int], NEW g \in [1 .. n -> Int],
         \A i \in 1 .. n : g[i] = f[i]
  PROVE  Total(f, n + 1) = Total(g, n) + f[n + 1]
<1>1. PICK u : IsTotal(u, f, n + 1) /\ Total(f, n + 1) = u[n + 1]
  BY Totals
<1>2. PICK w : IsTotal(w, g, n) /\ Total(g, n) = w[n]
  BY Totals
<1> DEFINE T == {m \in Nat : m <= n => u[m] = w[m]}
<1>3. 0 \in T
  BY <1>1, <1>2 DEF IsTotal
<1>4. ASSUME NEW m \in Nat, m \in T PROVE m + 1 \in T
  <2> SUFFICES ASSUME m + 1 <= n PROVE u[m + 1] = w[m + 1]
    OBVIOUS
  <2>1. m + 1 \in 1 .. n /\ m + 1 \in 1 .. n + 1 /\ (m + 1) - 1 = m /\ u[m] = w[m]
    BY <1>4
  <2> QED BY <1>1, <1>2, <2>1 DEF IsTotal
<1>5. n \in T
  <2> HIDE DEF T
  <2>1. Nat \subseteq T
    BY <1>3, <1>4, Induction
  <2> QED BY <2>1
<1>6. u[n + 1] = u[n] + f[n + 1]
  <2>1. n + 1 \in 1 .. n + 1 /\ (n + 1) - 1 = n
    OBVIOUS
  <2> QED BY <1>1, <2>1 DEF IsTotal
<1> QED BY <1>1, <1>2, <1>5, <1>6

\* The total of a sum is the sum of the totals.
LEMMA TotalOfSum ==
  ASSUME NEW n \in Nat, NEW f \in [1 .. n -> Int], NEW g \in [1 .. n -> Int],
         NEW h \in [1 .. n -> Int], \A i \in 1 .. n : h[i] = f[i] + g[i]
  PROVE  Total(h, n) = Total(f, n) + Total(g, n)
<1>1. PICK u : IsTotal(u, f, n) /\ Total(f, n) = u[n]
  BY Totals
<1>2. PICK v : IsTotal(v, g, n) /\ Total(g, n) = v[n]
  BY Totals
<1>3. PICK w : IsTotal(w, h, n) /\ Total(h, n) = w[n]
  BY Totals
<1> DEFINE T == {m \in Nat : m <= n => w[m] = u[m] + v[m]}
<1>4. 0 \in T
  BY <1>1, <1>2, <1>3 DEF IsTotal
<1>5. ASSUME NEW m \in Nat, m \in T PROVE m + 1 \in T
  <2> SUFFICES ASSUME m + 1 <= n PROVE w[m + 1] = u[m + 1] + v[m + 1]
    OBVIOUS
  <2>1. m + 1 \in 1 .. n /\ (m + 1) - 1 = m /\ m \in 0 .. n /\ w[m] = u[m] + v[m]
    BY <1>5
  <2>2. /\ u[m + 1] = u[m] + f[m + 1] /\ v[m + 1] = v[m] + g[m + 1]
        /\ w[m + 1] = w[m] + h[m + 1]
    BY <1>1, <1>2, <1>3, <2>1 DEF IsTotal
  <2>3. u[m] \in Int /\ v[m] \in Int /\ f[m + 1] \in Int /\ g[m + 1] \in Int
        /\ h[m + 1] = f[m + 1] + g[m + 1]
    BY <1>1, <1>2, <2>1 DEF IsTotal
  <2> QED BY <2>1, <2>2, <2>3
<1>6. n \in T
  <2> HIDE DEF T
  <2>1. Nat \subseteq T
    BY <1>4, <1>5, Induction
  <2> QED BY <2>1
<1> QED BY <1>1, <1>2, <1>3, <1>6

-----------------------------------------------------------------------------
(* What an observation adds to a bucket.                                   *)

\* std::lower_bound: the boundaries are sorted, so the bucket of a value is the
\* first whose boundary is not less.
LEMMA BucketOfBound ==
  ASSUME NEW v \in Int, NEW i \in Buckets
  PROVE  /\ BucketOf(v) <= i <=> (i = N \/ v <= Boundaries[i])
         /\ BucketOf(v) \in Nat
<1> USE BucketsAssumption
<1>1. \A j \in 1 .. N - 1 : Boundaries[j] \in Int
  BY BoundariesAssumption, ElementOfSeq
<1>2. \A j, k \in 1 .. N - 1 : j <= k => Boundaries[j] <= Boundaries[k]
  <2> DEFINE T == {d \in Nat : \A j \in 1 .. N - 1 :
                     j + d <= N - 1 => Boundaries[j] <= Boundaries[j + d]}
  <2>1. 0 \in T
    BY <1>1
  <2>2. ASSUME NEW d \in Nat, d \in T PROVE d + 1 \in T
    <3> SUFFICES ASSUME NEW j \in 1 .. N - 1, j + (d + 1) <= N - 1
                 PROVE  Boundaries[j] <= Boundaries[j + (d + 1)]
      OBVIOUS
    <3>1. j + d \in 1 .. N - 1 /\ j + d \in 1 .. N - 2 /\ j + (d + 1) = (j + d) + 1
          /\ (j + d) + 1 \in 1 .. N - 1
      OBVIOUS
    <3>2. Boundaries[j] <= Boundaries[j + d]
      BY <2>2, <3>1
    <3>3. Boundaries[j + d] < Boundaries[(j + d) + 1]
      BY <3>1, BoundariesAssumption DEF StrictSorted
    <3> QED BY <1>1, <3>1, <3>2, <3>3
  <2>3. Nat \subseteq T
    <3> HIDE DEF T
    <3> QED BY <2>1, <2>2, Induction
  <2> TAKE j, k \in 1 .. N - 1
  <2> HAVE j <= k
  <2>4. k - j \in Nat /\ j + (k - j) = k
    OBVIOUS
  <2>5. k - j \in T
    BY <2>3, <2>4
  <2> QED BY <2>4, <2>5
<1> DEFINE Rest == {j \in 1 .. N : j = N \/ ~ (Boundaries[j] < v)}
<1>3. PICK f \in Rest : \A j \in Rest : f <= j
  <2>1. N \in Rest /\ Rest \in SUBSET Nat
    OBVIOUS
  <2> HIDE DEF Rest
  <2> QED BY <2>1, LeastNatural
<1>4. \A j \in 1 .. N - 1 : Boundaries[j] < v <=> j <= f - 1
  <2> TAKE j \in 1 .. N - 1
  <2>1. CASE j <= f - 1
    <3>1. j \notin Rest
      BY <1>3, <2>1
    <3> QED BY <2>1, <3>1
  <2>2. CASE j >= f
    <3>1. f \in 1 .. N - 1 /\ ~ (Boundaries[f] < v) /\ Boundaries[f] <= Boundaries[j]
      BY <1>2, <1>3, <2>2
    <3> QED BY <1>1, <2>2, <3>1
  <2> QED BY <1>3, <2>1, <2>2
<1>5. BucketOf(v) = f
  <2>1. {j \in 1 .. Len(Boundaries) : Boundaries[j] < v} = 1 .. (f - 1)
    BY <1>3, <1>4
  <2>2. 1 \in Int /\ f - 1 \in Int /\ f \in Nat /\ f >= 1
    BY <1>3
  <2>3. Cardinality(1 .. (f - 1)) = IF 1 > f - 1 THEN 0 ELSE (f - 1) - 1 + 1
    BY <2>2, FS_Interval
  <2>4. BucketOf(v) = 1 + Cardinality(1 .. (f - 1))
    BY <2>1 DEF BucketOf
  <2>5. f = 1 \/ ~ (1 > f - 1)
    BY <2>2
  <2> QED BY <2>2, <2>3, <2>4, <2>5
<1>6. i = N \/ v <= Boundaries[i] <=> f <= i
  <2>1. i \in 1 .. N
    BY DEF Buckets
  <2>2. CASE i = N
    BY <1>3, <2>2
  <2>3. CASE i # N
    <3>1. i \in 1 .. N - 1 /\ Boundaries[i] \in Int
      BY <1>1, <2>1, <2>3
    <3> QED BY <1>3, <1>4, <2>3, <3>1
  <2> QED BY <2>2, <2>3
<1> QED BY <1>3, <1>5, <1>6

Entries == [value : Int] \cup {b \in Bulks : Len(b.increments) = N}

\* How much an observation adds to bucket i alone.
Weight(e, i) ==
  IF "value" \in DOMAIN e
    THEN IF BucketOf(e.value) = i THEN 1 ELSE 0
    ELSE Increment(0, e.increments[i])

\* An observation is either a value or the increments of all the buckets.
LEMMA EntryKinds ==
  ASSUME NEW e \in Entries
  PROVE  \/ "value" \in DOMAIN e /\ e.value \in Int
         \/ "value" \notin DOMAIN e /\ e.sum \in Int /\ e.increments \in [Buckets -> Int]
<1>1. CASE e \in [value : Int]
  BY <1>1
<1>2. CASE e \in Bulks /\ Len(e.increments) = N
  <2>1. e \in [increments : Seq(Int), sum : Int]
    BY <1>2, BulksAssumption
  <2> QED BY <1>2, <2>1, BulkTypes
<1> QED BY <1>1, <1>2 DEF Entries

\* What an observation adds is an integer.
LEMMA EntryTypes ==
  ASSUME NEW e \in Entries, NEW i \in Buckets
  PROVE  Weight(e, i) \in Int /\ Contribution(e, i) \in Int /\ Amount(e) \in Int
<1>1. CASE "value" \in DOMAIN e /\ e.value \in Int
  BY <1>1 DEF Weight, Contribution, Amount
<1>2. CASE "value" \notin DOMAIN e /\ e.sum \in Int /\ e.increments \in [Buckets -> Int]
  <2>1. Increment(0, e.increments[i]) \in Int
    BY <1>2, IncrementType
  <2>2. BulkUpTo(e, i) \in Int
    <3>1. PICK f : f = [j \in 1 .. i |-> Increment(0, e.increments[j])]
      OBVIOUS
    <3>2. i \in Nat /\ \A j \in 1 .. i : j \in Buckets
      BY BucketsAssumption DEF Buckets
    <3>3. f \in [1 .. i -> Int]
      BY <1>2, <3>1, <3>2, IncrementType
    <3> QED BY <3>1, <3>2, <3>3, TotalType DEF BulkUpTo
  <2> QED BY <1>2, <2>1, <2>2 DEF Weight, Contribution, Amount
<1> QED BY <1>1, <1>2, EntryKinds

\* What is counted up to a boundary is what is counted up to the one before it,
\* and what falls into its own bucket.
LEMMA ContributionStep ==
  ASSUME NEW e \in Entries, NEW i \in Buckets
  PROVE  Contribution(e, i) = (IF i = 1 THEN 0 ELSE Contribution(e, i - 1)) + Weight(e, i)
<1>1. i \in 1 .. N /\ N \in Nat
  BY BucketsAssumption DEF Buckets
<1>2. CASE "value" \in DOMAIN e /\ e.value \in Int
  <2>1. PICK b : b = BucketOf(e.value)
    OBVIOUS
  <2>2. b \in 1 .. N
    BY <2>1, BucketOfType DEF Buckets
  <2>3. \A j \in Buckets : Contribution(e, j) = IF b <= j THEN 1 ELSE 0
    BY <1>2, <2>1, BucketOfBound DEF Contribution
  <2>4. i # 1 => i - 1 \in Buckets
    BY <1>1 DEF Buckets
  <2>5. Weight(e, i) = IF b = i THEN 1 ELSE 0
    BY <1>2, <2>1 DEF Weight
  <2>6. CASE i = 1
    BY <1>1, <2>2, <2>3, <2>5, <2>6
  <2>7. CASE i # 1
    <3>1. /\ Contribution(e, i) = IF b <= i THEN 1 ELSE 0
          /\ Contribution(e, i - 1) = IF b <= i - 1 THEN 1 ELSE 0
      BY <2>3, <2>4, <2>7
    <3> QED BY <1>1, <2>2, <2>5, <2>7, <3>1
  <2> QED BY <2>6, <2>7
<1>3. CASE "value" \notin DOMAIN e /\ e.sum \in Int /\ e.increments \in [Buckets -> Int]
  <2>1. PICK m, f, g : /\ m = i - 1
                       /\ f = [j \in 1 .. i |-> Increment(0, e.increments[j])]
                       /\ g = [j \in 1 .. i - 1 |-> Increment(0, e.increments[j])]
    OBVIOUS
  <2>2. m \in Nat /\ i = m + 1 /\ \A j \in 1 .. i : j \in Buckets
    BY <1>1, <2>1 DEF Buckets
  <2>3. \A j \in 1 .. i : Increment(0, e.increments[j]) \in Int
    <3>1. \A j \in 1 .. i : e.increments[j] \in Int
      BY <1>3, <2>2
    <3> QED BY <3>1 DEF Increment
  <2>4. f \in [1 .. m + 1 -> Int] /\ g \in [1 .. m -> Int] /\ \A j \in 1 .. m : g[j] = f[j]
    BY <2>1, <2>2, <2>3
  <2>5. Total(f, m + 1) = Total(g, m) + f[m + 1]
    BY <2>2, <2>4, TotalStep
  <2>6. m + 1 \in 1 .. i /\ f[m + 1] = Increment(0, e.increments[i])
    BY <1>1, <2>1, <2>2
  <2>7. Contribution(e, i) = Total(g, m) + Weight(e, i)
    BY <1>3, <2>1, <2>2, <2>5, <2>6 DEF Contribution, BulkUpTo, Weight
  <2>8. i = 1 => Total(g, m) = 0
    BY <2>2, <2>4, TotalType
  <2>9. i # 1 => Contribution(e, i - 1) = Total(g, m)
    BY <1>3, <2>1 DEF Contribution, BulkUpTo
  <2> QED BY <2>7, <2>8, <2>9
<1> QED BY <1>2, <1>3, EntryKinds

-----------------------------------------------------------------------------
(* The promise to keep: what the buckets and the sum hold, with what the   *)
(* owner of the mutex has still to do, is what has been observed since the *)
(* last Reset.                                                             *)

InBucket(i) == Total([k \in DOMAIN log |-> Weight(log[k], i)], Len(log))

Tally ==
  /\ log \in Seq(Entries)
  /\ \A i \in Buckets : AtomicCounts[i] = InBucket(i)
  /\ AtomicSum = SumOfObserved

\* One more observation adds what it contributes.
LEMMA TotalAppended ==
  ASSUME NEW E, NEW l \in Seq(E), NEW e \in E, NEW F \in [E -> Int],
         NEW f, f = [k \in DOMAIN l |-> F[l[k]]],
         NEW g, g = [k \in DOMAIN Append(l, e) |-> F[Append(l, e)[k]]]
  PROVE  Total(g, Len(Append(l, e))) = Total(f, Len(l)) + F[e]
<1>1. PICK n, m : n = Len(l) /\ m = Append(l, e)
  OBVIOUS
<1>2. /\ n \in Nat /\ DOMAIN l = 1 .. n /\ DOMAIN m = 1 .. n + 1 /\ Len(m) = n + 1
      /\ m[n + 1] = e /\ (\A k \in 1 .. n : m[k] = l[k] /\ l[k] \in E)
  BY <1>1, LenProperties, AppendProperties, ElementOfSeq
<1>3. \A k \in 1 .. n + 1 : m[k] \in E
  BY <1>2
<1>4. f \in [1 .. n -> Int] /\ g \in [1 .. n + 1 -> Int]
  BY <1>1, <1>2, <1>3
<1>5. \A k \in 1 .. n : f[k] = g[k]
  <2>1. \A k \in 1 .. n : k \in 1 .. n + 1
    BY <1>2
  <2> QED BY <1>1, <1>2, <2>1
<1>6. g[n + 1] = F[e]
  <2>1. n + 1 \in 1 .. n + 1
    BY <1>2
  <2> QED BY <1>1, <1>2, <2>1
<1>7. Total(g, n + 1) = Total(f, n) + g[n + 1]
  BY <1>2, <1>4, <1>5, TotalStep
<1> QED BY <1>1, <1>2, <1>6, <1>7

\* One more observation adds its weight to every bucket, and its amount to the sum.
LEMMA TallyAppended ==
  ASSUME log \in Seq(Entries), NEW e \in Entries, log' = Append(log, e)
  PROVE  /\ log' \in Seq(Entries)
         /\ \A i \in Buckets : InBucket(i)' = InBucket(i) + Weight(e, i)
         /\ SumOfObserved' = SumOfObserved + Amount(e)
<1>1. log' \in Seq(Entries)
  BY AppendProperties
<1>2. PICK l, m : l = log /\ m = Append(l, e)
  OBVIOUS
<1>3. l \in Seq(Entries) /\ log' = m
  BY <1>2
<1>4. (\A k \in DOMAIN l : l[k] \in Entries) /\ (\A k \in DOMAIN m : m[k] \in Entries)
  BY <1>1, <1>3, LenProperties, ElementOfSeq
<1>5. ASSUME NEW i \in Buckets PROVE InBucket(i)' = InBucket(i) + Weight(e, i)
  <2>1. PICK F : F = [x \in Entries |-> Weight(x, i)]
    OBVIOUS
  <2>2. F \in [Entries -> Int] /\ F[e] = Weight(e, i)
    BY <2>1, EntryTypes
  <2>3. PICK f, g : f = [k \in DOMAIN l |-> F[l[k]]] /\ g = [k \in DOMAIN m |-> F[m[k]]]
    OBVIOUS
  <2>4. Total(g, Len(m)) = Total(f, Len(l)) + F[e]
    BY <1>2, <1>3, <2>2, <2>3, TotalAppended
  <2>5. f = [k \in DOMAIN l |-> Weight(l[k], i)] /\ g = [k \in DOMAIN m |-> Weight(m[k], i)]
    BY <1>4, <2>1, <2>3
  <2> QED BY <1>2, <1>3, <2>2, <2>4, <2>5 DEF InBucket
<1>6. SumOfObserved' = SumOfObserved + Amount(e)
  <2>1. PICK F : F = [x \in Entries |-> Amount(x)]
    OBVIOUS
  <2>2. F \in [Entries -> Int] /\ F[e] = Amount(e)
    BY <2>1, EntryTypes, BucketsAssumption
  <2>3. PICK f, g : f = [k \in DOMAIN l |-> F[l[k]]] /\ g = [k \in DOMAIN m |-> F[m[k]]]
    OBVIOUS
  <2>4. Total(g, Len(m)) = Total(f, Len(l)) + F[e]
    BY <1>2, <1>3, <2>2, <2>3, TotalAppended
  <2>5. f = [k \in DOMAIN l |-> Amount(l[k])] /\ g = [k \in DOMAIN m |-> Amount(m[k])]
    BY <1>4, <2>1, <2>3
  <2> QED BY <1>2, <1>3, <2>2, <2>4, <2>5 DEF SumOfObserved
<1> QED BY <1>1, <1>5, <1>6

\* Nothing has been observed since the last Reset.
LEMMA TallyEmpty ==
  ASSUME NEW s, s = <<>>
  PROVE  /\ \A i : Total([k \in DOMAIN s |-> Weight(s[k], i)], Len(s)) = 0
         /\ Total([k \in DOMAIN s |-> Amount(s[k])], Len(s)) = 0
<1>1. Len(s) = 0 /\ DOMAIN s = 1 .. 0 /\ \A k \in 1 .. 0 : FALSE
  BY EmptySeq, LenProperties
<1>2. ASSUME NEW f, DOMAIN f = 1 .. 0, f = [k \in 1 .. 0 |-> f[k]] PROVE Total(f, 0) = 0
  <2>1. f \in [1 .. 0 -> Int]
    BY <1>1, <1>2
  <2> QED BY <2>1, TotalType
<1>3. ASSUME NEW i
      PROVE  Total([k \in DOMAIN s |-> Weight(s[k], i)], Len(s)) = 0
  <2>1. PICK f : f = [k \in 1 .. 0 |-> Weight(s[k], i)]
    OBVIOUS
  <2>2. DOMAIN f = 1 .. 0 /\ f = [k \in 1 .. 0 |-> f[k]]
    BY <2>1
  <2> QED BY <1>1, <1>2, <2>1, <2>2
<1>4. PICK f : f = [k \in 1 .. 0 |-> Amount(s[k])]
  OBVIOUS
<1>5. DOMAIN f = 1 .. 0 /\ f = [k \in 1 .. 0 |-> f[k]]
  BY <1>4
<1>6. Total(f, 0) = 0
  BY <1>2, <1>5
<1> QED BY <1>1, <1>3, <1>4, <1>6

\* What is counted is an integer.
LEMMA InBucketType ==
  ASSUME log \in Seq(Entries), NEW i \in Buckets
  PROVE  InBucket(i) \in Int
<1>1. PICK l : l = log
  OBVIOUS
<1>2. Len(l) \in Nat /\ DOMAIN l = 1 .. Len(l) /\ \A k \in DOMAIN l : l[k] \in Entries
  BY <1>1, LenProperties, ElementOfSeq
<1>3. PICK f : f = [k \in DOMAIN l |-> Weight(l[k], i)]
  OBVIOUS
<1>4. f \in [1 .. Len(l) -> Int]
  BY <1>2, <1>3, EntryTypes
<1>5. Total(f, Len(l)) \in Int
  BY <1>2, <1>4, TotalType
<1> QED BY <1>1, <1>3, <1>5 DEF InBucket

\* Every step keeps the promise: an observation counts when it gets the mutex.
LEMMA TallyStep == IInv /\ IInv' /\ Tally /\ [Next]_vars => Tally'
<1> SUFFICES ASSUME IInv, IInv', Tally, [Next]_vars PROVE Tally'
  OBVIOUS
<1>1. DOMAIN AtomicCounts = Buckets /\ DOMAIN AtomicCounts' = Buckets
  BY DEF AtomicCounts
<1>2. /\ log \in Seq(Entries) /\ AtomicSum = SumOfObserved
      /\ \A i \in Buckets : AtomicCounts[i] = InBucket(i)
  BY DEF Tally
<1>3. ASSUME UNCHANGED <<AtomicCounts, AtomicSum, log>> PROVE Tally'
  BY <1>3 DEF Tally, InBucket, SumOfObserved
<1>4. ASSUME NEW e \in Entries, log' = Append(log, e),
             \A i \in Buckets : AtomicCounts'[i] = AtomicCounts[i] + Weight(e, i),
             AtomicSum' = AtomicSum + Amount(e)
      PROVE  Tally'
  BY <1>2, <1>4, TallyAppended DEF Tally
<1>5. ASSUME NEW t \in Threads, NEW v \in Values, ObserveBegins(t, v) PROVE Tally'
  <2>1. PICK e : e = [value |-> v]
    OBVIOUS
  <2>2. e \in Entries /\ log' = Append(log, e)
    BY <1>5, <2>1, ValuesAssumption DEF ObserveBegins, Entries
  <2>3. Atomic!Observe(v)
    BY <1>5, BeginsRefine
  <2>4. BucketOf(v) \in Buckets /\ v \in Int
    BY BucketOfType, ValuesAssumption
  <2>5. /\ AtomicCounts' = [AtomicCounts EXCEPT ![BucketOf(v)] = @ + 1]
        /\ AtomicSum' = AtomicSum + v
    BY <2>3 DEF Atomic!Observe
  <2>6. \A i : Weight(e, i) = IF BucketOf(v) = i THEN 1 ELSE 0
    BY <2>1 DEF Weight
  <2>7. ASSUME NEW i \in Buckets PROVE AtomicCounts'[i] = AtomicCounts[i] + Weight(e, i)
    <3>1. AtomicCounts[i] \in Int
      BY <1>2, InBucketType
    <3>2. CASE i = BucketOf(v)
      BY <1>1, <2>4, <2>5, <2>6, <3>2
    <3>3. CASE i # BucketOf(v)
      <4>1. AtomicCounts'[i] = AtomicCounts[i] /\ Weight(e, i) = 0
        BY <1>1, <2>4, <2>5, <2>6, <3>3
      <4> QED BY <3>1, <4>1
    <3> QED BY <3>2, <3>3
  <2>8. Amount(e) = v
    BY <2>1 DEF Amount
  <2> QED BY <1>4, <2>2, <2>5, <2>7, <2>8
<1>6. ASSUME NEW t \in Threads, NEW b \in Bulks, BulkBegins(t, b) PROVE Tally'
  <2>1. Atomic!ObserveMultiple(b) /\ Len(b.increments) = N
    BY <1>6, BeginsRefine
  <2>2. b \in Entries /\ log' = Append(log, b)
    BY <1>6, <2>1 DEF BulkBegins, Entries
  <2>3. "value" \notin DOMAIN b
    BY BulksAssumption
  <2>4. b.sum \in Int /\ b.increments \in [Buckets -> Int]
    BY <2>1, BulkTypes
  <2>5. /\ AtomicCounts' = [i \in Buckets |-> Increment(AtomicCounts[i], b.increments[i])]
        /\ AtomicSum' = AtomicSum + b.sum
    BY <2>1 DEF Atomic!ObserveMultiple
  <2>6. ASSUME NEW i \in Buckets PROVE AtomicCounts'[i] = AtomicCounts[i] + Weight(b, i)
    <3>1. AtomicCounts[i] \in Int /\ b.increments[i] \in Int
      BY <1>2, <2>4, InBucketType
    <3>2. AtomicCounts'[i] = Increment(AtomicCounts[i], b.increments[i])
          /\ Weight(b, i) = Increment(0, b.increments[i])
      BY <2>3, <2>5 DEF Weight
    <3> QED BY <3>1, <3>2 DEF Increment
  <2>7. Amount(b) = b.sum
    BY <2>3 DEF Amount
  <2> QED BY <1>4, <2>2, <2>5, <2>6, <2>7
<1>7. ASSUME NEW t \in Threads, ResetBegins(t) PROVE Tally'
  <2>1. Atomic!Reset /\ log' = <<>>
    BY <1>7, BeginsRefine DEF ResetBegins
  <2>2. AtomicCounts' = [i \in Buckets |-> 0] /\ AtomicSum' = 0
    BY <2>1 DEF Atomic!Reset
  <2>3. PICK s : s = <<>>
    OBVIOUS
  <2>4. log' = s /\ s \in Seq(Entries)
    BY <2>1, <2>3, EmptySeq
  <2>5. (\A i \in Buckets : InBucket(i)' = 0) /\ SumOfObserved' = 0
    BY <2>3, <2>4, TallyEmpty DEF InBucket, SumOfObserved
  <2> QED BY <2>2, <2>4, <2>5 DEF Tally
<1>8. ASSUME NEW t \in Threads, CollectBegins(t) PROVE Tally'
  <2>1. (UNCHANGED Atomic!vars) /\ log' = log
    BY <1>8, BeginsRefine DEF CollectBegins
  <2> QED BY <1>3, <2>1 DEF Atomic!vars
<1>9. ASSUME NEW t \in Threads,
             \/ ObserveAddsSum(t) \/ ObserveCounts(t) \/ BulkAddsSum(t) \/ BulkCounts(t)
             \/ ResetCounts(t) \/ ResetSum(t) \/ CollectCounts(t)
      PROVE  Tally'
  <2>1. UNCHANGED <<AtomicCounts, AtomicSum, answer>>
    BY <1>9, ChangesRefine
  <2>2. log' = log
    BY <1>9 DEF ObserveAddsSum, ObserveCounts, BulkAddsSum, BulkCounts, ResetCounts,
                ResetSum, CollectCounts
  <2> QED BY <1>3, <2>1, <2>2
<1>10. ASSUME NEW t \in Threads, CollectReturns(t) PROVE Tally'
  <2>1. UNCHANGED <<AtomicCounts, AtomicSum>>
    BY <1>10, CollectRefines DEF Atomic!Collect
  <2> QED BY <1>3, <1>10, <2>1 DEF CollectReturns
<1>11. CASE UNCHANGED vars
  <2>1. UNCHANGED <<AtomicCounts, AtomicSum, log>>
    BY <1>11 DEF vars, data, AtomicCounts, AtomicSum
  <2> QED BY <1>3, <2>1
<1>12. ASSUME NEW t \in Threads, NEW b \in Bulks, BulkRejects(t, b) PROVE Tally'
  BY <1>11, <1>12 DEF BulkRejects
<1> QED BY <1>5, <1>6, <1>7, <1>8, <1>9, <1>10, <1>11, <1>12 DEF Next

\* What has been observed up to a boundary is what has been observed up to the one
\* before it, and what fell into its own bucket.
LEMMA ObservedStep ==
  ASSUME log \in Seq(Entries), NEW i \in Buckets
  PROVE  /\ ObservedUpTo(i) = (IF i = 1 THEN 0 ELSE ObservedUpTo(i - 1)) + InBucket(i)
         /\ ObservedUpTo(i) \in Int
<1>1. PICK l, n : l = log /\ n = Len(l)
  OBVIOUS
<1>2. n \in Nat /\ DOMAIN l = 1 .. n /\ \A k \in 1 .. n : l[k] \in Entries
  BY <1>1, LenProperties, ElementOfSeq
<1>3. i \in 1 .. N /\ N \in Nat /\ (i # 1 => i - 1 \in Buckets)
  BY BucketsAssumption DEF Buckets
<1>4. PICK f, g, h :
        /\ f = [k \in 1 .. n |-> IF i = 1 THEN 0 ELSE Contribution(l[k], i - 1)]
        /\ g = [k \in 1 .. n |-> Weight(l[k], i)]
        /\ h = [k \in 1 .. n |-> Contribution(l[k], i)]
  OBVIOUS
<1>5. \A k \in 1 .. n : f[k] \in Int /\ g[k] \in Int /\ h[k] \in Int /\ h[k] = f[k] + g[k]
  <2> TAKE k \in 1 .. n
  <2>1. /\ f[k] = IF i = 1 THEN 0 ELSE Contribution(l[k], i - 1)
        /\ g[k] = Weight(l[k], i) /\ h[k] = Contribution(l[k], i)
    BY <1>4
  <2>2. l[k] \in Entries
    BY <1>2
  <2>3. i # 1 => Contribution(l[k], i - 1) \in Int
    BY <1>3, <2>2, EntryTypes
  <2> QED BY <2>1, <2>2, <2>3, EntryTypes, ContributionStep
<1>6. f \in [1 .. n -> Int] /\ g \in [1 .. n -> Int] /\ h \in [1 .. n -> Int]
  BY <1>4, <1>5
<1>7. Total(h, n) = Total(f, n) + Total(g, n) /\ Total(h, n) \in Int /\ Total(f, n) \in Int
      /\ Total(g, n) \in Int
  BY <1>2, <1>5, <1>6, TotalOfSum, TotalType
<1>8. ObservedUpTo(i) = Total(h, n) /\ InBucket(i) = Total(g, n)
  BY <1>1, <1>2, <1>4 DEF ObservedUpTo, InBucket
<1>9. CASE i = 1
  <2>1. \A k \in 1 .. n : f[k] = 0
    BY <1>4, <1>9
  <2>2. \A k \in 1 .. n : f[k] = f[k] + f[k]
    BY <2>1
  <2>3. Total(f, n) = Total(f, n) + Total(f, n)
    BY <1>2, <1>6, <2>2, TotalOfSum
  <2> QED BY <1>7, <1>8, <1>9, <2>3
<1>10. CASE i # 1
  <2>1. f = [k \in 1 .. n |-> Contribution(l[k], i - 1)]
    BY <1>4, <1>10
  <2>2. ObservedUpTo(i - 1) = Total(f, n)
    BY <1>1, <1>2, <2>1 DEF ObservedUpTo
  <2> QED BY <1>7, <1>8, <1>10, <2>2
<1> QED BY <1>9, <1>10

\* Collect answers with a consistent snapshot: for any boundaries, any observations
\* and any increments, each bucket counts exactly what has been observed up to its
\* bound since the last Reset, although the counts are read one after the other.
THEOREM AnswersAreExact == Spec => AnswersExact
<1>1. Init => Tally
  <2> SUFFICES ASSUME Init PROVE Tally
    OBVIOUS
  <2>1. PICK s : s = log
    OBVIOUS
  <2>2. log = <<>> /\ AtomicSum = 0 /\ AtomicCounts = [i \in Buckets |-> 0]
    BY DEF Init, AtomicSum, AtomicCounts
  <2>3. (\A i \in Buckets : InBucket(i) = 0) /\ SumOfObserved = 0
    BY <2>1, <2>2, TallyEmpty DEF InBucket, SumOfObserved
  <2> QED BY <2>2, <2>3, EmptySeq DEF Tally
<1>2. ASSUME IInv, IInv', Tally, NEW t \in Threads, CollectReturns(t)
      PROVE  LET a == answer'[t] IN
               /\ \A i \in Buckets : a.bucket[i] = ObservedUpTo(i)
               /\ a.sample_count = a.bucket[N]
               /\ a.sample_sum = SumOfObserved
  <2> USE <1>2, BucketsAssumption DEF IInv
  <2>1. PICK p : p = partial[t]
    OBVIOUS
  <2>2. /\ answer'[t] = [bucket |-> p, sample_count |-> Last(p), sample_sum |-> sum]
        /\ mutex = t /\ pc[t] = "collect_sum"
    BY <1>2, <2>1 DEF CollectReturns, TypeOK, Owned
  <2>3. AtomicCounts = counts /\ AtomicSum = sum
    <3>1. t # NoThread
      BY HistogramThreads
    <3> QED BY <2>2, <3>1 DEF AtomicCounts, AtomicSum, TypeOK
  <2>4. p \in Seq(Nat) /\ Len(p) = N /\ Differences(p)
    BY <2>1, <2>2 DEF TypeOK, Snapshot, SnapshotOf
  <2>5. log \in Seq(Entries) /\ sum = SumOfObserved
        /\ \A i \in Buckets : counts[i] = InBucket(i)
    BY <1>2, <2>3 DEF Tally
  <2>6. \A i \in Buckets : p[i] = counts[i] + (IF i = 1 THEN 0 ELSE p[i - 1])
    BY <2>4 DEF Differences, Buckets
  <2> DEFINE T == {m \in Nat : m + 1 \in Buckets => p[m + 1] = ObservedUpTo(m + 1)}
  <2>7. 0 \in T
    <3>1. 1 \in Buckets /\ p[1] = counts[1] + 0 /\ counts[1] \in Int
      BY <2>6 DEF TypeOK
    <3>2. ObservedUpTo(1) = 0 + InBucket(1)
      BY <2>5, <3>1, ObservedStep
    <3> QED BY <2>5, <3>1, <3>2
  <2>8. ASSUME NEW m \in Nat, m \in T PROVE m + 1 \in T
    <3> SUFFICES ASSUME (m + 1) + 1 \in Buckets
                 PROVE  p[(m + 1) + 1] = ObservedUpTo((m + 1) + 1)
      OBVIOUS
    <3>1. PICK i : i = (m + 1) + 1
      OBVIOUS
    <3>2. i \in Buckets /\ i - 1 = m + 1 /\ i - 1 \in Buckets /\ i # 1
      BY <3>1 DEF Buckets
    <3>3. p[i - 1] = ObservedUpTo(i - 1)
      BY <2>8, <3>2
    <3>4. p[i] = counts[i] + p[i - 1]
      BY <2>6, <3>2
    <3>5. ObservedUpTo(i) = ObservedUpTo(i - 1) + InBucket(i) /\ ObservedUpTo(i - 1) \in Int
      BY <2>5, <3>2, ObservedStep
    <3>6. counts[i] = InBucket(i) /\ counts[i] \in Int
      BY <2>5, <3>2 DEF TypeOK
    <3> QED BY <3>1, <3>3, <3>4, <3>5, <3>6
  <2>9. \A i \in Buckets : p[i] = ObservedUpTo(i)
    <3> HIDE DEF T
    <3>1. Nat \subseteq T
      BY <2>7, <2>8, Induction
    <3> TAKE i \in Buckets
    <3>2. i - 1 \in Nat /\ (i - 1) + 1 = i
      BY DEF Buckets
    <3>3. i - 1 \in T
      BY <3>1, <3>2
    <3> QED BY <3>2, <3>3 DEF T
  <2>10. Last(p) = p[N]
    BY <2>4, EmptySeq DEF Last
  <2> QED BY <2>2, <2>5, <2>9, <2>10
<1>3. IInv /\ IInv' /\ Tally /\ [Next]_vars =>
        [\A t \in Threads : CollectReturns(t) =>
           LET a == answer'[t] IN
             /\ \A i \in Buckets : a.bucket[i] = ObservedUpTo(i)
             /\ a.sample_count = a.bucket[N]
             /\ a.sample_sum = SumOfObserved]_vars
  BY <1>2
<1> QED BY <1>1, <1>3, TallyStep, Inductive, PTL DEF Spec, AnswersExact
=============================================================================
