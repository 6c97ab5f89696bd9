--------------------------- MODULE SummaryProofs ---------------------------
(***************************************************************************)
(* Theorems about Summary, for any number of threads, age buckets and      *)
(* quantiles, any max_age and any clock.                                   *)
(***************************************************************************)
EXTENDS Summary, SequenceTheorems, TLAPS

\* The whole ring spans max_age at most, and turning it takes time.
LEMMA IntervalProperties ==
  /\ RotationInterval \in Nat \ {0}
  /\ AgeBuckets * RotationInterval <= MaxAge
  /\ AgeBuckets \in Nat \ {0} /\ MaxAge \in Nat
BY AgeAssumption DEF RotationInterval

-----------------------------------------------------------------------------
(* Type correctness.  The ring never turns ahead of the clock, because     *)
(* only the owner of the mutex turns it and only by the time it has read.  *)

Rotating == {"observe_rotate", "collect_rotate"}

Owned == \A t \in Threads : pc[t] # "idle" <=> mutex = t

Turning ==
  /\ last_rotation = 0 \/ last_rotation < now
  /\ \A t \in Threads : pc[t] \in Rotating =>
       /\ Time(t) <= now
       /\ last_rotation = 0 \/ delta[t] > 0

\* rotate: after the last bucket the ring starts again.
LEMMA NextInRingType == ASSUME NEW b \in Ring PROVE NextInRing(b) \in Ring
BY AgeAssumption DEF NextInRing, Ring

\* Every step keeps the types, the owner of the mutex and the order of the clocks.
LEMMA TypeStep ==
  TypeOK /\ Owned /\ Turning /\ [Next]_vars => TypeOK' /\ Owned' /\ Turning'
<1> SUFFICES ASSUME TypeOK, Owned, Turning, [Next]_vars
             PROVE  TypeOK' /\ Owned' /\ Turning'
  OBVIOUS
<1> USE SummaryThreads, IntervalProperties
<1> USE DEF Time
<1>1. CASE UNCHANGED vars
  BY <1>1 DEF TypeOK, Owned, Turning, Ring, vars, ring
<1>2. CASE Tick
  BY <1>2 DEF Tick, TypeOK, Owned, Turning, Ring, Rotating, ring
<1>3. ASSUME NEW t \in Threads, ReadsClock(t) PROVE TypeOK' /\ Owned' /\ Turning'
  <2>1. now - last_rotation \in Nat
    BY DEF TypeOK, Turning
  <2>2. delta' = [delta EXCEPT ![t] = now - last_rotation] /\ pc[t] # "idle"
        /\ now' = now /\ last_rotation' = last_rotation
    BY <1>3 DEF ReadsClock, ring
  <2>3. TypeOK'
    BY <1>3, <2>1 DEF ReadsClock, Goto, TypeOK, Ring, ring
  <2>4. Owned'
    BY <1>3 DEF ReadsClock, Goto, TypeOK, Owned
  <2>5. Turning'
    <3>1. \A u \in Threads : u # t => pc'[u] = pc[u] /\ delta'[u] = delta[u]
      BY <1>3, <2>2 DEF ReadsClock, Goto, TypeOK
    <3>2. delta'[t] = now - last_rotation
      BY <2>2 DEF TypeOK
    <3> QED BY <2>1, <2>2, <3>1, <3>2 DEF Turning, TypeOK
  <2> QED BY <2>3, <2>4, <2>5
<1>4. ASSUME NEW t \in Threads, Rotates(t) PROVE TypeOK' /\ Owned' /\ Turning'
  <2>1. /\ mutex = t /\ mutex' = t /\ pc' = pc /\ now' = now
        /\ delta[t] \in Nat /\ delta[t] > RotationInterval
        /\ delta'[t] = delta[t] - RotationInterval
        /\ last_rotation' = last_rotation + RotationInterval
    BY <1>4 DEF Rotates, Rotating, TypeOK, Owned
  <2>2. TypeOK'
    <3>1. delta' \in [Threads -> Nat] /\ last_rotation' \in Nat
      BY <1>4, <2>1 DEF Rotates, TypeOK
    <3>2. current' \in Ring
      BY <1>4, NextInRingType DEF Rotates, TypeOK
    <3>3. buckets' \in [Ring -> SUBSET (Nat \ {0})]
      BY <1>4 DEF Rotates, Reset, TypeOK
    <3> QED BY <1>4, <3>1, <3>2, <3>3 DEF Rotates, TypeOK
  <2>3. Owned'
    BY <2>1 DEF Owned
  <2>4. \A u \in Threads : u # t => pc[u] \notin Rotating
    BY <2>1 DEF Owned, Rotating
  <2>5. Time(t) <= now /\ last_rotation \in Nat /\ now \in Nat
    BY <1>4 DEF Rotates, Turning, Rotating, TypeOK
  <2>6. Turning'
    BY <2>1, <2>4, <2>5 DEF Turning
  <2> QED BY <2>2, <2>3, <2>6
<1>5. ASSUME NEW t \in Threads, ObserveBegins(t) PROVE TypeOK' /\ Owned' /\ Turning'
  BY <1>5 DEF ObserveBegins, ObserveLocks, Goto, TypeOK, Owned, Turning, Ring, Rotating, ring
<1>6. ASSUME NEW t \in Threads, ObserveCounts(t) PROVE TypeOK' /\ Owned' /\ Turning'
  BY <1>6 DEF ObserveCounts, Goto, TypeOK, Owned, Turning, Ring, Rotating, ring
<1>7. ASSUME NEW t \in Threads, ObserveAddsSum(t) PROVE TypeOK' /\ Owned' /\ Turning'
  <2>1. sum' \in SUBSET (Nat \ {0})
    <3>1. Len(log) + 1 \in Nat \ {0}
      BY LenProperties DEF TypeOK
    <3> QED BY <1>7, <3>1 DEF ObserveAddsSum, TypeOK
  <2> QED BY <1>7, <2>1 DEF ObserveAddsSum, Goto, TypeOK, Owned, Turning, Ring, Rotating, ring
<1>8. ASSUME NEW t \in Threads, ObserveInserts(t) PROVE TypeOK' /\ Owned' /\ Turning'
  <2>1. Time(t) \in Nat /\ Len(log) + 1 \in Nat \ {0}
    BY LenProperties DEF TypeOK
  <2>2. buckets' \in [Ring -> SUBSET (Nat \ {0})]
    BY <1>8, <2>1 DEF ObserveInserts, InsertedInto, TypeOK
  <2>3. log' \in Seq(Nat)
    BY <1>8, <2>1, AppendProperties DEF ObserveInserts, TypeOK
  <2> QED BY <1>8, <2>2, <2>3 DEF ObserveInserts, Leave, Goto, TypeOK, Owned, Turning,
                                  Ring, Rotating
<1>9. ASSUME NEW t \in Threads, CollectBegins(t) PROVE TypeOK' /\ Owned' /\ Turning'
  BY <1>9 DEF CollectBegins, CollectLocks, Goto, TypeOK, Owned, Turning, Ring, Rotating, ring
<1>10. ASSUME NEW t \in Threads, CollectGets(t) PROVE TypeOK' /\ Owned' /\ Turning'
  <2>1. partial' \in [Threads -> Seq(SUBSET (Nat \ {0}))]
    <3>1. partial[t] \in Seq(SUBSET (Nat \ {0})) /\ buckets[current] \in SUBSET (Nat \ {0})
      BY DEF TypeOK
    <3>2. Append(partial[t], buckets[current]) \in Seq(SUBSET (Nat \ {0}))
      BY <3>1, AppendProperties
    <3> QED BY <1>10, <3>2 DEF CollectGets, TypeOK
  <2> QED BY <1>10, <2>1 DEF CollectGets, Goto, TypeOK, Owned, Turning, Ring, Rotating, ring
<1>11. ASSUME NEW t \in Threads, CollectReturns(t) PROVE TypeOK' /\ Owned' /\ Turning'
  BY <1>11 DEF CollectReturns, Leave, Goto, TypeOK, Owned, Turning, Ring, Rotating, ring
<1> QED BY <1>1, <1>2, <1>3, <1>4, <1>5, <1>6, <1>7, <1>8, <1>9, <1>10, <1>11
        DEF Next, Continue

\* Every variable keeps its type.
THEOREM TypeCorrect == Spec => []TypeOK
<1>1. Init => TypeOK /\ Owned /\ Turning
  BY SummaryThreads, AgeAssumption, EmptySeq
  DEF Init, TypeOK, Owned, Turning, Ring, Rotating
<1> QED BY <1>1, TypeStep, PTL DEF Spec

-----------------------------------------------------------------------------
(* The windows.  A bucket was last emptied when the ring was last turned,  *)
(* less one interval for every turn since; it holds what came after that,  *)
(* or everything if it never was.                                          *)

TurnsSince(b) == IF b < current THEN current - 1 - b ELSE AgeBuckets + current - 1 - b
Emptied(b) == last_rotation - TurnsSince(b) * RotationInterval
Within(b, i) == Emptied(b) <= 0 \/ log[i] > Emptied(b)

Logged == \A i \in Observations : log[i] <= last_rotation + RotationInterval
Windows == \A b \in Ring : buckets[b] = {i \in Observations : Within(b, i)}

\* The current bucket is behind every bucket by less than one round.
LEMMA TurnsType ==
  ASSUME TypeOK, NEW b \in Ring PROVE TurnsSince(b) \in 0 .. AgeBuckets - 1
BY AgeAssumption DEF TypeOK, Ring, TurnsSince

\* A bucket has been emptied at a turn that is over.
LEMMA EmptiedType ==
  ASSUME TypeOK, NEW b \in Ring PROVE Emptied(b) \in Int /\ Emptied(b) <= last_rotation
<1>1. TurnsSince(b) \in Nat /\ RotationInterval \in Nat
  BY TurnsType, IntervalProperties
<1>2. TurnsSince(b) * RotationInterval \in Nat
  BY <1>1
<1> QED BY <1>2 DEF TypeOK, Emptied

\* Every observation has a time.
LEMMA LogType == ASSUME TypeOK PROVE \A i \in Observations : log[i] \in Nat
BY ElementOfSeq DEF TypeOK, Observations

\* A turn empties the bucket that was current and leaves the others as they were.
LEMMA RotatesWindows ==
  ASSUME TypeOK, TypeOK', Logged, Windows, NEW t \in Threads, Rotates(t)
  PROVE  Logged' /\ Windows'
<1> DEFINE I == RotationInterval
<1>1. /\ I \in Nat \ {0} /\ AgeBuckets \in Nat \ {0}
      /\ last_rotation' = last_rotation + I /\ log' = log
      /\ current' = NextInRing(current)
      /\ buckets' = [buckets EXCEPT ![current] = {}]
      /\ current \in Ring
  BY IntervalProperties DEF Rotates, Reset, TypeOK
<1> HIDE DEF I
<1>2. Logged'
  <2>1. \A i \in Observations : log[i] \in Nat
    BY LogType
  <2>2. last_rotation \in Nat /\ Observations' = Observations
    BY <1>1 DEF TypeOK, Observations
  <2>3. \A i \in Observations : log[i] <= last_rotation + I
    BY DEF Logged, I
  <2>4. \A i \in Observations : log[i] <= (last_rotation + I) + I
    BY <1>1, <2>1, <2>2, <2>3
  <2> QED BY <1>1, <2>2, <2>4 DEF Logged, I
<1>3. ASSUME NEW b \in Ring, b # current PROVE Emptied(b)' = Emptied(b)
  <2>1. TurnsSince(b)' = TurnsSince(b) + 1
    BY <1>1, <1>3 DEF TurnsSince, NextInRing, Ring
  <2>2. TurnsSince(b) \in Nat
    BY TurnsType, <1>1
  <2>3. (TurnsSince(b) + 1) * I = TurnsSince(b) * I + I
    BY <1>1, <2>2
  <2>4. TurnsSince(b) * I \in Nat
    BY <1>1, <2>2
  <2> QED BY <1>1, <2>1, <2>3, <2>4 DEF Emptied, TypeOK, I
<1>4. ASSUME NEW b \in Ring, b = current PROVE Emptied(b)' = last_rotation + I
  <2>1. TurnsSince(b)' = 0
    BY <1>1, <1>4 DEF TurnsSince, NextInRing, Ring
  <2>2. 0 * I = 0
    BY <1>1
  <2> QED BY <1>1, <2>1, <2>2 DEF Emptied, TypeOK, I
<1>5. ASSUME NEW b \in Ring
      PROVE  buckets'[b] = {i \in Observations : Within(b, i)}'
  <2>1. CASE b # current
    <3>1. buckets'[b] = buckets[b] /\ Emptied(b)' = Emptied(b)
      BY <1>1, <1>3, <2>1 DEF TypeOK
    <3> QED BY <1>1, <3>1 DEF Windows, Within, Observations
  <2>2. CASE b = current
    <3>1. buckets'[b] = {} /\ Emptied(b)' = last_rotation + I
      BY <1>1, <1>4, <2>2 DEF TypeOK
    <3>2. \A i \in Observations : ~ (log[i] > last_rotation + I) /\ last_rotation + I > 0
      <4>1. last_rotation \in Nat
        BY DEF TypeOK
      <4>2. \A i \in Observations : log[i] \in Nat /\ log[i] <= last_rotation + I
        BY LogType DEF Logged, I
      <4> QED BY <1>1, <4>1, <4>2
    <3> QED BY <1>1, <3>1, <3>2 DEF Within, Observations
  <2> QED BY <2>1, <2>2
<1> QED BY <1>2, <1>5 DEF Windows, Ring

\* A new observation is younger than the last turn of every bucket.
LEMMA InsertsWindows ==
  ASSUME TypeOK, TypeOK', Turning, Logged, Windows, NEW t \in Threads, ObserveInserts(t)
  PROVE  Logged' /\ Windows'
<1> DEFINE n == Len(log) + 1
<1>1. /\ log' = Append(log, Time(t)) /\ last_rotation' = last_rotation /\ current' = current
      /\ Time(t) \in Nat /\ Time(t) <= last_rotation + RotationInterval
      /\ last_rotation = 0 \/ Time(t) > last_rotation
      /\ \A b \in Ring : buckets'[b] = buckets[b] \cup {n}
  BY IntervalProperties DEF ObserveInserts, InsertedInto, Turning, Rotating, Time, TypeOK
<1>2. Len(log') = n /\ log'[n] = Time(t) /\ n \in Nat
      /\ \A i \in Observations : log'[i] = log[i]
  <2>1. PICK l, x : l = log /\ x = Time(t)
    OBVIOUS
  <2>2. l \in Seq(Nat) /\ x \in Nat
    BY <1>1, <2>1 DEF TypeOK
  <2>3. /\ Len(Append(l, x)) = Len(l) + 1 /\ Append(l, x)[Len(l) + 1] = x /\ Len(l) \in Nat
        /\ \A i \in 1 .. Len(l) : Append(l, x)[i] = l[i]
    BY <2>2, LenProperties, AppendProperties
  <2> QED BY <1>1, <2>1, <2>3 DEF Observations
<1>3. Observations' = Observations \cup {n} /\ n \notin Observations
  <2>1. Len(log) \in Nat
    BY LenProperties DEF TypeOK
  <2>2. 1 .. Len(log) + 1 = (1 .. Len(log)) \cup {Len(log) + 1}
        /\ Len(log) + 1 \notin 1 .. Len(log)
    BY <2>1
  <2>3. Observations' = 1 .. Len(log) + 1
    BY <1>2 DEF Observations
  <2> QED BY <2>2, <2>3 DEF Observations
<1> HIDE DEF n
<1>4. Logged'
  BY <1>1, <1>2, <1>3 DEF Logged
<1>5. ASSUME NEW b \in Ring
      PROVE  buckets'[b] = {i \in Observations : Within(b, i)}'
  <2>1. Emptied(b)' = Emptied(b)
    BY <1>1 DEF Emptied, TurnsSince
  <2>2. Emptied(b) <= 0 \/ Time(t) > Emptied(b)
    BY <1>1, EmptiedType DEF TypeOK
  <2>3. \A i \in Observations : Within(b, i)' <=> Within(b, i)
    BY <1>2, <2>1 DEF Within
  <2>4. Emptied(b)' <= 0 \/ log'[n] > Emptied(b)'
    BY <1>2, <2>1, <2>2
  <2>5. \A i \in Observations : i \in buckets[b] <=> Within(b, i)
    BY DEF Windows
  <2>6. buckets[b] \subseteq Observations
    BY DEF Windows
  <2>7. \A i : i \in buckets'[b] <=> i \in Observations' /\ (i \in Observations => Within(b, i))
    BY <1>1, <1>3, <2>5, <2>6
  <2>8. \A i \in Observations' :
          (i \in Observations => Within(b, i)) <=> (Emptied(b)' <= 0 \/ log'[i] > Emptied(b)')
    BY <1>3, <2>3, <2>4 DEF Within
  <2> QED BY <2>7, <2>8 DEF Within
<1> QED BY <1>4, <1>5 DEF Windows, Ring

\* Every step keeps the windows of all buckets.
LEMMA WindowsStep ==
  /\ TypeOK /\ TypeOK' /\ Owned /\ Turning
  /\ Logged /\ Windows
  /\ [Next]_vars
  => Logged' /\ Windows'
<1> SUFFICES ASSUME TypeOK, TypeOK', Owned, Turning, Logged, Windows, [Next]_vars
             PROVE  Logged' /\ Windows'
  OBVIOUS
<1>1. ASSUME UNCHANGED <<ring, log>> PROVE Logged' /\ Windows'
  BY <1>1 DEF ring, Logged, Windows, Observations, Ring, Within, Emptied, TurnsSince
<1>2. ASSUME NEW t \in Threads, Rotates(t) \/ ObserveInserts(t)
      PROVE  Logged' /\ Windows'
  BY <1>2, RotatesWindows, InsertsWindows
<1>3. CASE UNCHANGED vars \/ Tick
  BY <1>1, <1>3 DEF vars, Tick
<1>4. ASSUME NEW t \in Threads,
             \/ ReadsClock(t) \/ ObserveBegins(t) \/ ObserveCounts(t) \/ ObserveAddsSum(t)
             \/ CollectBegins(t) \/ CollectGets(t) \/ CollectReturns(t)
      PROVE  Logged' /\ Windows'
  BY <1>1, <1>4 DEF ReadsClock, ObserveBegins, ObserveCounts, ObserveAddsSum,
                    CollectBegins, CollectGets, CollectReturns
<1> QED BY <1>2, <1>3, <1>4 DEF Next, Continue

IInv == TypeOK /\ Owned /\ Turning /\ Logged /\ Windows

\* The invariants together are inductive.
LEMMA Inductive == Spec => []IInv
<1>1. Init => IInv
  BY SummaryThreads, AgeAssumption, EmptySeq
  DEF Init, IInv, TypeOK, Owned, Turning, Ring, Rotating, Logged, Windows, Observations
<1>2. IInv /\ [Next]_vars => IInv'
  BY TypeStep, WindowsStep DEF IInv
<1> QED BY <1>1, <1>2, PTL DEF Spec

\* What is known where a quantile is computed.
LEMMA AtGet ==
  ASSUME IInv, NEW t \in Threads, CollectGets(t), NEW i \in Observations
  PROVE  /\ log[i] \in Nat /\ last_rotation \in Nat /\ delta[t] \in Nat
         /\ delta[t] <= RotationInterval
         /\ last_rotation = 0 \/ delta[t] > 0
         /\ i \in buckets[current] <=>
              \/ last_rotation - (AgeBuckets - 1) * RotationInterval <= 0
              \/ log[i] > last_rotation - (AgeBuckets - 1) * RotationInterval
<1>1. current \in Ring
  BY DEF IInv, TypeOK
<1>2. TurnsSince(current) = AgeBuckets - 1
  BY <1>1, AgeAssumption DEF TurnsSince, Ring
<1>3. i \in buckets[current] <=> Within(current, i)
  BY <1>1 DEF IInv, Windows
<1>4. log[i] \in Nat
  BY LogType DEF IInv
<1> QED BY <1>2, <1>3, <1>4 DEF IInv, TypeOK, CollectGets, Turning, Rotating, Within, Emptied

\* A quantile is computed from every observation of the window.
THEOREM RecentAreKept == Spec => KeepsRecent
<1>1. IInv /\ [Next]_vars =>
        [\A t \in Threads : CollectGets(t) =>
          \A i \in Observations :
            Time(t) - log[i] <= (AgeBuckets - 1) * RotationInterval
              => i \in buckets[current]]_vars
  <2> SUFFICES ASSUME IInv, NEW t \in Threads, CollectGets(t), NEW i \in Observations,
                      Time(t) - log[i] <= (AgeBuckets - 1) * RotationInterval
               PROVE  i \in buckets[current]
    OBVIOUS
  <2>1. (AgeBuckets - 1) * RotationInterval \in Nat
    BY IntervalProperties
  <2> QED BY <2>1, AtGet DEF Time
<1> QED BY <1>1, Inductive, PTL DEF Spec, KeepsRecent

\* No quantile is computed from an observation that is older than max_age.
THEOREM OldAreForgotten == Spec => ForgetsOld
<1>1. IInv /\ [Next]_vars =>
        [\A t \in Threads : CollectGets(t) =>
          \A i \in Observations : Time(t) - log[i] > MaxAge => i \notin buckets[current]]_vars
  <2> SUFFICES ASSUME IInv, NEW t \in Threads, CollectGets(t), NEW i \in Observations,
                      i \in buckets[current]
               PROVE  ~ (Time(t) - log[i] > MaxAge)
    OBVIOUS
  <2> DEFINE W == (AgeBuckets - 1) * RotationInterval
  <2>1. W \in Nat /\ W + RotationInterval = AgeBuckets * RotationInterval
    BY IntervalProperties
  <2>2. W + RotationInterval <= MaxAge /\ RotationInterval \in Nat /\ MaxAge \in Nat
    BY <2>1, IntervalProperties
  <2>3. last_rotation - W <= 0 \/ log[i] > last_rotation - W
    BY AtGet
  <2>4. /\ log[i] \in Nat /\ last_rotation \in Nat /\ delta[t] \in Nat
        /\ delta[t] <= RotationInterval
    BY AtGet
  <2> HIDE DEF W
  <2> QED BY <2>1, <2>2, <2>3, <2>4 DEF Time
<1> QED BY <1>1, Inductive, PTL DEF Spec, ForgetsOld

-----------------------------------------------------------------------------
(* Consistent answers.  The count and the sum are behind the log only      *)
(* while an Observe has the mutex; what a Collect has seen so far shrinks. *)

Booked ==
  LET loc == IF mutex = NoThread THEN "idle" ELSE pc[mutex] IN
    /\ count = IF loc \in {"observe_sum", "observe_clock", "observe_rotate"}
                 THEN Len(log) + 1 ELSE Len(log)
    /\ sum = IF loc \in {"observe_clock", "observe_rotate"}
               THEN 1 .. Len(log) + 1 ELSE Observations

Collecting == {"collect_clock", "collect_rotate"}

Shrinking(w) ==
  /\ \A k \in 1 .. Len(w) : w[k] \subseteq Observations
  /\ \A k \in 2 .. Len(w) : w[k] \subseteq w[k - 1]
  /\ w # <<>> => \A b \in Ring : buckets[b] \subseteq w[Len(w)]
Seen == \A t \in Threads :
  /\ pc[t] \notin Collecting => partial[t] = <<>>
  /\ Shrinking(partial[t])

\* Every step keeps count and sum in line with the log.
LEMMA BookedStep == TypeOK /\ Owned /\ Booked /\ [Next]_vars => Booked'
<1> SUFFICES ASSUME TypeOK, Owned, Booked, [Next]_vars PROVE Booked'
  OBVIOUS
<1> USE SummaryThreads
<1>1. CASE UNCHANGED vars \/ Tick
  BY <1>1 DEF vars, Tick, Booked, Observations
<1>2. ASSUME NEW t \in Threads, ReadsClock(t) \/ Rotates(t) \/ CollectGets(t) PROVE Booked'
  <2>1. mutex = t /\ mutex' = t /\ UNCHANGED <<log, count, sum>>
    BY <1>2 DEF ReadsClock, Rotates, CollectGets, Owned
  <2> QED BY <1>2, <2>1 DEF ReadsClock, Rotates, CollectGets, Goto, TypeOK, Booked, Observations
<1>3. ASSUME NEW t \in Threads, ObserveBegins(t) \/ CollectBegins(t) PROVE Booked'
  <2>1. mutex = NoThread /\ mutex' = t /\ UNCHANGED <<log, count, sum>>
        /\ pc'[t] \in {"observe_count", "collect_clock"}
    BY <1>3 DEF ObserveBegins, CollectBegins, ObserveLocks, CollectLocks, Goto, TypeOK
  <2> QED BY <2>1 DEF Booked, Observations
<1>4. ASSUME NEW t \in Threads, ObserveCounts(t) PROVE Booked'
  <2>1. mutex = t /\ mutex' = t /\ pc'[t] = "observe_sum"
    BY <1>4 DEF ObserveCounts, Goto, TypeOK, Owned
  <2> QED BY <1>4, <2>1 DEF ObserveCounts, Booked, Observations
<1>5. ASSUME NEW t \in Threads, ObserveAddsSum(t) PROVE Booked'
  <2>1. mutex = t /\ mutex' = t /\ pc'[t] = "observe_clock" /\ Len(log) \in Nat
    BY <1>5, LenProperties DEF ObserveAddsSum, Goto, TypeOK, Owned
  <2>2. Observations \cup {Len(log) + 1} = 1 .. Len(log) + 1
    BY <2>1 DEF Observations
  <2> QED BY <1>5, <2>1, <2>2 DEF ObserveAddsSum, Booked, Observations
<1>6. ASSUME NEW t \in Threads, ObserveInserts(t) PROVE Booked'
  <2>1. mutex = t /\ mutex' = NoThread
    BY <1>6 DEF ObserveInserts, Leave, TypeOK, Owned
  <2>2. Len(log') = Len(log) + 1
    <3>1. Time(t) \in Nat
      BY DEF TypeOK, Time
    <3> QED BY <1>6, <3>1, AppendProperties DEF ObserveInserts, TypeOK
  <2> QED BY <1>6, <2>1, <2>2 DEF ObserveInserts, Booked, Observations
<1>7. ASSUME NEW t \in Threads, CollectReturns(t) PROVE Booked'
  <2>1. mutex = t /\ mutex' = NoThread
    BY <1>7 DEF CollectReturns, Leave, TypeOK, Owned
  <2> QED BY <1>7, <2>1 DEF CollectReturns, Booked, Observations
<1> QED BY <1>1, <1>2, <1>3, <1>4, <1>5, <1>6, <1>7 DEF Next, Continue

\* The current bucket is the one that was emptied first.
LEMMA CurrentHoldsAll ==
  ASSUME IInv, NEW b \in Ring
  PROVE  buckets[b] \subseteq buckets[current] /\ buckets[b] \subseteq Observations
<1> DEFINE I == RotationInterval
<1>1. I \in Nat /\ AgeBuckets \in Nat \ {0} /\ current \in Ring
  BY IntervalProperties DEF IInv, TypeOK
<1>2. TurnsSince(current) = AgeBuckets - 1
  BY <1>1 DEF TurnsSince, Ring
<1>3. TurnsSince(b) \in Nat /\ AgeBuckets - 1 - TurnsSince(b) \in Nat
  BY TurnsType, <1>1 DEF IInv
<1> DEFINE d == AgeBuckets - 1 - TurnsSince(b)
<1>4. (AgeBuckets - 1) * I = TurnsSince(b) * I + d * I /\ d * I \in Nat
      /\ TurnsSince(b) * I \in Nat
  BY <1>1, <1>3
<1>5. Emptied(current) <= Emptied(b) /\ Emptied(current) \in Int /\ Emptied(b) \in Int
  <2> HIDE DEF d
  <2> QED BY <1>1, <1>2, <1>4 DEF Emptied, IInv, TypeOK
<1>6. \A i \in Observations : Within(b, i) => Within(current, i)
  BY <1>5, LogType DEF Within, IInv
<1> QED BY <1>1, <1>6 DEF IInv, Windows

\* At every step what Collect has seen so far only shrinks.
LEMMA SeenStep == IInv /\ IInv' /\ Seen /\ [Next]_vars => Seen'
<1> SUFFICES ASSUME IInv, IInv', Seen, [Next]_vars PROVE Seen'
  OBVIOUS
<1> USE DEF IInv
<1>1. ASSUME UNCHANGED <<ring, log, partial>>,
             \A t \in Threads : pc[t] \in Collecting => pc'[t] \in Collecting
      PROVE  Seen'
  BY <1>1 DEF Seen, Shrinking, Observations, Ring, ring
<1>2. CASE UNCHANGED vars \/ Tick
  BY <1>1, <1>2 DEF vars, Tick
<1>3. ASSUME NEW t \in Threads,
             \/ ReadsClock(t) \/ ObserveBegins(t) \/ ObserveCounts(t) \/ ObserveAddsSum(t)
             \/ CollectBegins(t)
      PROVE  Seen'
  BY <1>1, <1>3 DEF ReadsClock, ObserveBegins, ObserveCounts, ObserveAddsSum,
                    CollectBegins, Goto, TypeOK, Collecting
<1>4. ASSUME NEW t \in Threads, Rotates(t) PROVE Seen'
  <2>1. \A b \in Ring : buckets'[b] \subseteq buckets[b]
    BY <1>4 DEF Rotates, Reset, TypeOK
  <2>2. UNCHANGED <<log, partial, pc>>
    BY <1>4 DEF Rotates
  <2> QED BY <2>1, <2>2 DEF Seen, Shrinking, Observations, Ring
<1>5. ASSUME NEW t \in Threads, ObserveInserts(t) PROVE Seen'
  <2>1. mutex = t /\ pc[t] = "observe_rotate" /\ partial' = partial
    BY <1>5 DEF ObserveInserts, Owned
  <2>2. \A u \in Threads : pc[u] \notin Collecting
    BY <2>1 DEF Owned, Collecting
  <2>3. \A u \in Threads : partial'[u] = <<>>
    BY <2>1, <2>2 DEF Seen
  <2> QED BY <2>3, EmptySeq DEF Seen, Shrinking
<1>6. ASSUME NEW t \in Threads, CollectGets(t) PROVE Seen'
  <2> DEFINE w == partial[t]
             x == Append(w, buckets[current])
  <2>1. /\ UNCHANGED <<ring, log>>
        /\ partial' = [partial EXCEPT ![t] = x]
        /\ pc'[t] \in Collecting /\ \A u \in Threads : u # t => pc'[u] = pc[u]
        /\ current \in Ring /\ buckets[current] \in SUBSET (Nat \ {0})
        /\ w \in Seq(SUBSET (Nat \ {0}))
    BY <1>6 DEF CollectGets, Goto, TypeOK, Collecting
  <2>2. /\ Len(w) \in Nat /\ Len(x) = Len(w) + 1
        /\ \A k \in 1 .. Len(w) : x[k] = w[k]
        /\ x[Len(x)] = buckets[current]
    BY <2>1, AppendProperties, LenProperties
  <2>3. Shrinking(w)
    BY DEF Seen
  <2>4. \A b \in Ring : buckets[b] \subseteq buckets[current]
        /\ buckets[b] \subseteq Observations
    BY CurrentHoldsAll
  <2>5. w # <<>> => buckets[current] \subseteq w[Len(w)]
    BY <2>1, <2>3 DEF Shrinking
  <2>6. w = <<>> => Len(w) = 0
    BY <2>1, EmptySeq
  <2> HIDE DEF w, x
  <2>7. \A k \in 1 .. Len(x) : x[k] \subseteq Observations
    <3> TAKE k \in 1 .. Len(x)
    <3>1. CASE k = Len(x)
      BY <2>1, <2>2, <2>4, <3>1
    <3>2. CASE k # Len(x)
      BY <2>2, <2>3, <3>2 DEF Shrinking
    <3> QED BY <3>1, <3>2
  <2>8. \A k \in 2 .. Len(x) : x[k] \subseteq x[k - 1]
    <3> TAKE k \in 2 .. Len(x)
    <3>1. CASE k = Len(x)
      <4>1. w # <<>> /\ x[k - 1] = w[Len(w)]
        BY <2>2, <2>6, <3>1
      <4> QED BY <2>2, <2>5, <3>1, <4>1
    <3>2. CASE k # Len(x)
      <4>1. k \in 2 .. Len(w) /\ x[k] = w[k] /\ x[k - 1] = w[k - 1]
        BY <2>2, <3>2
      <4> QED BY <2>3, <4>1 DEF Shrinking
    <3> QED BY <3>1, <3>2
  <2>9. Shrinking(x)
    BY <2>2, <2>4, <2>7, <2>8 DEF Shrinking
  <2>10. ASSUME NEW u \in Threads
         PROVE  /\ pc'[u] \notin Collecting => partial'[u] = <<>>
                /\ Shrinking(partial[u])'
    <3>1. CASE u = t
      <4>1. partial'[u] = x
        BY <2>1, <3>1 DEF TypeOK
      <4> QED BY <2>1, <2>9, <3>1, <4>1 DEF Shrinking, Observations, Ring, ring
    <3>2. CASE u # t
      <4>1. partial'[u] = partial[u]
        BY <2>1, <3>2 DEF TypeOK
      <4> QED BY <2>1, <3>2, <4>1 DEF Seen, Shrinking, Observations, Ring, ring
    <3> QED BY <3>1, <3>2
  <2> QED BY <2>10 DEF Seen
<1>7. ASSUME NEW t \in Threads, CollectReturns(t) PROVE Seen'
  <2>1. UNCHANGED <<ring, log>> /\ partial'[t] = <<>>
        /\ \A u \in Threads : u # t => pc'[u] = pc[u] /\ partial'[u] = partial[u]
    BY <1>7 DEF CollectReturns, Leave, Goto, TypeOK
  <2> QED BY <2>1, EmptySeq DEF Seen, Shrinking, Observations, Ring, ring
<1> QED BY <1>2, <1>3, <1>4, <1>5, <1>6, <1>7 DEF Next, Continue

\* The parts of an answer belong together.
THEOREM AnswersAreConsistent == Spec => AnswersConsistent
<1>1. Init => Booked /\ Seen
  BY EmptySeq DEF Init, Booked, Seen, Shrinking, Observations
<1>2. IInv /\ IInv' /\ Booked /\ Seen /\ [Next]_vars => Booked' /\ Seen'
  BY BookedStep, SeenStep DEF IInv
<1>3. IInv /\ Booked /\ Seen /\ [Next]_vars =>
        [\A t \in Threads : CollectReturns(t) =>
          /\ count = Len(log) /\ sum = Observations
          /\ \A k \in DOMAIN partial[t] : partial[t][k] \subseteq Observations
          /\ \A k \in 2 .. Len(partial[t]) : partial[t][k] \subseteq partial[t][k - 1]]_vars
  <2> SUFFICES ASSUME IInv, Booked, Seen, NEW t \in Threads, CollectReturns(t)
               PROVE  /\ count = Len(log) /\ sum = Observations
                      /\ \A k \in DOMAIN partial[t] : partial[t][k] \subseteq Observations
                      /\ \A k \in 2 .. Len(partial[t]) :
                           partial[t][k] \subseteq partial[t][k - 1]
    OBVIOUS
  <2>1. mutex = t /\ pc[t] = "collect_clock"
    BY DEF CollectReturns, IInv, Owned
  <2>2. count = Len(log) /\ sum = Observations
    BY <2>1, SummaryThreads DEF Booked
  <2>3. DOMAIN partial[t] = 1 .. Len(partial[t])
    BY LenProperties DEF IInv, TypeOK
  <2> QED BY <2>2, <2>3 DEF Seen, Shrinking
<1> QED BY <1>1, <1>2, <1>3, Inductive, PTL DEF Spec, AnswersConsistent
=============================================================================
