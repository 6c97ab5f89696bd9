------------------------------ MODULE Summary ------------------------------
(***************************************************************************)
(* prometheus::Summary with detail::TimeWindowQuantiles: a ring of age     *)
(* buckets, each given every observation, of which the one that is current *)
(* answers Collect and the one left behind is emptied.  The ring turns     *)
(* only when a call finds that time has passed.  A value is abstracted to  *)
(* the number of its observation, a CKMSQuantiles to the set of            *)
(* observations inserted since it was last reset.                          *)
(***************************************************************************)
EXTENDS Integers, Sequences, FiniteSets

CONSTANTS
  Threads,
  NoThread,     \* the owner of a mutex nobody holds
  MaxAge,       \* max_age, in ticks of the clock
  AgeBuckets,   \* age_buckets
  Quantiles,    \* the number of quantiles a Collect asks for
  MaxTime,      \* bound on the clock
  MaxCalls      \* bound on the observations

\* rotation_interval_: an integer division.
WholeSeconds == MaxAge \div (1000 * AgeBuckets)
RotationInterval == MaxAge \div AgeBuckets

\* What the constructor needs of its arguments and does not check: with a
\* smaller max_age rotation_interval_ is 0 and the loop of rotate never ends.
ASSUME AgeAssumption == AgeBuckets \in Nat \ {0} /\ MaxAge \in Nat /\ MaxAge >= AgeBuckets
ASSUME QuantilesAssumption == Quantiles \in Nat
ASSUME SummaryThreads == NoThread \notin Threads

VARIABLES
  now,            \* the clock
  last_rotation,  \* last_rotation_
  current,        \* current_bucket_
  buckets,        \* ckms_quantiles_: the observations each holds
  count,          \* count_
  sum,            \* sum_: the observations added to it
  mutex,          \* mutex_: its owner
  pc,             \* where each thread is
  delta,          \* rotate: the time still to be caught up with
  partial,        \* Collect: the windows its quantiles were computed from
  log             \* history: the time each observation was made at

ring == <<last_rotation, current, buckets>>
vars == <<now, ring, count, sum, mutex, pc, delta, partial, log>>

Ring == 0 .. AgeBuckets - 1
Observations == 1 .. Len(log)

-----------------------------------------------------------------------------
\* std::lock_guard<std::mutex> lock(mutex_).
Unguarded == TRUE
ObserveLocks == mutex = NoThread
CollectLocks == mutex = NoThread

\* CKMSQuantiles::reset.
KeepsAll(bucket) == bucket
Reset(bucket) == {}

OneMoreBucket(b) == IF b + 1 > AgeBuckets THEN 0 ELSE b + 1
NextInRing(b) == IF b + 1 >= AgeBuckets THEN 0 ELSE b + 1

Init ==
  /\ now = 0
  /\ last_rotation = now
  /\ current = 0
  /\ buckets = [b \in Ring |-> {}]
  /\ count = 0
  /\ sum = {}
  /\ mutex = NoThread
  /\ pc = [t \in Threads |-> "idle"]
  /\ delta = [t \in Threads |-> 0]
  /\ partial = [t \in Threads |-> <<>>]
  /\ log = <<>>

Goto(t, loc) == pc' = [pc EXCEPT ![t] = loc]

Leave(t) == mutex' = NoThread /\ Goto(t, "idle")

-----------------------------------------------------------------------------
(* TimeWindowQuantiles::rotate, called from insert ("observe_") and from   *)
(* get ("collect_").                                                       *)

ReadsClock(t) ==
  /\ \/ pc[t] = "observe_clock" /\ Goto(t, "observe_rotate")
     \/ pc[t] = "collect_clock" /\ Len(partial[t]) < Quantiles /\ Goto(t, "collect_rotate")
  /\ delta' = [delta EXCEPT ![t] = now - last_rotation]
  /\ UNCHANGED <<now, ring, count, sum, mutex, partial, log>>

Rotates(t) ==
  /\ pc[t] \in {"observe_rotate", "collect_rotate"}
  /\ delta[t] > RotationInterval
  /\ buckets' = [buckets EXCEPT ![current] = Reset(@)]
  /\ current' = NextInRing(current)
  /\ delta' = [delta EXCEPT ![t] = @ - RotationInterval]
  /\ last_rotation' = last_rotation + RotationInterval
  /\ UNCHANGED <<now, count, sum, mutex, pc, partial, log>>

\* The time a thread has read from the clock, however often it has rotated since.
Time(t) == last_rotation + delta[t]

-----------------------------------------------------------------------------
(* Summary::Observe.                                                       *)

ObserveBegins(t) ==
  /\ pc[t] = "idle" /\ Len(log) < MaxCalls
  /\ ObserveLocks
  /\ mutex' = t
  /\ Goto(t, "observe_count")
  /\ UNCHANGED <<now, ring, count, sum, delta, partial, log>>

ObserveCounts(t) ==
  /\ pc[t] = "observe_count"
  /\ count' = count + 1
  /\ Goto(t, "observe_sum")
  /\ UNCHANGED <<now, ring, sum, mutex, delta, partial, log>>

ObserveAddsSum(t) ==
  /\ pc[t] = "observe_sum"
  /\ sum' = sum \cup {Len(log) + 1}
  /\ Goto(t, "observe_clock")
  /\ UNCHANGED <<now, ring, count, mutex, delta, partial, log>>

\* TimeWindowQuantiles::insert.
IntoCurrent(b) == b = current
InsertedInto(b) == b \in Ring

ObserveInserts(t) ==
  /\ pc[t] = "observe_rotate"
  /\ delta[t] <= RotationInterval
  /\ buckets' = [b \in Ring |->
                  IF InsertedInto(b) THEN buckets[b] \cup {Len(log) + 1} ELSE buckets[b]]
  /\ log' = Append(log, Time(t))
  /\ Leave(t)
  /\ UNCHANGED <<now, last_rotation, current, count, sum, delta, partial>>

-----------------------------------------------------------------------------
(* Summary::Collect.                                                       *)

CollectBegins(t) ==
  /\ pc[t] = "idle"
  /\ CollectLocks
  /\ mutex' = t
  /\ Goto(t, "collect_clock")
  /\ UNCHANGED <<now, ring, count, sum, delta, partial, log>>

\* TimeWindowQuantiles::get.
CollectGets(t) ==
  /\ pc[t] = "collect_rotate"
  /\ delta[t] <= RotationInterval
  /\ partial' = [partial EXCEPT ![t] = Append(@, buckets[current])]
  /\ Goto(t, "collect_clock")
  /\ UNCHANGED <<now, ring, count, sum, mutex, delta, log>>

CollectReturns(t) ==
  /\ pc[t] = "collect_clock"
  /\ Len(partial[t]) = Quantiles
  /\ partial' = [partial EXCEPT ![t] = <<>>]
  /\ Leave(t)
  /\ UNCHANGED <<now, ring, count, sum, delta, log>>

-----------------------------------------------------------------------------
Tick ==
  /\ now < MaxTime
  /\ now' = now + 1
  /\ UNCHANGED <<ring, count, sum, mutex, pc, delta, partial, log>>

\* A step of the call a thread is in.
Continue(t) ==
  \/ ReadsClock(t) \/ Rotates(t)
  \/ ObserveCounts(t) \/ ObserveAddsSum(t) \/ ObserveInserts(t)
  \/ CollectGets(t) \/ CollectReturns(t)

Next == Tick \/ \E t \in Threads : Continue(t) \/ ObserveBegins(t) \/ CollectBegins(t)

Spec == Init /\ [][Next]_vars

\* A thread that is in a call is scheduled again.
FairSpec == Spec /\ \A t \in Threads : WF_vars(Continue(t))

-----------------------------------------------------------------------------
(* Properties.                                                             *)

\* Every variable has its type: current_bucket_ is always an index of the ring.
TypeOK ==
  /\ now \in Nat /\ last_rotation \in Nat
  /\ current \in Ring
  /\ buckets \in [Ring -> SUBSET (Nat \ {0})]
  /\ count \in Nat
  /\ sum \in SUBSET (Nat \ {0})
  /\ mutex \in Threads \cup {NoThread}
  /\ pc \in [Threads -> {"idle", "observe_count", "observe_sum", "observe_clock",
                         "observe_rotate", "collect_clock", "collect_rotate"}]
  /\ delta \in [Threads -> Nat]
  /\ partial \in [Threads -> Seq(SUBSET (Nat \ {0}))]
  /\ log \in Seq(Nat)

\* A quantile is computed from every observation that is not older than max_age
\* less one rotation interval, however long no call had turned the ring.
KeepsRecent ==
  [][\A t \in Threads : CollectGets(t) =>
       \A i \in Observations :
         Time(t) - log[i] <= (AgeBuckets - 1) * RotationInterval => i \in buckets[current]]_vars

\* No quantile is computed from an observation that is older than max_age.
ForgetsOld ==
  [][\A t \in Threads : CollectGets(t) =>
       \A i \in Observations : Time(t) - log[i] > MaxAge => i \notin buckets[current]]_vars

\* The count and the sum Collect returns are those of the same observations, all
\* that were ever made, and its quantiles are of some of these; a clock that
\* moves on while it asks for one after the other makes the windows only smaller.
AnswersConsistent ==
  [][\A t \in Threads : CollectReturns(t) =>
       /\ count = Len(log) /\ sum = Observations
       /\ \A k \in DOMAIN partial[t] : partial[t][k] \subseteq Observations
       /\ \A k \in 2 .. Len(partial[t]) : partial[t][k] \subseteq partial[t][k - 1]]_vars

\* A call that holds the mutex returns: rotate catches up however late it is.
EveryCallReturns == \A t \in Threads : pc[t] # "idle" ~> pc[t] = "idle"
=============================================================================
