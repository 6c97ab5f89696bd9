------------------------ MODULE MetricsHandlerProofs ------------------------
(***************************************************************************)
(* Theorems about MetricsHandler, for any number of clients, workers and   *)
(* collectables, and lists and numbers of scrapes of any length.           *)
(***************************************************************************)
EXTENDS MetricsHandler, SequenceTheorems, FiniteSetTheorems, TLAPS

Elements(s) == {s[i] : i \in DOMAIN s}

\* push_back adds one element.
LEMMA AppendElements ==
  ASSUME NEW S, NEW s \in Seq(S), NEW x \in S
  PROVE  Append(s, x) \in Seq(S) /\ Elements(Append(s, x)) = Elements(s) \cup {x}
<1>1. /\ Append(s, x) \in Seq(S) /\ DOMAIN Append(s, x) = 1 .. Len(s) + 1
      /\ \A i \in 1 .. Len(s) : Append(s, x)[i] = s[i]
      /\ Append(s, x)[Len(s) + 1] = x
  BY AppendProperties
<1>2. DOMAIN s = 1 .. Len(s) /\ Len(s) \in Nat
  BY LenProperties
<1> QED BY <1>1, <1>2 DEF Elements

\* A non-empty sequence is its head and its tail.
LEMMA TailElements ==
  ASSUME NEW S, NEW s \in Seq(S), s # <<>>
  PROVE  /\ Head(s) \in S /\ Tail(s) \in Seq(S)
         /\ Elements(s) = {Head(s)} \cup Elements(Tail(s))
<1>1. /\ Head(s) \in S /\ Head(s) = s[1] /\ Tail(s) \in Seq(S) /\ Len(Tail(s)) = Len(s) - 1
      /\ \A i \in 1 .. Len(Tail(s)) : Tail(s)[i] = s[i + 1]
  BY HeadTailProperties
<1>2. /\ DOMAIN s = 1 .. Len(s) /\ Len(s) \in Nat /\ Len(s) # 0
      /\ DOMAIN Tail(s) = 1 .. Len(Tail(s))
  BY <1>1, LenProperties, EmptySeq
<1>3. ASSUME NEW i \in DOMAIN s
      PROVE  s[i] \in {Head(s)} \cup Elements(Tail(s))
  <2>1. CASE i = 1
    BY <2>1, <1>1
  <2>2. CASE i # 1
    <3>1. i - 1 \in 1 .. Len(Tail(s)) /\ Tail(s)[i - 1] = s[i]
      BY <2>2, <1>1, <1>2
    <3> QED BY <3>1, <1>2 DEF Elements
  <2> QED BY <2>1, <2>2
<1>4. ASSUME NEW i \in DOMAIN Tail(s)
      PROVE  Tail(s)[i] \in Elements(s)
  BY <1>1, <1>2 DEF Elements
<1>5. Head(s) \in Elements(s)
  BY <1>1, <1>2 DEF Elements
<1> QED BY <1>1, <1>3, <1>4, <1>5 DEF Elements

\* An empty sequence has no elements.
LEMMA NoElements == Elements(<<>>) = {}
BY DEF Elements

-----------------------------------------------------------------------------
(* Types, locks and reference counts.                                      *)

\* collectables_mutex_ is held over a whole registration, removal or gathering,
\* and a shared_ptr is locked only meanwhile.
Locked ==
  /\ \A t \in Threads : pc[t] \in {"register", "remove", "visit", "collect"} => mutex = t
  /\ \A t \in Threads : held[t] # Null => pc[t] \in {"remove", "collect"}
  /\ \A t \in Threads : pc[t] \in {"register", "remove"} => arg[t] \in Collectables
  /\ \A t \in Threads : pc[t] \in {"visit", "collect", "count"} => t \in Workers
  /\ \A t \in Threads : pc[t] = "collect" =>
       held[t] # Null /\ todo[t] # <<>> /\ held[t] = Head(todo[t])

\* The owner of an object has a shared_ptr, and so has the thread that locked it.
Owners(c) == IF c \in owned \cup {Own} THEN 1 ELSE 0
Lockers(c) == IF \E t \in Threads : held[t] = c THEN 1 ELSE 0
Counted == \A c \in Objects : strong[c] = Owners(c) + Lockers(c)

Inductive == TypeOK /\ Locked /\ Counted

\* The invariant holds when the handler has been constructed.
LEMMA InductiveInit == Init => Inductive
BY HandlerThreads, HandlerObjects
DEF Init, Inductive, TypeOK, Locked, Counted, Owners, Lockers, Objects, Threads, OwnMetrics

\* Who holds a shared_ptr has the mutex, so that there is one such thread.
LEMMA OneLocker ==
  ASSUME Inductive, NEW t \in Threads, held[t] # Null
  PROVE  /\ held[t] \in Objects /\ strong[held[t]] >= 1
         /\ \A u \in Threads : held[u] # Null => u = t
<1>1. held[t] \in Objects
  BY DEF Inductive, TypeOK
<1>2. Lockers(held[t]) = 1 /\ Owners(held[t]) \in {0, 1}
  BY DEF Lockers, Owners
<1>3. strong[held[t]] >= 1
  BY <1>1, <1>2 DEF Inductive, Counted
<1>4. \A u \in Threads : held[u] # Null => mutex = u
  BY DEF Inductive, Locked
<1> QED BY <1>1, <1>3, <1>4

\* Locking a weak_ptr whose object is alive.
LEMMA AcquireCounts ==
  ASSUME Inductive, NEW t \in Threads, NEW c \in Objects,
         \A u \in Threads : held[u] = Null,
         Acquire(t, c), UNCHANGED owned
  PROVE  Counted' /\ strong' \in [Objects -> Nat] /\ held' \in [Threads -> Objects \cup {Null}]
<1> USE HandlerObjects
<1>1. /\ strong \in [Objects -> Nat] /\ held \in [Threads -> Objects \cup {Null}]
      /\ strong' = [strong EXCEPT ![c] = @ + 1] /\ held' = [held EXCEPT ![t] = c]
      /\ owned' = owned /\ c # Null
  BY DEF Inductive, TypeOK, Acquire
<1>2. ASSUME NEW d \in Objects
      PROVE  strong'[d] = Owners(d)' + Lockers(d)'
  <2>1. strong[d] = Owners(d) + Lockers(d)
    BY DEF Inductive, Counted
  <2>2. Owners(d)' = Owners(d) /\ Lockers(d) = 0 /\ Owners(d) \in Nat
    BY <1>1 DEF Owners, Lockers
  <2>3. Lockers(d)' = IF d = c THEN 1 ELSE 0
    BY <1>1 DEF Lockers
  <2> QED BY <1>1, <2>1, <2>2, <2>3
<1> QED BY <1>1, <1>2 DEF Counted

\* The shared_ptr of a thread goes out of scope.
LEMMA ReleaseCounts ==
  ASSUME Inductive, NEW t \in Threads, held[t] # Null,
         Release(held[t]), held' = [held EXCEPT ![t] = Null], UNCHANGED owned
  PROVE  Counted' /\ strong' \in [Objects -> Nat] /\ held' \in [Threads -> Objects \cup {Null}]
<1> USE HandlerObjects
<1>1. /\ strong \in [Objects -> Nat] /\ held \in [Threads -> Objects \cup {Null}]
      /\ strong' = [strong EXCEPT ![held[t]] = @ - 1] /\ held' = [held EXCEPT ![t] = Null]
      /\ owned' = owned
  BY DEF Inductive, TypeOK, Release
<1>2. /\ held[t] \in Objects /\ strong[held[t]] >= 1
      /\ \A u \in Threads : held[u] # Null => u = t
  BY OneLocker
<1>3. ASSUME NEW d \in Objects
      PROVE  strong'[d] = Owners(d)' + Lockers(d)'
  <2>1. strong[d] = Owners(d) + Lockers(d)
    BY DEF Inductive, Counted
  <2>2. Owners(d)' = Owners(d) /\ Owners(d) \in Nat
    BY <1>1 DEF Owners
  <2>3. Lockers(d)' = 0 /\ Lockers(d) = IF d = held[t] THEN 1 ELSE 0
    BY <1>1, <1>2 DEF Lockers
  <2> QED BY <1>1, <2>1, <2>2, <2>3
<1>4. strong' \in [Objects -> Nat]
  BY <1>1, <1>2
<1> QED BY <1>1, <1>3, <1>4 DEF Counted

\* The owner lets go of a collectable.
LEMMA OwnerDropsCounts ==
  ASSUME Inductive, NEW c \in Collectables, OwnerDrops(c)
  PROVE  Counted' /\ strong' \in [Objects -> Nat]
<1> USE HandlerObjects DEF Objects
<1>1. /\ strong \in [Objects -> Nat] /\ c \in owned /\ c # Own
      /\ strong' = [strong EXCEPT ![c] = @ - 1] /\ held' = held /\ owned' = owned \ {c}
  BY DEF Inductive, TypeOK, OwnerDrops, Release
<1>2. ASSUME NEW d \in Objects
      PROVE  strong'[d] = Owners(d)' + Lockers(d)' /\ strong'[d] \in Nat
  <2>1. strong[d] = Owners(d) + Lockers(d)
    BY DEF Inductive, Counted
  <2>2. Lockers(d)' = Lockers(d) /\ Lockers(d) \in Nat
    BY <1>1 DEF Lockers
  <2>3. Owners(d) = (IF d = c THEN 1 ELSE Owners(d)') /\ Owners(d)' \in Nat
        /\ (d = c => Owners(d)' = 0)
    BY <1>1 DEF Owners
  <2> QED BY <1>1, <2>1, <2>2, <2>3
<1> QED BY <1>1, <1>2 DEF Counted

\* A step that touches no shared_ptr keeps the counts right.
LEMMA SameCounts ==
  ASSUME Inductive, UNCHANGED <<strong, owned, held>>
  PROVE  Counted'
BY DEF Inductive, Counted, Owners, Lockers

\* One entry of the list has been looked at.
LEMMA StepThroughList ==
  ASSUME TypeOK, NEW t \in Threads, todo[t] # <<>>
  PROVE  Head(todo[t]) \in Objects /\ Tail(todo[t]) \in Seq(Objects)
BY TailElements DEF TypeOK

\* A thread that gets the mutex is the only one inside.
LEMMA NobodyInside ==
  ASSUME Inductive, mutex = NoThread
  PROVE  \A u \in Threads : held[u] = Null /\ pc[u] \in {"idle", "count"}
BY HandlerThreads DEF Inductive, TypeOK, Locked

\* A registration or a removal gets the mutex.
LEMMA LockStep ==
  ASSUME Inductive, NEW t \in Clients, NEW c \in Collectables,
         RegisterLocks(t, c) \/ RemoveLocks(t, c)
  PROVE  Inductive'
<1> USE HandlerThreads, HandlerObjects DEF Objects, Goto, Threads
<1>1. \A u \in Threads : held[u] = Null /\ pc[u] \in {"idle", "count"}
  BY NobodyInside DEF RegisterLocks, RemoveLocks
<1>2. CASE RegisterLocks(t, c)
  <2>1. TypeOK'
    BY <1>2 DEF Inductive, TypeOK, RegisterLocks, heapVars, scrapeVars
  <2>2. Locked'
    BY <1>1, <1>2 DEF Inductive, TypeOK, Locked, RegisterLocks, heapVars, scrapeVars
  <2>3. Counted'
    BY <1>2, SameCounts DEF RegisterLocks, heapVars
  <2> QED BY <2>1, <2>2, <2>3 DEF Inductive
<1>3. CASE RemoveLocks(t, c)
  <2>1. Counted' /\ strong' \in [Objects -> Nat] /\ held' \in [Threads -> Objects \cup {Null}]
    <3>1. CASE Expired(c)
      BY <1>3, <3>1, SameCounts DEF Inductive, TypeOK, RemoveLocks
    <3>2. CASE ~ Expired(c)
      BY <1>1, <1>3, <3>2, AcquireCounts DEF RemoveLocks
    <3> QED BY <3>1, <3>2
  <2>2. TypeOK'
    BY <1>3, <2>1 DEF Inductive, TypeOK, RemoveLocks, scrapeVars
  <2>3. Locked'
    BY <1>1, <1>3 DEF Inductive, TypeOK, Locked, RemoveLocks, Acquire, scrapeVars
  <2> QED BY <2>1, <2>2, <2>3 DEF Inductive
<1> QED BY <1>2, <1>3

\* The sweep of the list, and its end.
LEMMA SweepStep ==
  ASSUME Inductive, NEW t \in Threads, Sweeps(t) \/ RegisterPushes(t) \/ RemoveErases(t)
  PROVE  Inductive'
<1> USE HandlerThreads, HandlerObjects DEF Objects, Goto, LeaveList
<1>1. CASE Sweeps(t)
  <2>1. Head(todo[t]) \in Objects /\ Tail(todo[t]) \in Seq(Objects)
    BY <1>1, StepThroughList DEF Inductive, Sweeps
  <2>2. Append(kept[t], Head(todo[t])) \in Seq(Objects)
    BY <2>1, AppendElements DEF Inductive, TypeOK
  <2>3. TypeOK'
    BY <1>1, <2>1, <2>2 DEF Inductive, TypeOK, Sweeps, heapVars, scrapeVars
  <2>4. Locked'
    BY <1>1 DEF Inductive, TypeOK, Locked, Sweeps, heapVars, scrapeVars
  <2>5. Counted'
    BY <1>1, SameCounts DEF Sweeps, heapVars
  <2> QED BY <2>3, <2>4, <2>5 DEF Inductive
<1>2. CASE RegisterPushes(t)
  <2>1. Append(kept[t], arg[t]) \in Seq(Objects)
    BY <1>2, AppendElements DEF Inductive, TypeOK, Locked, RegisterPushes
  <2>2. TypeOK'
    BY <1>2, <2>1 DEF Inductive, TypeOK, Locked, RegisterPushes, heapVars, scrapeVars
  <2>3. Locked'
    BY <1>2 DEF Inductive, TypeOK, Locked, RegisterPushes, heapVars, scrapeVars
  <2>4. Counted'
    BY <1>2, SameCounts DEF RegisterPushes, heapVars
  <2> QED BY <2>2, <2>3, <2>4 DEF Inductive
<1>3. CASE RemoveErases(t)
  <2>1. Counted' /\ strong' \in [Objects -> Nat] /\ held' \in [Threads -> Objects \cup {Null}]
    <3>1. CASE held[t] = Null
      <4>1. held' = held
        BY <1>3, <3>1 DEF RemoveErases, Inductive, TypeOK
      <4> QED BY <1>3, <3>1, <4>1, SameCounts DEF RemoveErases, Inductive, TypeOK
    <3>2. CASE held[t] # Null
      BY <1>3, <3>2, ReleaseCounts DEF RemoveErases
    <3> QED BY <3>1, <3>2
  <2>2. due' \in [Workers -> SUBSET Objects] /\ recent' \subseteq Objects
    <3>1. held[t] # Null => held[t] \in Objects
      BY DEF Inductive, TypeOK
    <3> QED BY <1>3, <3>1 DEF Inductive, TypeOK, RemoveErases, Release
  <2>3. TypeOK'
    BY <1>3, <2>1, <2>2 DEF Inductive, TypeOK, RemoveErases, scrapeVars
  <2>4. Locked'
    BY <1>3 DEF Inductive, TypeOK, Locked, RemoveErases, scrapeVars
  <2> QED BY <2>1, <2>3, <2>4 DEF Inductive
<1> QED BY <1>1, <1>2, <1>3

\* The orders in which the handler's own metrics are updated and read.
LEMMA Orders ==
  /\ UpdateOrder \in Seq(OwnMetrics) /\ UpdateOrder # <<>>
  /\ Len(CollectOrder) = 3
  /\ CollectOrder[1] = "bytes_transferred" /\ CollectOrder[2] = "num_scrapes"
  /\ CollectOrder[3] = "request_latencies"
BY DEF UpdateOrder, CollectOrder, OwnMetrics

\* What a scrape shows of the handler's own metrics grows by one value.
LEMMA ReadOwn ==
  ASSUME TypeOK, NEW w \in Workers, CollectReadsOwn(w)
  PROVE  /\ Len(own[w]) \in {0, 1, 2}
         /\ self[CollectOrder[Len(own[w]) + 1]] \in Nat
         /\ own' = [own EXCEPT ![w] = Append(@, self[CollectOrder[Len(own[w]) + 1]])]
         /\ own'[w] \in Seq(Nat) /\ own' \in [Workers -> Seq(Nat)]
<1>1. own[w] \in Seq(Nat) /\ Len(own[w]) \in Nat
  BY LenProperties DEF TypeOK
<1>2. Len(own[w]) \in {0, 1, 2}
  <2>1. Len(own[w]) < Len(CollectOrder)
    BY DEF CollectReadsOwn
  <2>2. Len(CollectOrder) = 3
    BY Orders
  <2>3. Len(own[w]) < 3
    BY <2>1, <2>2
  <2>4. \A n \in Nat : n < 3 => n \in {0, 1, 2}
    OBVIOUS
  <2> QED BY <1>1, <2>3, <2>4
<1>3. self[CollectOrder[Len(own[w]) + 1]] \in Nat
  <2>1. CollectOrder[Len(own[w]) + 1] \in OwnMetrics
    <3>1. CollectOrder[0 + 1] \in OwnMetrics /\ CollectOrder[1 + 1] \in OwnMetrics
          /\ CollectOrder[2 + 1] \in OwnMetrics
      BY Orders DEF OwnMetrics
    <3> QED BY <1>2, <3>1
  <2> QED BY <2>1 DEF TypeOK
<1>4. own' = [own EXCEPT ![w] = Append(@, self[CollectOrder[Len(own[w]) + 1]])]
  BY DEF CollectReadsOwn
<1>5. Append(own[w], self[CollectOrder[Len(own[w]) + 1]]) \in Seq(Nat)
  BY <1>1, <1>3, AppendElements
<1> QED BY <1>1, <1>2, <1>3, <1>4, <1>5 DEF TypeOK

\* CollectMetrics and the end of handleGet.
LEMMA ScrapeStep ==
  ASSUME Inductive, NEW w \in Workers,
         \/ VisitSkips(w) \/ VisitLocks(w) \/ CollectReadsOwn(w) \/ CollectReturns(w)
         \/ ScrapeAnswers(w) \/ ScrapeCounts(w) \/ ScrapeReturns(w)
  PROVE  Inductive'
<1> USE HandlerThreads, HandlerObjects DEF Objects, Goto, Threads
<1>1. CASE VisitSkips(w)
  <2>1. Tail(todo[w]) \in Seq(Objects)
    BY <1>1, StepThroughList DEF Inductive, VisitSkips
  <2>2. TypeOK'
    BY <1>1, <2>1 DEF Inductive, TypeOK, VisitSkips, SkipsEntry, listVars, heapVars, scrapeVars
  <2>3. Locked'
    BY <1>1 DEF Inductive, TypeOK, Locked, VisitSkips, SkipsEntry, listVars, heapVars, scrapeVars
  <2>4. Counted'
    BY <1>1, SameCounts DEF VisitSkips, heapVars
  <2> QED BY <2>2, <2>3, <2>4 DEF Inductive
<1>2. CASE VisitLocks(w)
  <2>1. \A u \in Threads : held[u] = Null
    BY <1>2 DEF Inductive, TypeOK, Locked, VisitLocks
  <2>2. Head(todo[w]) \in Objects
    BY <1>2, StepThroughList DEF Inductive, VisitLocks
  <2>3. Counted' /\ strong' \in [Objects -> Nat] /\ held' \in [Threads -> Objects \cup {Null}]
    BY <1>2, <2>1, <2>2, AcquireCounts DEF VisitLocks
  <2>4. TypeOK'
    BY <1>2, <2>3 DEF Inductive, TypeOK, VisitLocks, listVars, scrapeVars
  <2>5. Locked'
    BY <1>2, <2>1, <2>2 DEF Inductive, TypeOK, Locked, VisitLocks, Acquire, listVars, scrapeVars
  <2> QED BY <2>3, <2>4, <2>5 DEF Inductive
<1>3. CASE CollectReadsOwn(w)
  <2>1. own' \in [Workers -> Seq(Nat)]
    BY <1>3, ReadOwn DEF Inductive
  <2>2. TypeOK'
    BY <1>3, <2>1 DEF Inductive, TypeOK, CollectReadsOwn, listVars, heapVars
  <2>3. Locked'
    BY <1>3 DEF Inductive, TypeOK, Locked, CollectReadsOwn, listVars, heapVars
  <2>4. Counted'
    BY <1>3, SameCounts DEF CollectReadsOwn, heapVars
  <2> QED BY <2>2, <2>3, <2>4 DEF Inductive
<1>4. CASE CollectReturns(w)
  <2>1. held[w] # Null /\ held[w] \in Objects /\ todo[w] # <<>>
    BY <1>4 DEF Inductive, TypeOK, Locked, CollectReturns
  <2>2. Tail(todo[w]) \in Seq(Objects)
    BY <2>1, StepThroughList DEF Inductive
  <2>3. Counted' /\ strong' \in [Objects -> Nat] /\ held' \in [Threads -> Objects \cup {Null}]
    BY <1>4, <2>1, ReleaseCounts DEF CollectReturns
  <2>4. /\ due' \in [Workers -> SUBSET Objects] /\ recent' \subseteq Objects
        /\ shown' \in [Workers -> SUBSET Objects]
    BY <1>4, <2>1 DEF Inductive, TypeOK, CollectReturns, Release
  <2>5. TypeOK'
    BY <1>4, <2>2, <2>3, <2>4 DEF Inductive, TypeOK, CollectReturns, listVars
  <2>6. Locked'
    BY <1>4 DEF Inductive, TypeOK, Locked, CollectReturns, listVars
  <2> QED BY <2>3, <2>5, <2>6 DEF Inductive
<1>5. CASE ScrapeAnswers(w)
  <2>1. TypeOK'
    BY <1>5, Orders DEF Inductive, TypeOK, ScrapeAnswers, heapVars
  <2>2. Locked'
    BY <1>5 DEF Inductive, TypeOK, Locked, ScrapeAnswers, heapVars
  <2>3. Counted'
    BY <1>5, SameCounts DEF ScrapeAnswers, heapVars
  <2> QED BY <2>1, <2>2, <2>3 DEF Inductive
<1>6. CASE ScrapeCounts(w)
  <2>1. Head(uncounted[w]) \in OwnMetrics /\ Tail(uncounted[w]) \in Seq(OwnMetrics)
    BY <1>6, TailElements DEF Inductive, TypeOK, ScrapeCounts
  <2>2. /\ pc[w] = "count" /\ self' = [self EXCEPT ![Head(uncounted[w])] = @ + 1]
        /\ uncounted' = [uncounted EXCEPT ![w] = Tail(@)]
        /\ UNCHANGED <<collectables, mutex, owned, strong, pc, arg, held, todo, kept, shown,
                       own, scrapes, due, may, recent>>
    BY <1>6 DEF ScrapeCounts, listVars, heapVars
  <2>3. self' \in [OwnMetrics -> Nat] /\ uncounted' \in [Workers -> Seq(OwnMetrics)]
    BY <2>1, <2>2 DEF Inductive, TypeOK
  <2>4. TypeOK'
    BY <2>2, <2>3 DEF Inductive, TypeOK
  <2>5. Locked'
    BY <2>2 DEF Inductive, Locked
  <2>6. Counted'
    BY <2>2, SameCounts DEF heapVars
  <2> QED BY <2>4, <2>5, <2>6 DEF Inductive
<1>7. CASE ScrapeReturns(w)
  <2>1. /\ pc' = [pc EXCEPT ![w] = "idle"] /\ shown' = [shown EXCEPT ![w] = {}]
        /\ own' = [own EXCEPT ![w] = <<>>] /\ pc[w] = "count"
        /\ UNCHANGED <<collectables, mutex, owned, strong, arg, held, todo, kept, self,
                       uncounted, scrapes, due, may, recent>>
    BY <1>7 DEF ScrapeReturns, listVars, heapVars
  <2>2. /\ pc' \in [Threads -> {"idle", "register", "remove", "visit", "collect", "count"}]
        /\ shown' \in [Workers -> SUBSET Objects]
    BY <2>1 DEF Inductive, TypeOK
  <2>3. own' \in [Workers -> Seq(Nat)]
    <3>1. <<>> \in Seq(Nat)
      BY EmptySeq
    <3> QED BY <2>1, <3>1 DEF Inductive, TypeOK
  <2>4. TypeOK'
    BY <2>1, <2>2, <2>3 DEF Inductive, TypeOK
  <2>5. Locked'
    BY <2>1 DEF Inductive, TypeOK, Locked
  <2>6. Counted'
    BY <2>1, SameCounts DEF heapVars
  <2> QED BY <2>4, <2>5, <2>6 DEF Inductive
<1> QED BY <1>1, <1>2, <1>3, <1>4, <1>5, <1>6, <1>7

\* Every step keeps the invariant.
LEMMA InductiveStep ==
  ASSUME Inductive, [Next]_vars
  PROVE  Inductive'
<1>1. CASE UNCHANGED vars
  BY <1>1 DEF vars, Inductive, TypeOK, Locked, Counted, Owners, Lockers
<1>2. ASSUME NEW c \in Collectables, OwnerDrops(c)
      PROVE  Inductive'
  <2>1. Counted' /\ strong' \in [Objects -> Nat]
    BY <1>2, OwnerDropsCounts
  <2>2. TypeOK'
    BY <1>2, <2>1 DEF Inductive, TypeOK, OwnerDrops, Release, listVars, scrapeVars, Objects
  <2>3. Locked'
    BY <1>2 DEF Inductive, TypeOK, Locked, OwnerDrops, listVars, scrapeVars
  <2> QED BY <2>1, <2>2, <2>3 DEF Inductive
<1>3. ASSUME NEW t \in Clients, NEW c \in Collectables, RegisterLocks(t, c) \/ RemoveLocks(t, c)
      PROVE  Inductive'
  BY <1>3, LockStep DEF Threads
<1>4. ASSUME NEW w \in Workers, ScrapeLocks(w)
      PROVE  Inductive'
  <2> USE HandlerThreads DEF Goto, Objects, Threads
  <2>1. \A u \in Threads : held[u] = Null /\ pc[u] \in {"idle", "count"}
    BY <1>4, NobodyInside DEF ScrapeLocks
  <2>2. TypeOK'
    BY <1>4 DEF Inductive, TypeOK, ScrapeLocks, Exposed, Entries, heapVars
  <2>3. Locked'
    BY <1>4, <2>1 DEF Inductive, TypeOK, Locked, ScrapeLocks, heapVars
  <2>4. Counted'
    BY <1>4, SameCounts DEF ScrapeLocks, heapVars
  <2> QED BY <2>2, <2>3, <2>4 DEF Inductive
<1>5. ASSUME NEW t \in Threads, Continue(t)
      PROVE  Inductive'
  BY <1>5, SweepStep, ScrapeStep DEF Continue
<1> QED BY <1>1, <1>2, <1>3, <1>4, <1>5 DEF Next

\* The invariant holds throughout.
LEMMA InductiveHolds == Spec => []Inductive
<1>1. Inductive /\ [Next]_vars => Inductive'
  BY InductiveStep
<1> QED BY InductiveInit, <1>1, PTL DEF Spec

\* Every variable of MetricsHandler keeps its type; a shared_ptr is locked only by
\* the thread that has collectables_mutex_; and a reference count is what its owner
\* and that thread hold: what weak_ptr::lock takes, the end of its scope gives back.
THEOREM TypeCorrect == Spec => [](TypeOK /\ Locked /\ Counted)
<1>1. Inductive => TypeOK /\ Locked /\ Counted
  BY DEF Inductive
<1> QED BY InductiveHolds, <1>1, PTL

\* CollectMetrics calls Collect of living objects only, whatever their owners do.
THEOREM CollectedAreAlive == Spec => []CollectsAlive
<1>1. Inductive => CollectsAlive
  <2> SUFFICES ASSUME Inductive, NEW w \in Workers, pc[w] = "collect"
               PROVE  ~ Expired(held[w])
    BY DEF CollectsAlive
  <2>1. w \in Threads /\ held[w] # Null
    BY DEF Inductive, Locked, Threads
  <2>2. held[w] \in Objects /\ strong[held[w]] >= 1
    BY <2>1, OneLocker
  <2> QED BY <2>2 DEF Expired
<1> QED BY InductiveHolds, <1>1, PTL

-----------------------------------------------------------------------------
(* The list, while it is swept and after.                                  *)

\* What a sweep keeps and has still to visit is from the list, and all of it that
\* is alive, but for what a removal names; what it kept and has died since is new.
Sweeping ==
  /\ StaleBounded
  /\ \A t \in Threads : pc[t] \notin {"register", "remove"} => kept[t] = <<>>
  /\ \A t \in Threads : pc[t] \in {"register", "remove"} =>
       /\ Elements(kept[t]) \subseteq Entries /\ Elements(todo[t]) \subseteq Entries
       /\ \A c \in Entries : ~ Expired(c) /\ c # held[t] =>
            c \in Elements(kept[t]) \cup Elements(todo[t])
  /\ \A t \in Threads : pc[t] = "remove" => held[t] \notin Elements(kept[t])
  /\ \A t \in Threads : pc[t] = "register" =>
       \A c \in Elements(kept[t]) : Expired(c) => c \in recent

\* Nothing comes back to life, and what dies is recent.
Aging ==
  \A c \in Objects :
    /\ Expired(c) => Expired(c)'
    /\ ~ Expired(c) /\ Expired(c)' => c \in recent'

\* A shared_ptr less: if it was the last one, the object dies now.
LEMMA ReleaseAges ==
  ASSUME TypeOK, NEW c \in Objects, strong[c] >= 1, Release(c)
  PROVE  Aging /\ recent \subseteq recent'
BY DEF TypeOK, Release, Aging, Expired

\* A shared_ptr more.
LEMMA AcquireAges ==
  ASSUME TypeOK, NEW c \in Objects, NEW t \in Threads, ~ Expired(c), Acquire(t, c)
  PROVE  Aging
BY DEF TypeOK, Acquire, Aging, Expired

\* A step of another kind leaves the list and its sweep alone.
LEMMA NoSweep ==
  ASSUME Sweeping, TypeOK, Aging, recent \subseteq recent', UNCHANGED <<collectables, kept>>,
         \A t \in Threads :
           \/ pc'[t] = pc[t] /\ todo'[t] = todo[t] /\ held'[t] = held[t]
           \/ pc[t] \notin {"register", "remove"} /\ pc'[t] \notin {"register", "remove"}
  PROVE  Sweeping'
<1>1. Entries' = Entries /\ Entries \subseteq Objects
  BY DEF Entries, TypeOK
<1>2. \A t \in Threads : Elements(kept[t]) \subseteq Objects
  BY DEF TypeOK, Elements
<1>3. StaleBounded'
  <2> SUFFICES ASSUME \A t \in Threads : pc'[t] # "register",
                      NEW c \in Entries, Expired(c)'
               PROVE  c \in recent'
    BY <1>1 DEF StaleBounded
  <2>1. \A t \in Threads : pc[t] # "register"
    OBVIOUS
  <2> QED BY <1>1, <2>1 DEF StaleBounded, Sweeping, Aging
<1>4. \A t \in Threads : pc'[t] \notin {"register", "remove"} => kept'[t] = <<>>
  BY DEF Sweeping
<1>5. ASSUME NEW t \in Threads, pc'[t] \in {"register", "remove"}
      PROVE  /\ Elements(kept[t])' \subseteq Entries' /\ Elements(todo[t])' \subseteq Entries'
             /\ \A c \in Entries' : ~ Expired(c)' /\ c # held'[t] =>
                  c \in Elements(kept[t])' \cup Elements(todo[t])'
             /\ pc'[t] = "remove" => held'[t] \notin Elements(kept[t])'
             /\ pc'[t] = "register" => \A c \in Elements(kept[t])' : Expired(c)' => c \in recent'
  <2>1. /\ pc'[t] = pc[t] /\ Elements(todo[t])' = Elements(todo[t]) /\ held'[t] = held[t]
        /\ Elements(kept[t])' = Elements(kept[t])
    BY <1>5 DEF Elements
  <2> QED BY <1>1, <1>2, <1>5, <2>1 DEF Sweeping, Aging
<1> QED BY <1>3, <1>4, <1>5 DEF Sweeping

\* One thread at a time sweeps.
LEMMA OneInside ==
  ASSUME Inductive, NEW t \in Threads, NEW u \in Threads, u # t,
         pc[t] \in {"register", "remove", "visit", "collect"}
  PROVE  pc[u] \in {"idle", "count"} /\ held[u] = Null
BY DEF Inductive, TypeOK, Locked

\* A registration or removal finds everything still to visit.
LEMMA SweepBegins ==
  ASSUME Inductive, Sweeping, NEW t \in Clients, NEW c \in Collectables,
         RegisterLocks(t, c) \/ RemoveLocks(t, c)
  PROVE  Sweeping'
<1> USE DEF Threads
<1>1. \A u \in Threads : held[u] = Null /\ pc[u] \in {"idle", "count"}
  BY NobodyInside DEF RegisterLocks, RemoveLocks
<1>2. /\ collectables' = collectables /\ kept' = kept /\ kept[t] = <<>>
      /\ pc' = [pc EXCEPT ![t] = IF RegisterLocks(t, c) THEN "register" ELSE "remove"]
      /\ todo' = [todo EXCEPT ![t] = collectables] /\ DOMAIN pc = Threads /\ DOMAIN todo = Threads
  BY <1>1, HandlerThreads DEF Inductive, TypeOK, Sweeping, RegisterLocks, RemoveLocks, Goto
<1>3. Elements(kept[t]) = {} /\ Elements(kept'[t]) = {} /\ Elements(todo'[t]) = Entries
      /\ Entries' = Entries
  BY <1>2, NoElements DEF Elements, Entries
<1>4. \A u \in Threads : pc'[u] \in {"register", "remove"} => u = t
  BY <1>1, <1>2
<1>5. \A u \in Threads : pc'[u] \notin {"register", "remove"} => kept'[u] = <<>>
  BY <1>1, <1>2 DEF Sweeping
<1>6. StaleBounded'
  <2>1. CASE RegisterLocks(t, c)
    BY <1>2, <2>1 DEF StaleBounded
  <2>2. CASE RemoveLocks(t, c)
    <3>1. \A d \in Entries : Expired(d) => d \in recent
      BY <1>1 DEF Sweeping, StaleBounded
    <3>2. \A d \in Objects : Expired(d)' => Expired(d)
      BY <2>2 DEF Inductive, TypeOK, RemoveLocks, Acquire, Expired
    <3>3. Entries \subseteq Objects /\ recent' = recent
      BY <2>2 DEF Inductive, TypeOK, Entries, RemoveLocks
    <3> QED BY <1>3, <3>1, <3>2, <3>3 DEF StaleBounded
  <2> QED BY <2>1, <2>2
<1>7. /\ Elements(kept[t])' = Elements(kept'[t]) /\ Elements(todo[t])' = Elements(todo'[t])
  BY DEF Elements
<1>8. ASSUME NEW u \in Threads, pc'[u] \in {"register", "remove"}
      PROVE  /\ Elements(kept[u])' \subseteq Entries' /\ Elements(todo[u])' \subseteq Entries'
             /\ \A d \in Entries' : ~ Expired(d)' /\ d # held'[u] =>
                  d \in Elements(kept[u])' \cup Elements(todo[u])'
             /\ pc'[u] = "remove" => held'[u] \notin Elements(kept[u])'
             /\ pc'[u] = "register" => \A d \in Elements(kept[u])' : Expired(d)' => d \in recent'
  <2>1. u = t
    BY <1>4, <1>8
  <2> QED BY <1>3, <1>7, <2>1
<1> QED BY <1>5, <1>6, <1>8 DEF Sweeping

\* A sweep leaves out what has expired, or what a removal names, and no more.
LEMMA SweepGoesOn ==
  ASSUME Inductive, Sweeping, NEW t \in Threads, Sweeps(t)
  PROVE  Sweeping'
<1> DEFINE h == Head(todo[t])
<1>1. /\ h \in Objects /\ Tail(todo[t]) \in Seq(Objects)
      /\ Elements(todo[t]) = {h} \cup Elements(Tail(todo[t]))
  BY TailElements DEF Inductive, TypeOK, Sweeps
<1>2. /\ Append(kept[t], h) \in Seq(Objects)
      /\ Elements(Append(kept[t], h)) = Elements(kept[t]) \cup {h}
  BY <1>1, AppendElements DEF Inductive, TypeOK
<1>3. /\ UNCHANGED <<collectables, strong, pc, held, recent>>
      /\ todo' = [todo EXCEPT ![t] = Tail(@)]
      /\ kept' = [kept EXCEPT ![t] = IF Erased(t, h) THEN @ ELSE Append(@, h)]
      /\ pc[t] \in {"register", "remove"}
  BY DEF Sweeps, heapVars
<1>4. /\ Elements(todo'[t]) = Elements(Tail(todo[t]))
      /\ Elements(kept'[t]) = Elements(kept[t]) \cup (IF Erased(t, h) THEN {} ELSE {h})
      /\ \A u \in Threads : u # t => todo'[u] = todo[u] /\ kept'[u] = kept[u]
  BY <1>2, <1>3 DEF Inductive, TypeOK
<1>5. Entries' = Entries /\ (\A c : Expired(c)' = Expired(c)) /\ StaleBounded'
  BY <1>3 DEF Entries, Expired, StaleBounded, Sweeping
<1>6. /\ Elements(kept'[t]) \subseteq Entries /\ Elements(todo'[t]) \subseteq Entries
  BY <1>1, <1>3, <1>4 DEF Sweeping
<1>7. Erased(t, h) => Expired(h) \/ h = held[t]
  BY <1>3 DEF Erased, SamePointer
<1>8. \A c \in Entries : ~ Expired(c) /\ c # held[t] =>
        c \in Elements(kept'[t]) \cup Elements(todo'[t])
  BY <1>1, <1>3, <1>4, <1>7 DEF Sweeping
<1>9. ~ Erased(t, h) => (pc[t] = "remove" => h # held[t]) /\ (pc[t] = "register" => ~ Expired(h))
  BY <1>1, <1>3, HandlerObjects DEF Erased, SamePointer
<1>10. /\ pc[t] = "remove" => held[t] \notin Elements(kept'[t])
       /\ pc[t] = "register" => \A c \in Elements(kept'[t]) : Expired(c) => c \in recent
  BY <1>4, <1>9 DEF Sweeping
<1>11. ASSUME NEW u \in Threads, u # t
       PROVE  pc'[u] \notin {"register", "remove"} /\ kept'[u] = <<>>
  BY <1>3, <1>4, <1>11, OneInside DEF Sweeping
<1>12. ASSUME NEW u \in Threads
       PROVE  /\ pc'[u] \notin {"register", "remove"} => kept'[u] = <<>>
              /\ pc'[u] \in {"register", "remove"} => u = t
  BY <1>3, <1>11
<1>13. /\ Elements(kept[t])' = Elements(kept'[t]) /\ Elements(todo[t])' = Elements(todo'[t])
       /\ held'[t] = held[t] /\ pc'[t] = pc[t] /\ recent' = recent
  BY <1>3 DEF Elements
<1>14. ASSUME NEW u \in Threads, pc'[u] \in {"register", "remove"}
       PROVE  /\ Elements(kept[u])' \subseteq Entries' /\ Elements(todo[u])' \subseteq Entries'
              /\ \A c \in Entries' : ~ Expired(c)' /\ c # held'[u] =>
                   c \in Elements(kept[u])' \cup Elements(todo[u])'
              /\ pc'[u] = "remove" => held'[u] \notin Elements(kept[u])'
              /\ pc'[u] = "register" => \A c \in Elements(kept[u])' : Expired(c)' => c \in recent'
  <2>1. u = t
    BY <1>12, <1>14
  <2> QED BY <1>5, <1>6, <1>8, <1>10, <1>13, <2>1
<1> QED BY <1>5, <1>12, <1>14 DEF Sweeping

\* The list a sweep leaves behind, as far as it concerns everyone else.
LEMMA SweepEnds ==
  ASSUME Inductive, Sweeping, NEW t \in Threads, RegisterPushes(t) \/ RemoveErases(t)
  PROVE  /\ \A u \in Threads : pc'[u] \notin {"register", "remove"} /\ kept'[u] = <<>>
         /\ \A c \in Entries : ~ Expired(c) /\ c # held[t] => c \in Elements(kept[t])
         /\ Elements(kept[t]) \subseteq Entries /\ Entries \subseteq Objects
         /\ kept[t] \in Seq(Objects)
<1>1. /\ pc' = [pc EXCEPT ![t] = "idle"] /\ kept' = [kept EXCEPT ![t] = <<>>]
      /\ pc[t] \in {"register", "remove"} /\ todo[t] = <<>>
      /\ DOMAIN pc = Threads /\ DOMAIN kept = Threads
  BY DEF RegisterPushes, RemoveErases, LeaveList, Goto, Inductive, TypeOK
<1>2. \A u \in Threads : pc'[u] \notin {"register", "remove"} /\ kept'[u] = <<>>
  <2> SUFFICES ASSUME NEW u \in Threads
               PROVE  pc'[u] \notin {"register", "remove"} /\ kept'[u] = <<>>
    OBVIOUS
  <2>1. CASE u = t
    BY <1>1, <2>1
  <2>2. CASE u # t
    BY <1>1, <2>2, OneInside DEF Sweeping
  <2> QED BY <2>1, <2>2
<1>3. \A c \in Entries : ~ Expired(c) /\ c # held[t] => c \in Elements(kept[t])
  BY <1>1, NoElements DEF Sweeping
<1>4. Elements(kept[t]) \subseteq Entries /\ Entries \subseteq Objects
  BY <1>1 DEF Sweeping, Inductive, TypeOK, Entries
<1> QED BY <1>2, <1>3, <1>4 DEF Inductive, TypeOK

\* The new collectable joins what has been kept.
LEMMA PushEnds ==
  ASSUME Inductive, Sweeping, NEW t \in Threads, RegisterPushes(t)
  PROVE  Sweeping' /\ Entries' = Elements(kept[t]) \cup {arg[t]} /\ arg[t] \in Objects
<1>1. /\ \A u \in Threads : pc'[u] \notin {"register", "remove"} /\ kept'[u] = <<>>
      /\ kept[t] \in Seq(Objects)
  BY SweepEnds
<1>2. /\ collectables' = Append(kept[t], arg[t]) /\ UNCHANGED strong
      /\ recent' = IF Expired(arg[t]) THEN recent \cup {arg[t]} ELSE recent
      /\ arg[t] \in Objects /\ pc[t] = "register"
  BY DEF RegisterPushes, heapVars, Inductive, Locked, Objects
<1>3. Entries' = Elements(kept[t]) \cup {arg[t]}
  <2>1. Elements(Append(kept[t], arg[t])) = Elements(kept[t]) \cup {arg[t]}
    BY <1>1, <1>2, AppendElements
  <2>2. Entries' = Elements(collectables')
    BY DEF Entries, Elements
  <2> QED BY <1>2, <2>1, <2>2
<1>4. \A c : Expired(c)' = Expired(c)
  BY <1>2 DEF Expired
<1>5. StaleBounded'
  <2>1. \A c \in Elements(kept[t]) : Expired(c) => c \in recent
    BY <1>2 DEF Sweeping
  <2> QED BY <1>2, <1>3, <1>4, <2>1 DEF StaleBounded
<1>6. Sweeping'
  BY <1>1, <1>5 DEF Sweeping
<1> QED BY <1>2, <1>3, <1>6

\* What a removal names is gone, and nothing else that is alive.
LEMMA EraseEnds ==
  ASSUME Inductive, Sweeping, NEW t \in Threads, RemoveErases(t)
  PROVE  Sweeping' /\ Entries' = Elements(kept[t]) /\ Aging
<1>1. /\ \A u \in Threads : pc'[u] \notin {"register", "remove"} /\ kept'[u] = <<>>
      /\ Elements(kept[t]) \subseteq Entries /\ Entries \subseteq Objects
  BY SweepEnds
<1>2. /\ collectables' = kept[t] /\ pc[t] = "remove" /\ mutex = t
      /\ IF held[t] = Null THEN UNCHANGED <<strong, due, recent>> ELSE Release(held[t])
  BY DEF RemoveErases, Inductive, Locked
<1>3. Entries' = Elements(kept[t])
  BY <1>2 DEF Entries, Elements
<1>4. Aging /\ recent \subseteq recent'
  <2>1. CASE held[t] = Null
    BY <1>2, <2>1 DEF Aging, Expired
  <2>2. CASE held[t] # Null
    BY <1>2, <2>2, OneLocker, ReleaseAges DEF Inductive
  <2> QED BY <2>1, <2>2
<1>5. \A c \in Entries : Expired(c) => c \in recent
  <2>1. \A u \in Threads : pc[u] # "register"
    BY <1>2 DEF Inductive, Locked
  <2> QED BY <2>1 DEF Sweeping, StaleBounded
<1>6. StaleBounded'
  BY <1>1, <1>3, <1>4, <1>5 DEF StaleBounded, Aging
<1>7. Sweeping'
  BY <1>1, <1>6 DEF Sweeping
<1> QED BY <1>3, <1>4, <1>7

\* An owner that lets go of a collectable.
LEMMA DropAges ==
  ASSUME Inductive, NEW c \in Collectables, OwnerDrops(c)
  PROVE  /\ c \in Objects /\ strong[c] >= 1
         /\ Aging /\ recent \subseteq recent' /\ UNCHANGED <<collectables, kept>>
<1>1. c \in Objects /\ Owners(c) = 1 /\ Lockers(c) \in {0, 1}
  BY DEF OwnerDrops, Objects, Owners, Lockers
<1>2. strong[c] >= 1
  BY <1>1 DEF Inductive, Counted
<1> QED BY <1>1, <1>2, ReleaseAges DEF OwnerDrops, listVars, Inductive

\* What the steps of a scrape do to the collectables: they age.
LEMMA ScrapeAges ==
  ASSUME Inductive, NEW t \in Workers,
         \/ ScrapeLocks(t)
         \/ VisitSkips(t) \/ VisitLocks(t) \/ CollectReadsOwn(t) \/ CollectReturns(t)
         \/ ScrapeAnswers(t) \/ ScrapeCounts(t) \/ ScrapeReturns(t)
  PROVE  Aging /\ recent \subseteq recent' /\ UNCHANGED <<collectables, kept>>
<1> USE DEF Threads
<1>2. CASE VisitLocks(t)
  BY <1>2, StepThroughList, AcquireAges DEF VisitLocks, listVars, Inductive
<1>3. CASE CollectReturns(t)
  <2>1. held[t] # Null
    BY <1>3 DEF CollectReturns, Inductive, Locked
  <2> QED BY <1>3, <2>1, OneLocker, ReleaseAges DEF CollectReturns, listVars, Inductive
<1>4. CASE \/ ScrapeLocks(t) \/ VisitSkips(t) \/ CollectReadsOwn(t) \/ ScrapeAnswers(t)
           \/ ScrapeCounts(t) \/ ScrapeReturns(t)
  <2>1. UNCHANGED <<strong, recent, collectables, kept>>
    BY <1>4 DEF ScrapeLocks, VisitSkips, CollectReadsOwn, ScrapeAnswers, ScrapeCounts,
                ScrapeReturns, listVars, heapVars
  <2> QED BY <2>1 DEF Aging, Expired
<1> QED BY <1>2, <1>3, <1>4

\* The list of a new handler.
LEMMA SweepingInit == Init => Sweeping
<1> SUFFICES ASSUME Init PROVE Sweeping
  OBVIOUS
<1>1. Entries = {Own} /\ strong[Own] = 1
  BY DEF Init, Entries, Objects
<1>2. \A t \in Threads : pc[t] = "idle" /\ kept[t] = <<>>
  BY DEF Init
<1> QED BY <1>1, <1>2 DEF Sweeping, StaleBounded, Expired

\* Every step keeps Sweeping.
LEMMA SweepingStep ==
  ASSUME Inductive, Sweeping, [Next]_vars
  PROVE  Sweeping'
<1>1. CASE UNCHANGED vars
  BY <1>1, NoSweep DEF vars, Aging, Expired, Inductive
<1>2. ASSUME NEW c \in Collectables, OwnerDrops(c)
      PROVE  Sweeping'
  BY <1>2, DropAges, NoSweep DEF OwnerDrops, Inductive
<1>3. ASSUME NEW t \in Clients, NEW c \in Collectables, RegisterLocks(t, c) \/ RemoveLocks(t, c)
      PROVE  Sweeping'
  BY <1>3, SweepBegins
<1>4. ASSUME NEW w \in Workers,
             \/ ScrapeLocks(w)
             \/ VisitSkips(w) \/ VisitLocks(w) \/ CollectReadsOwn(w) \/ CollectReturns(w)
             \/ ScrapeAnswers(w) \/ ScrapeCounts(w) \/ ScrapeReturns(w)
      PROVE  Sweeping'
  <2> USE DEF Threads
  <2>1. Aging /\ recent \subseteq recent' /\ UNCHANGED <<collectables, kept>>
    BY <1>4, ScrapeAges
  <2>2. /\ pc[w] \notin {"register", "remove"} /\ pc'[w] \notin {"register", "remove"}
        /\ \A u \in Threads : u # w =>
             pc'[u] = pc[u] /\ todo'[u] = todo[u] /\ held'[u] = held[u]
    BY <1>4 DEF Inductive, TypeOK, Goto, ScrapeLocks, VisitSkips, VisitLocks, CollectReadsOwn,
                CollectReturns, ScrapeAnswers, ScrapeCounts, ScrapeReturns, SkipsEntry, Acquire
  <2> QED BY <2>1, <2>2, NoSweep DEF Inductive
<1>5. ASSUME NEW t \in Threads, Continue(t)
      PROVE  Sweeping'
  BY <1>4, <1>5, SweepGoesOn, PushEnds, EraseEnds DEF Continue
<1> QED BY <1>1, <1>2, <1>3, <1>4, <1>5 DEF Next

\* The list never keeps what had expired before the last registration began.
THEOREM StaleAreBounded == Spec => []StaleBounded
<1>1. Init => Sweeping
  BY SweepingInit
<1>2. Inductive /\ Sweeping /\ [Next]_vars => Sweeping'
  BY SweepingStep
<1>3. Sweeping => StaleBounded
  BY DEF Sweeping
<1> QED BY InductiveHolds, <1>1, <1>2, <1>3, PTL DEF Spec

-----------------------------------------------------------------------------
(* Refinement of CollectableSet.                                           *)

\* A scrape has shown, or has still to visit, what it has to show, and shows
\* nothing but what it may.
Gathers(w) ==
  /\ pc[w] \notin {"visit", "collect", "count"} => shown[w] = {}
  /\ \A c \in due[w] : ~ Expired(c)
  /\ pc[w] \in {"visit", "collect"} =>
       /\ due[w] \subseteq shown[w] \cup Elements(todo[w])
       /\ shown[w] \subseteq may[w]
       /\ \A c \in Elements(todo[w]) : ~ Expired(c) => c \in may[w]
Gathering == \A w \in Workers : Gathers(w)

\* A shared_ptr less changes what is exposed if it was the last one.
LEMMA ReleaseExpires ==
  ASSUME Inductive, NEW c \in Objects, strong[c] >= 1, Release(c), UNCHANGED collectables
  PROVE  IF strong[c] = 1
           THEN Exposed' = Exposed \ {c} /\ due' = [w \in Workers |-> due[w] \ {c}]
           ELSE Exposed' = Exposed /\ due' = due
<1>1. /\ strong' = [strong EXCEPT ![c] = @ - 1] /\ strong \in [Objects -> Nat]
      /\ due' = IF strong[c] = 1 THEN [w \in Workers |-> due[w] \ {c}] ELSE due
  BY DEF Release, Inductive, TypeOK
<1>2. Entries' = Entries /\ Entries \subseteq Objects
  BY DEF Entries, Inductive, TypeOK
<1>3. \A d \in Objects : Expired(d)' <=> Expired(d) \/ (d = c /\ strong[c] = 1)
  BY <1>1 DEF Expired
<1> QED BY <1>1, <1>2, <1>3 DEF Exposed

\* A shared_ptr more to a living object exposes nothing new.
LEMMA AcquireExposes ==
  ASSUME Inductive, NEW t \in Threads, NEW c \in Objects, ~ Expired(c), Acquire(t, c),
         UNCHANGED collectables
  PROVE  Exposed' = Exposed
<1>1. strong' = [strong EXCEPT ![c] = @ + 1] /\ strong \in [Objects -> Nat]
  BY DEF Acquire, Inductive, TypeOK
<1>2. Entries' = Entries /\ Entries \subseteq Objects
  BY DEF Entries, Inductive, TypeOK
<1>3. \A d \in Objects : Expired(d)' <=> Expired(d)
  BY <1>1 DEF Expired
<1> QED BY <1>2, <1>3 DEF Exposed

\* Nor does a step that leaves the list and the shared_ptrs alone.
LEMMA SameExposed ==
  ASSUME UNCHANGED <<collectables, strong>>
  PROVE  Exposed' = Exposed
BY DEF Exposed, Entries, Expired

\* A client that is not answering anything changes no answer.
LEMMA SameAnswers ==
  ASSUME TypeOK, NEW t \in Threads, NEW l, l # "count", pc[t] # "count", Goto(t, l),
         \A w \in Workers : w # t => shown'[w] = shown[w]
  PROVE  Answers' = Answers
BY DEF TypeOK, Goto, Answers

\* The owner of a collectable lets it expire, or not.
LEMMA DropRefines ==
  ASSUME Inductive, NEW c \in Collectables, OwnerDrops(c)
  PROVE  [Promise!SetNext]_Promise!setVars
<1>1. c \in Objects /\ strong[c] >= 1
  BY DropAges
<1>2. may' = may /\ Answers' = Answers /\ collectables' = collectables /\ Release(c)
  BY DEF OwnerDrops, listVars, scrapeVars, Answers
<1>3. Promise!Expire(c) \/ UNCHANGED Promise!setVars
  BY <1>1, <1>2, ReleaseExpires DEF Promise!Expire, Promise!setVars
<1> QED BY <1>1, <1>3 DEF Promise!SetNext

\* Locking the list changes nothing anyone sees.
LEMMA ListRefines ==
  ASSUME Inductive, NEW t \in Threads, NEW c \in Collectables,
         RegisterLocks(t, c) \/ RemoveLocks(t, c)
  PROVE  UNCHANGED Promise!setVars
<1>1. due' = due /\ may' = may /\ shown' = shown /\ collectables' = collectables
  BY DEF RegisterLocks, RemoveLocks, scrapeVars
<1>2. Exposed' = Exposed
  <2>1. CASE strong' = strong
    BY <1>1, <2>1, SameExposed
  <2>2. CASE ~ Expired(c) /\ Acquire(t, c)
    BY <1>1, <2>2, AcquireExposes DEF Objects
  <2> QED BY <2>1, <2>2 DEF RegisterLocks, RemoveLocks, heapVars
<1>3. Answers' = Answers
  BY <1>1, SameAnswers DEF RegisterLocks, RemoveLocks, Inductive
<1> QED BY <1>1, <1>2, <1>3 DEF Promise!setVars

\* Nor does looking through it.
LEMMA SweepRefines ==
  ASSUME NEW t \in Threads, Sweeps(t)
  PROVE  UNCHANGED Promise!setVars
<1>1. Exposed' = Exposed
  BY SameExposed DEF Sweeps, heapVars
<1> QED BY <1>1 DEF Sweeps, scrapeVars, Answers, Promise!setVars

\* A registration takes effect when it pushes, if its collectable is alive.
LEMMA PushRefines ==
  ASSUME Inductive, Sweeping, NEW t \in Threads, RegisterPushes(t)
  PROVE  [Promise!SetNext]_Promise!setVars
<1>1. /\ Entries' = Elements(kept[t]) \cup {arg[t]} /\ arg[t] \in Objects
      /\ \A c \in Entries : ~ Expired(c) /\ c # held[t] => c \in Elements(kept[t])
      /\ Elements(kept[t]) \subseteq Entries /\ Entries \subseteq Objects
  BY PushEnds, SweepEnds
<1>2. /\ due' = due /\ may' = may /\ shown' = shown /\ strong' = strong
      /\ pc[t] = "register" /\ Goto(t, "idle") /\ held[t] = Null
  BY DEF RegisterPushes, LeaveList, heapVars, scrapeVars, Inductive, Locked
<1>3. Answers' = Answers
  BY <1>2, SameAnswers DEF Inductive
<1>4. Exposed' = Exposed \cup (IF Expired(arg[t]) THEN {} ELSE {arg[t]})
  BY <1>1, <1>2, HandlerObjects DEF Exposed, Expired
<1>5. Promise!Register(arg[t]) \/ UNCHANGED Promise!setVars
  BY <1>2, <1>3, <1>4 DEF Promise!Register, Promise!setVars
<1> QED BY <1>1, <1>5 DEF Promise!SetNext

\* A removal takes effect when it erases; the removing thread may be the last one
\* that has a shared_ptr.
LEMMA EraseRefines ==
  ASSUME Inductive, Sweeping, NEW t \in Threads, RemoveErases(t)
  PROVE  [Promise!SetNext]_Promise!setVars
<1>1. /\ Entries' = Elements(kept[t])
      /\ \A c \in Entries : ~ Expired(c) /\ c # held[t] => c \in Elements(kept[t])
      /\ Elements(kept[t]) \subseteq Entries /\ Entries \subseteq Objects
  BY EraseEnds, SweepEnds
<1>2. /\ may' = may /\ shown' = shown /\ pc[t] = "remove" /\ Goto(t, "idle")
      /\ IF held[t] = Null THEN UNCHANGED <<strong, due, recent>> ELSE Release(held[t])
      /\ held[t] \notin Elements(kept[t])
  BY DEF RemoveErases, LeaveList, scrapeVars, Sweeping
<1>3. Answers' = Answers
  BY <1>2, SameAnswers DEF Inductive
<1>4. CASE held[t] = Null
  <2>1. Exposed' = Exposed
    BY <1>1, <1>2, <1>4, HandlerObjects DEF Exposed, Expired
  <2> QED BY <1>2, <1>3, <1>4, <2>1 DEF Promise!setVars
<1>5. CASE held[t] # Null
  <2>1. held[t] \in Objects /\ strong[held[t]] >= 1
    BY <1>5, OneLocker
  <2>2. /\ strong' = [strong EXCEPT ![held[t]] = @ - 1]
        /\ due' = IF strong[held[t]] = 1 THEN [w \in Workers |-> due[w] \ {held[t]}] ELSE due
    BY <1>2, <1>5 DEF Release
  <2>3. \A d \in Objects : d # held[t] => (Expired(d)' <=> Expired(d))
    BY <2>1, <2>2 DEF Expired, Inductive, TypeOK
  <2>4. Exposed' = Exposed \ {held[t]}
    BY <1>1, <1>2, <2>3 DEF Exposed
  <2>5. Promise!Remove(held[t]) \/ Promise!Expire(held[t])
    BY <1>2, <1>3, <2>2, <2>4 DEF Promise!Remove, Promise!Expire
  <2> QED BY <2>1, <2>5 DEF Promise!SetNext
<1> QED BY <1>4, <1>5

\* A scrape begins, answers and ends; whatever it does in between may at most let
\* a collectable expire.
LEMMA ScrapeRefines ==
  ASSUME Inductive, Gathering, NEW w \in Workers,
         \/ ScrapeLocks(w)
         \/ VisitSkips(w) \/ VisitLocks(w) \/ CollectReadsOwn(w) \/ CollectReturns(w)
         \/ ScrapeAnswers(w) \/ ScrapeCounts(w) \/ ScrapeReturns(w)
  PROVE  [Promise!SetNext]_Promise!setVars
<1> USE DEF Threads
<1>1. CASE ScrapeLocks(w)
  <2>1. /\ due' = [due EXCEPT ![w] = Exposed] /\ may' = [may EXCEPT ![w] = Exposed]
        /\ UNCHANGED <<collectables, strong, shown>> /\ pc[w] = "idle" /\ Goto(w, "visit")
    BY <1>1 DEF ScrapeLocks, heapVars
  <2>2. Exposed' = Exposed /\ Answers' = Answers
    BY <2>1, SameExposed, SameAnswers DEF Inductive
  <2> QED BY <2>1, <2>2 DEF Promise!SetNext, Promise!ScrapeBegins
<1>2. CASE VisitSkips(w) \/ CollectReadsOwn(w) \/ ScrapeCounts(w)
  <2>1. UNCHANGED <<collectables, strong, shown, pc, due, may>>
    BY <1>2 DEF VisitSkips, CollectReadsOwn, ScrapeCounts, listVars, heapVars, scrapeVars
  <2>2. Exposed' = Exposed /\ Answers' = Answers
    BY <2>1, SameExposed DEF Answers
  <2> QED BY <2>1, <2>2 DEF Promise!setVars
<1>3. CASE VisitLocks(w)
  <2>1. /\ UNCHANGED <<collectables, shown, due, may>> /\ pc[w] = "visit" /\ Goto(w, "collect")
        /\ Acquire(w, Head(todo[w])) /\ ~ Expired(Head(todo[w])) /\ Head(todo[w]) \in Objects
    BY <1>3, StepThroughList DEF VisitLocks, listVars, scrapeVars, Inductive
  <2>2. Exposed' = Exposed /\ Answers' = Answers
    BY <2>1, AcquireExposes, SameAnswers DEF Inductive
  <2> QED BY <2>1, <2>2 DEF Promise!setVars
<1>4. CASE CollectReturns(w)
  <2>1. /\ collectables' = collectables /\ may' = may /\ pc[w] = "collect" /\ Goto(w, "visit")
        /\ \A v \in Workers : v # w => shown'[v] = shown[v]
        /\ Release(held[w]) /\ held[w] # Null
    BY <1>4 DEF CollectReturns, listVars, Inductive, TypeOK, Locked
  <2>2. held[w] \in Objects /\ strong[held[w]] >= 1
    BY <2>1, OneLocker
  <2>3. Answers' = Answers
    BY <2>1, SameAnswers DEF Inductive
  <2>4. Promise!Expire(held[w]) \/ UNCHANGED Promise!setVars
    BY <2>1, <2>2, <2>3, ReleaseExpires DEF Promise!Expire, Promise!setVars
  <2> QED BY <2>2, <2>4 DEF Promise!SetNext
<1>5. CASE ScrapeAnswers(w)
  <2>1. /\ UNCHANGED <<collectables, strong, shown>> /\ pc[w] = "visit" /\ todo[w] = <<>>
        /\ pc' = [pc EXCEPT ![w] = "count"]
        /\ due' = [due EXCEPT ![w] = {}] /\ may' = [may EXCEPT ![w] = {}]
    BY <1>5 DEF ScrapeAnswers, heapVars, Goto
  <2>2. due[w] \subseteq shown[w] /\ shown[w] \subseteq may[w] /\ shown[w] \in SUBSET Objects
    BY <2>1, NoElements DEF Gathering, Gathers, Inductive, TypeOK
  <2>3. Exposed' = Exposed /\ Answers' = [Answers EXCEPT ![w] = shown[w]]
    BY <2>1, SameExposed DEF Answers, Inductive, TypeOK
  <2>4. Promise!ScrapeAnswers(w, shown[w])
    BY <2>1, <2>2, <2>3 DEF Promise!ScrapeAnswers
  <2> QED BY <2>2, <2>4 DEF Promise!SetNext
<1>6. CASE ScrapeReturns(w)
  <2>1. /\ UNCHANGED <<collectables, strong, due, may>> /\ pc' = [pc EXCEPT ![w] = "idle"]
        /\ shown' = [shown EXCEPT ![w] = {}]
    BY <1>6 DEF ScrapeReturns, listVars, heapVars, Goto
  <2>2. Exposed' = Exposed /\ Answers' = [Answers EXCEPT ![w] = {}]
    BY <2>1, SameExposed DEF Answers, Inductive, TypeOK
  <2> QED BY <2>1, <2>2 DEF Promise!SetNext, Promise!ScrapeEnds
<1> QED BY <1>1, <1>2, <1>3, <1>4, <1>5, <1>6

\* What one thread does is no concern of the scrape of another one, but that
\* collectables age.
LEMMA GathersOn ==
  ASSUME TypeOK, NEW w \in Workers, Gathers(w), Aging,
         shown'[w] = shown[w], may'[w] = may[w], due'[w] \subseteq due[w],
         \A c \in due'[w] : ~ Expired(c)',
         \/ /\ todo'[w] = todo[w]
            /\ pc'[w] = pc[w] \/ {pc[w], pc'[w]} \subseteq {"visit", "collect"}
         \/ {pc[w], pc'[w]} \cap {"visit", "collect", "count"} = {}
  PROVE  Gathers(w)'
<1>1. Elements(todo[w]) \subseteq Objects
  BY DEF TypeOK, Threads, Elements
<1>2. CASE /\ todo'[w] = todo[w]
           /\ pc'[w] = pc[w] \/ {pc[w], pc'[w]} \subseteq {"visit", "collect"}
  <2>1. Elements(todo[w])' = Elements(todo[w])
    BY <1>2 DEF Elements
  <2>2. \A c \in Elements(todo[w]) : ~ Expired(c)' => ~ Expired(c)
    BY <1>1 DEF Aging
  <2> QED BY <1>2, <2>1, <2>2 DEF Gathers
<1>3. CASE {pc[w], pc'[w]} \cap {"visit", "collect", "count"} = {}
  BY <1>3 DEF Gathers
<1> QED BY <1>2, <1>3

\* What a scrape has to show is alive, whoever lets go of what.
LEMMA DueIsAlive ==
  ASSUME TypeOK, Gathering, NEW w \in Workers,
         \/ UNCHANGED <<strong, due>>
         \/ \E c \in Objects : strong[c] >= 1 /\ Release(c)
         \/ due' = due /\ \E c \in Objects, t \in Threads : Acquire(t, c)
  PROVE  due'[w] \subseteq due[w] /\ \A c \in due'[w] : ~ Expired(c)'
<1>1. due[w] \subseteq Objects /\ \A c \in due[w] : ~ Expired(c)
  BY DEF TypeOK, Gathering, Gathers
<1>2. CASE UNCHANGED <<strong, due>>
  BY <1>1, <1>2 DEF Expired
<1>3. ASSUME NEW c \in Objects, strong[c] >= 1, Release(c)
      PROVE  due'[w] \subseteq due[w] /\ \A d \in due'[w] : ~ Expired(d)'
  BY <1>1, <1>3 DEF TypeOK, Release, Expired
<1>4. ASSUME NEW c \in Objects, NEW t \in Threads, Acquire(t, c), due' = due
      PROVE  due'[w] \subseteq due[w] /\ \A d \in due'[w] : ~ Expired(d)'
  BY <1>1, <1>4 DEF TypeOK, Acquire, Expired
<1> QED BY <1>2, <1>3, <1>4

\* No scrape minds what owners and clients do.
LEMMA ListGathers ==
  ASSUME Inductive, Sweeping, Gathering,
         \/ \E c \in Collectables : OwnerDrops(c)
         \/ \E t \in Clients, c \in Collectables : RegisterLocks(t, c) \/ RemoveLocks(t, c)
         \/ \E t \in Threads : Sweeps(t) \/ RegisterPushes(t) \/ RemoveErases(t)
  PROVE  Gathering'
<1> SUFFICES ASSUME NEW w \in Workers PROVE Gathers(w)'
  BY DEF Gathering
<1> USE DEF Threads
<1>1. shown' = shown /\ may' = may /\ Gathers(w) /\ TypeOK
  BY DEF OwnerDrops, RegisterLocks, RemoveLocks, Sweeps, RegisterPushes, RemoveErases, scrapeVars,
         Gathering, Inductive
<1>2. ASSUME NEW c \in Collectables, OwnerDrops(c)
      PROVE  Gathers(w)'
  <2>1. Aging /\ c \in Objects /\ strong[c] >= 1
    BY <1>2, DropAges
  <2>2. pc' = pc /\ todo' = todo /\ Release(c)
    BY <1>2 DEF OwnerDrops
  <2>3. due'[w] \subseteq due[w] /\ \A d \in due'[w] : ~ Expired(d)'
    BY <1>1, <2>1, <2>2, DueIsAlive
  <2> QED BY <1>1, <2>1, <2>2, <2>3, GathersOn
<1>3. ASSUME NEW t \in Clients, NEW c \in Collectables, RegisterLocks(t, c) \/ RemoveLocks(t, c)
      PROVE  Gathers(w)'
  <2>1. \/ UNCHANGED <<strong, due>>
        \/ due' = due /\ c \in Objects /\ ~ Expired(c) /\ Acquire(t, c)
    BY <1>3 DEF RegisterLocks, RemoveLocks, heapVars, Objects
  <2>2. Aging
    BY <1>1, <2>1, AcquireAges DEF Aging, Expired
  <2>3. due'[w] \subseteq due[w] /\ \A d \in due'[w] : ~ Expired(d)'
    BY <1>1, <2>1, DueIsAlive
  <2>4. /\ w # t => pc'[w] = pc[w] /\ todo'[w] = todo[w]
        /\ w = t => {pc[w], pc'[w]} \cap {"visit", "collect", "count"} = {}
    BY <1>1, <1>3 DEF RegisterLocks, RemoveLocks, Goto, TypeOK
  <2> QED BY <1>1, <2>2, <2>3, <2>4, GathersOn
<1>4. ASSUME NEW t \in Threads, Sweeps(t) \/ RegisterPushes(t) \/ RemoveErases(t)
      PROVE  Gathers(w)'
  <2>1. \/ UNCHANGED <<strong, due>>
        \/ held[t] # Null /\ Release(held[t])
    BY <1>4 DEF Sweeps, RegisterPushes, RemoveErases, heapVars
  <2>2. Aging
    BY <1>4, <2>1, EraseEnds DEF Sweeps, RegisterPushes, heapVars, Aging, Expired
  <2>3. due'[w] \subseteq due[w] /\ \A d \in due'[w] : ~ Expired(d)'
    BY <1>1, <2>1, OneLocker, DueIsAlive
  <2>4. /\ w # t => pc'[w] = pc[w] /\ todo'[w] = todo[w]
        /\ w = t => {pc[w], pc'[w]} \cap {"visit", "collect", "count"} = {}
    BY <1>1, <1>4 DEF Sweeps, RegisterPushes, RemoveErases, LeaveList, Goto, TypeOK
  <2> QED BY <1>1, <2>2, <2>3, <2>4, GathersOn
<1> QED BY <1>2, <1>3, <1>4

\* A scrape visits every entry, shows the living ones, and no other scrape minds.
LEMMA ScrapeGathers ==
  ASSUME Inductive, Gathering, NEW w \in Workers,
         \/ ScrapeLocks(w)
         \/ VisitSkips(w) \/ VisitLocks(w) \/ CollectReadsOwn(w) \/ CollectReturns(w)
         \/ ScrapeAnswers(w) \/ ScrapeCounts(w) \/ ScrapeReturns(w)
  PROVE  Gathering'
<1> USE DEF Threads
<1>1. Aging /\ TypeOK /\ Gathers(w)
  BY ScrapeAges DEF Inductive, Gathering
<1>2. ASSUME CollectReturns(w)
      PROVE  held[w] \in Objects /\ strong[held[w]] >= 1 /\ Release(held[w])
             /\ todo[w] # <<>> /\ held[w] = Head(todo[w])
  BY <1>2, OneLocker DEF CollectReturns, Inductive, Locked
<1>3. ASSUME NEW v \in Workers, v # w
      PROVE  Gathers(v)'
  <2>1. /\ shown'[v] = shown[v] /\ may'[v] = may[v] /\ todo'[v] = todo[v] /\ pc'[v] = pc[v]
    BY <1>1, <1>3 DEF TypeOK, ScrapeLocks, VisitSkips, VisitLocks, CollectReadsOwn, CollectReturns,
                      ScrapeAnswers, ScrapeCounts, ScrapeReturns, scrapeVars, SkipsEntry, Goto
  <2>2. due'[v] \subseteq due[v] /\ \A c \in due'[v] : ~ Expired(c)'
    <3>1. CASE ScrapeLocks(w) \/ ScrapeAnswers(w)
      BY <1>1, <1>3, <3>1 DEF TypeOK, ScrapeLocks, ScrapeAnswers, heapVars, Expired, Gathering,
                              Gathers
    <3>2. CASE VisitSkips(w) \/ CollectReadsOwn(w) \/ ScrapeCounts(w) \/ ScrapeReturns(w)
      <4>1. UNCHANGED <<strong, due>>
        BY <3>2 DEF VisitSkips, CollectReadsOwn, ScrapeCounts, ScrapeReturns, heapVars
      <4> QED BY <1>1, <4>1, DueIsAlive
    <3>3. CASE VisitLocks(w)
      <4>1. due' = due /\ Head(todo[w]) \in Objects /\ Acquire(w, Head(todo[w]))
        BY <1>1, <3>3, StepThroughList DEF VisitLocks
      <4> QED BY <1>1, <4>1, DueIsAlive
    <3>4. CASE CollectReturns(w)
      BY <1>1, <1>2, <3>4, DueIsAlive
    <3> QED BY <3>1, <3>2, <3>3, <3>4
  <2> QED BY <1>1, <1>3, <2>1, <2>2, GathersOn DEF Gathering
<1>4. CASE ScrapeLocks(w)
  <2>1. /\ todo'[w] = collectables /\ due'[w] = Exposed /\ may'[w] = Exposed /\ shown'[w] = {}
        /\ pc'[w] = "visit" /\ strong' = strong
    BY <1>1, <1>4 DEF ScrapeLocks, Goto, heapVars, TypeOK, Gathers
  <2>2. Elements(todo[w])' = Entries /\ \A c : Expired(c)' = Expired(c)
    BY <2>1 DEF Elements, Entries, Expired
  <2>3. Gathers(w)'
    BY <2>1, <2>2 DEF Gathers, Exposed
  <2> QED BY <1>3, <2>3 DEF Gathering
<1>5. CASE VisitSkips(w)
  <2>1. /\ todo'[w] = Tail(todo[w]) /\ due' = due /\ may' = may /\ shown' = shown
        /\ pc' = pc /\ strong' = strong /\ pc[w] = "visit" /\ Expired(Head(todo[w]))
        /\ Elements(todo[w]) = {Head(todo[w])} \cup Elements(Tail(todo[w]))
    BY <1>1, <1>5, TailElements DEF VisitSkips, SkipsEntry, scrapeVars, heapVars, TypeOK
  <2>2. Elements(todo[w])' = Elements(Tail(todo[w])) /\ \A c : Expired(c)' = Expired(c)
    BY <2>1 DEF Elements, Expired
  <2>3. Gathers(w)'
    BY <1>1, <2>1, <2>2 DEF Gathers
  <2> QED BY <1>3, <2>3 DEF Gathering
<1>6. CASE VisitLocks(w)
  <2>1. /\ due' = due /\ may' = may /\ shown' = shown /\ todo' = todo
        /\ pc[w] = "visit" /\ pc'[w] = "collect"
        /\ Head(todo[w]) \in Objects /\ Acquire(w, Head(todo[w]))
    BY <1>1, <1>6, StepThroughList DEF VisitLocks, scrapeVars, Goto, TypeOK
  <2>2. due'[w] \subseteq due[w] /\ \A c \in due'[w] : ~ Expired(c)'
    BY <1>1, <2>1, DueIsAlive
  <2>3. Gathers(w)'
    BY <1>1, <2>1, <2>2, GathersOn
  <2> QED BY <1>3, <2>3 DEF Gathering
<1>7. CASE CollectReadsOwn(w) \/ ScrapeCounts(w)
  <2>1. UNCHANGED <<strong, due, may, shown, todo, pc>>
    BY <1>7 DEF CollectReadsOwn, ScrapeCounts, heapVars
  <2>2. due'[w] \subseteq due[w] /\ \A c \in due'[w] : ~ Expired(c)'
    BY <1>1, <2>1, DueIsAlive
  <2>3. Gathers(w)'
    BY <1>1, <2>1, <2>2, GathersOn
  <2> QED BY <1>3, <2>3 DEF Gathering
<1>8. CASE CollectReturns(w)
  <2>1. /\ todo'[w] = Tail(todo[w]) /\ may' = may /\ shown'[w] = shown[w] \cup {held[w]}
        /\ pc[w] = "collect" /\ pc'[w] = "visit"
        /\ Elements(todo[w]) = {held[w]} \cup Elements(Tail(todo[w]))
    BY <1>1, <1>2, <1>8, TailElements DEF CollectReturns, Goto, TypeOK
  <2>2. due'[w] \subseteq due[w] /\ \A c \in due'[w] : ~ Expired(c)'
    BY <1>1, <1>2, <1>8, DueIsAlive
  <2>3. Elements(todo[w])' = Elements(Tail(todo[w]))
    BY <2>1 DEF Elements
  <2>4. held[w] \in may[w]
    BY <1>1, <1>2, <1>8, <2>1 DEF Gathers, Expired
  <2>5. Elements(Tail(todo[w])) \subseteq Objects
    BY <1>1, <2>1 DEF TypeOK, Elements
  <2>6. Gathers(w)'
    BY <1>1, <2>1, <2>2, <2>3, <2>4, <2>5 DEF Gathers, Aging
  <2> QED BY <1>3, <2>6 DEF Gathering
<1>9. CASE ScrapeAnswers(w) \/ ScrapeReturns(w)
  <2>1. /\ strong' = strong
        /\ \/ pc'[w] = "count" /\ due'[w] = {}
           \/ pc'[w] = "idle" /\ due' = due /\ shown'[w] = {}
    BY <1>1, <1>9 DEF ScrapeAnswers, ScrapeReturns, heapVars, Goto, TypeOK
  <2>2. Gathers(w)'
    BY <1>1, <2>1 DEF Gathers, Expired
  <2> QED BY <1>3, <2>2 DEF Gathering
<1> QED BY <1>4, <1>5, <1>6, <1>7, <1>8, <1>9

\* Registered collectables that are alive form a set to everyone who registers,
\* removes, owns or scrapes.
THEOREM HandlerIsSet == Spec => RefinesCollectableSet
<1>1. Init => Promise!SetInit /\ Gathering
  <2> SUFFICES ASSUME Init PROVE Promise!SetInit /\ Gathering
    OBVIOUS
  <2>1. Exposed \subseteq Objects
    BY DEF Init, Exposed, Entries, Objects
  <2> QED BY <2>1 DEF Init, Promise!SetInit, Answers, Gathering, Gathers, Threads
<1>2. Inductive /\ Sweeping /\ Gathering /\ [Next]_vars =>
        Gathering' /\ [Promise!SetNext]_Promise!setVars
  <2> SUFFICES ASSUME Inductive, Sweeping, Gathering, [Next]_vars
               PROVE  Gathering' /\ [Promise!SetNext]_Promise!setVars
    OBVIOUS
  <2>1. CASE UNCHANGED vars
    <3>1. Gathering'
      BY <2>1 DEF vars, Gathering, Gathers, Elements, Expired
    <3>2. UNCHANGED Promise!setVars
      BY <2>1 DEF vars, Promise!setVars, Exposed, Entries, Expired, Answers
    <3> QED BY <3>1, <3>2
  <2>2. ASSUME NEW c \in Collectables, OwnerDrops(c)
        PROVE  Gathering' /\ [Promise!SetNext]_Promise!setVars
    BY <2>2, ListGathers, DropRefines
  <2>3. ASSUME NEW t \in Clients, NEW c \in Collectables, RegisterLocks(t, c) \/ RemoveLocks(t, c)
        PROVE  Gathering' /\ [Promise!SetNext]_Promise!setVars
    BY <2>3, ListGathers, ListRefines DEF Threads
  <2>4. ASSUME NEW w \in Workers, ScrapeLocks(w)
        PROVE  Gathering' /\ [Promise!SetNext]_Promise!setVars
    BY <2>4, ScrapeGathers, ScrapeRefines
  <2>5. ASSUME NEW t \in Threads, Continue(t)
        PROVE  Gathering' /\ [Promise!SetNext]_Promise!setVars
    <3>1. CASE Sweeps(t)
      BY <3>1, ListGathers, SweepRefines
    <3>2. CASE RegisterPushes(t) \/ RemoveErases(t)
      BY <3>2, ListGathers, PushRefines, EraseRefines
    <3>3. CASE t \in Workers /\ ~ (Sweeps(t) \/ RegisterPushes(t) \/ RemoveErases(t))
      BY <2>5, <3>3, ScrapeGathers, ScrapeRefines DEF Continue
    <3> QED BY <2>5, <3>1, <3>2, <3>3 DEF Continue
  <2> QED BY <2>1, <2>2, <2>3, <2>4, <2>5 DEF Next
<1>3. Init => Sweeping
  BY SweepingInit
<1>4. Inductive /\ Sweeping /\ [Next]_vars => Sweeping'
  BY SweepingStep
<1> QED BY <1>1, <1>2, <1>3, <1>4, InductiveHolds, PTL
    DEF Spec, RefinesCollectableSet, Promise!SetSpec

-----------------------------------------------------------------------------
(* The handler's own metrics.                                              *)

\* The workers that have observed a latency and not yet counted the scrape.
Ahead == {w \in Workers : uncounted[w] \in {<<"bytes_transferred", "num_scrapes">>,
                                            <<"num_scrapes">>}}

\* The observations are ahead of the scrapes by these workers, and nobody has read
\* more scrapes than there are observations by now, or were when it read them.
Measured ==
  /\ \A w \in Workers : pc[w] # "count" => uncounted[w] = <<>>
  /\ \A w \in Workers :
       uncounted[w] \in {<<>>, <<"num_scrapes">>, <<"bytes_transferred", "num_scrapes">>,
                        UpdateOrder}
  /\ IsFiniteSet(Ahead)
  /\ self["request_latencies"] = self["num_scrapes"] + Cardinality(Ahead)
  /\ \A w \in Workers : Len(own[w]) = 2 => own[w][2] <= self["request_latencies"]
  /\ ScrapesMeasured

\* The updates one by one.
LEMMA Updates ==
  /\ Head(UpdateOrder) = "request_latencies"
  /\ Tail(UpdateOrder) = <<"bytes_transferred", "num_scrapes">>
  /\ Head(<<"bytes_transferred", "num_scrapes">>) = "bytes_transferred"
  /\ Tail(<<"bytes_transferred", "num_scrapes">>) = <<"num_scrapes">>
  /\ Head(<<"num_scrapes">>) = "num_scrapes" /\ Tail(<<"num_scrapes">>) = <<>>
  /\ UpdateOrder \notin {<<"bytes_transferred", "num_scrapes">>, <<"num_scrapes">>, <<>>}
  /\ <<>> \notin {<<"bytes_transferred", "num_scrapes">>, <<"num_scrapes">>}
  /\ <<"bytes_transferred", "num_scrapes">> # <<"num_scrapes">>
BY DEF UpdateOrder

\* A step that neither updates nor reads the metrics.
LEMMA MeasuresOn ==
  ASSUME Measured, UNCHANGED <<self, uncounted>>,
         \A w \in Workers : own'[w] = own[w] \/ own'[w] = <<>>,
         \A w \in Workers : pc[w] = "count" /\ uncounted[w] # <<>> => pc'[w] = "count"
  PROVE  Measured'
<1>1. Ahead' = Ahead
  BY DEF Ahead
<1>2. Len(<<>>) = 0
  BY EmptySeq
<1> QED BY <1>1, <1>2 DEF Measured, ScrapesMeasured

\* The scrape has been answered.
LEMMA AnswerMeasures ==
  ASSUME Inductive, Measured, NEW w \in Workers, ScrapeAnswers(w)
  PROVE  Measured'
<1>1. /\ uncounted' = [uncounted EXCEPT ![w] = UpdateOrder] /\ UNCHANGED <<self, own>>
      /\ pc' = [pc EXCEPT ![w] = "count"] /\ uncounted[w] = <<>>
      /\ DOMAIN uncounted = Workers /\ DOMAIN pc = Threads
  BY DEF ScrapeAnswers, Goto, Measured, Inductive, TypeOK
<1>2. Ahead' = Ahead
  BY <1>1, Updates DEF Ahead
<1> QED BY <1>1, <1>2 DEF Measured, ScrapesMeasured, Threads

\* Each of the three updates.
LEMMA CountMeasures ==
  ASSUME Inductive, Measured, NEW w \in Workers, ScrapeCounts(w)
  PROVE  Measured'
<1> DEFINE m == Head(uncounted[w])
<1>1. /\ self' = [self EXCEPT ![m] = @ + 1] /\ uncounted' = [uncounted EXCEPT ![w] = Tail(@)]
      /\ own' = own /\ pc' = pc /\ pc[w] = "count" /\ uncounted[w] # <<>>
      /\ DOMAIN uncounted = Workers /\ self \in [OwnMetrics -> Nat]
  BY DEF ScrapeCounts, Inductive, TypeOK
<1>2. IsFiniteSet(Ahead) /\ Cardinality(Ahead) \in Nat
  BY FS_CardinalityType DEF Measured
<1>3. /\ IsFiniteSet(Ahead')
      /\ self'["request_latencies"] = self'["num_scrapes"] + Cardinality(Ahead')
      /\ self["request_latencies"] <= self'["request_latencies"]
      /\ uncounted'[w] \in {<<>>, <<"num_scrapes">>, <<"bytes_transferred", "num_scrapes">>}
  <2>1. CASE uncounted[w] = UpdateOrder
    <3>1. m = "request_latencies" /\ uncounted'[w] = <<"bytes_transferred", "num_scrapes">>
      BY <1>1, <2>1, Updates
    <3>2. w \notin Ahead /\ Ahead' = Ahead \cup {w}
      BY <1>1, <2>1, <3>1, Updates DEF Ahead
    <3>3. IsFiniteSet(Ahead') /\ Cardinality(Ahead') = Cardinality(Ahead) + 1
      BY <1>2, <3>2, FS_AddElement
    <3> QED BY <1>1, <1>2, <3>1, <3>3 DEF Measured, OwnMetrics
  <2>2. CASE uncounted[w] = <<"bytes_transferred", "num_scrapes">>
    <3>1. m = "bytes_transferred" /\ uncounted'[w] = <<"num_scrapes">>
      BY <1>1, <2>2, Updates
    <3>2. Ahead' = Ahead
      BY <1>1, <2>2, <3>1, Updates DEF Ahead
    <3> QED BY <1>1, <1>2, <3>1, <3>2 DEF Measured, OwnMetrics
  <2>3. CASE uncounted[w] = <<"num_scrapes">>
    <3>1. m = "num_scrapes" /\ uncounted'[w] = <<>>
      BY <1>1, <2>3, Updates
    <3>2. w \in Ahead /\ Ahead' = Ahead \ {w}
      BY <1>1, <2>3, <3>1, Updates DEF Ahead
    <3>3. IsFiniteSet(Ahead') /\ Cardinality(Ahead') = Cardinality(Ahead) - 1
      BY <1>2, <3>2, FS_RemoveElement
    <3>4. /\ self'["num_scrapes"] = self["num_scrapes"] + 1 /\ self["num_scrapes"] \in Nat
          /\ self'["request_latencies"] = self["request_latencies"]
          /\ self["request_latencies"] \in Nat
      BY <1>1, <3>1 DEF OwnMetrics
    <3>5. self'["request_latencies"] = self'["num_scrapes"] + Cardinality(Ahead')
      BY <1>2, <3>3, <3>4 DEF Measured
    <3> QED BY <3>1, <3>3, <3>4, <3>5
  <2> QED BY <1>1, <2>1, <2>2, <2>3 DEF Measured
<1>4. \A v \in Workers : Len(own[v]) = 2 => own[v][2] <= self'["request_latencies"]
  <2> SUFFICES ASSUME NEW v \in Workers, Len(own[v]) = 2
               PROVE  own[v][2] <= self'["request_latencies"]
    OBVIOUS
  <2>1. own[v][2] \in Nat
    <3>1. own[v] \in Seq(Nat) /\ 2 \in 1 .. Len(own[v])
      BY DEF Inductive, TypeOK
    <3> QED BY <3>1, ElementOfSeq
  <2>2. self["request_latencies"] \in Nat /\ self'["request_latencies"] \in Nat
    BY <1>1 DEF OwnMetrics
  <2> QED BY <1>3, <2>1, <2>2 DEF Measured
<1>5. \A v \in Workers :
        /\ pc'[v] # "count" => uncounted'[v] = <<>>
        /\ uncounted'[v] \in {<<>>, <<"num_scrapes">>, <<"bytes_transferred", "num_scrapes">>,
                             UpdateOrder}
  BY <1>1, <1>3 DEF Measured
<1> QED BY <1>1, <1>3, <1>4, <1>5 DEF Measured, ScrapesMeasured

\* Registry::Collect reads one of the metrics.
LEMMA ReadMeasures ==
  ASSUME Inductive, Measured, NEW w \in Workers, CollectReadsOwn(w)
  PROVE  Measured'
<1> DEFINE k == Len(own[w])
<1> DEFINE x == self[CollectOrder[k + 1]]
<1>1. /\ k \in {0, 1, 2} /\ x \in Nat /\ own' = [own EXCEPT ![w] = Append(@, x)]
      /\ own[w] \in Seq(Nat) /\ DOMAIN own = Workers
  BY ReadOwn DEF Inductive, TypeOK
<1>2. /\ Len(own'[w]) = k + 1 /\ own'[w][k + 1] = x
      /\ \A i \in 1 .. k : own'[w][i] = own[w][i]
  BY <1>1, AppendProperties
<1>3. UNCHANGED <<self, uncounted, pc>> /\ Ahead' = Ahead
  BY DEF CollectReadsOwn, Ahead
<1>4. self["num_scrapes"] <= self["request_latencies"]
  <2>1. Cardinality(Ahead) \in Nat
    BY FS_CardinalityType DEF Measured
  <2>2. self["num_scrapes"] \in Nat
    BY DEF Inductive, TypeOK, OwnMetrics
  <2> QED BY <2>1, <2>2 DEF Measured
<1>5. Len(own'[w]) = 2 => own'[w][2] <= self["request_latencies"]
  <2> SUFFICES ASSUME Len(own'[w]) = 2
               PROVE  own'[w][2] <= self["request_latencies"]
    OBVIOUS
  <2>1. k = 1
    BY <1>1, <1>2
  <2>2. CollectOrder[k + 1] = "num_scrapes"
    BY <2>1, Orders
  <2> QED BY <1>2, <1>4, <2>1, <2>2
<1>6. Len(own'[w]) = 3 => own'[w][2] <= own'[w][3]
  <2> SUFFICES ASSUME Len(own'[w]) = 3
               PROVE  own'[w][2] <= own'[w][3]
    OBVIOUS
  <2>1. k = 2
    BY <1>1, <1>2
  <2>2. CollectOrder[k + 1] = "request_latencies"
    BY <2>1, Orders
  <2>3. own'[w][2] = own[w][2] /\ own'[w][3] = self["request_latencies"]
    BY <1>2, <2>1, <2>2
  <2> QED BY <2>1, <2>3 DEF Measured
<1> QED BY <1>1, <1>3, <1>5, <1>6 DEF Measured, ScrapesMeasured

\* No scrape shows more scrapes than observed latencies.
THEOREM ScrapesAreMeasured == Spec => []ScrapesMeasured
<1>1. Init => Measured
  <2> SUFFICES ASSUME Init PROVE Measured
    OBVIOUS
  <2>1. Ahead = {}
    BY Updates DEF Init, Ahead
  <2>2. IsFiniteSet({}) /\ Cardinality({}) = 0
    BY FS_EmptySet
  <2>3. self["request_latencies"] = 0 /\ self["num_scrapes"] = 0
    BY DEF Init, OwnMetrics
  <2>4. \A w \in Workers : Len(own[w]) = 0
    BY EmptySeq DEF Init
  <2> QED BY <2>1, <2>2, <2>3, <2>4 DEF Init, Measured, ScrapesMeasured
<1>2. Inductive /\ Measured /\ [Next]_vars => Measured'
  <2> SUFFICES ASSUME Inductive, Measured, [Next]_vars PROVE Measured'
    OBVIOUS
  <2> USE DEF Threads
  <2>1. CASE \/ UNCHANGED vars \/ \E c \in Collectables : OwnerDrops(c)
    BY <2>1, MeasuresOn DEF vars, OwnerDrops, scrapeVars
  <2>2. ASSUME NEW t \in Clients, NEW c \in Collectables, RegisterLocks(t, c) \/ RemoveLocks(t, c)
        PROVE  Measured'
    BY <2>2, MeasuresOn DEF RegisterLocks, RemoveLocks, Goto, scrapeVars, Inductive, TypeOK
  <2>3. ASSUME NEW w \in Workers,
               \/ ScrapeLocks(w) \/ VisitSkips(w) \/ VisitLocks(w) \/ CollectReturns(w)
               \/ ScrapeReturns(w)
        PROVE  Measured'
    BY <2>3, MeasuresOn DEF ScrapeLocks, VisitSkips, VisitLocks, CollectReturns, ScrapeReturns,
         Goto, scrapeVars, Inductive, TypeOK
  <2>4. ASSUME NEW t \in Threads, Sweeps(t) \/ RegisterPushes(t) \/ RemoveErases(t)
        PROVE  Measured'
    BY <2>4, MeasuresOn DEF Sweeps, RegisterPushes, RemoveErases,
         LeaveList, Goto, scrapeVars, Inductive, TypeOK
  <2>5. ASSUME NEW w \in Workers, CollectReadsOwn(w) \/ ScrapeAnswers(w) \/ ScrapeCounts(w)
        PROVE  Measured'
    BY <2>5, ReadMeasures, AnswerMeasures, CountMeasures
  <2> QED BY <2>1, <2>2, <2>3, <2>4, <2>5 DEF Next, Continue
<1>3. Measured => ScrapesMeasured
  BY DEF Measured
<1> QED BY InductiveHolds, <1>1, <1>2, <1>3, PTL DEF Spec

=============================================================================
