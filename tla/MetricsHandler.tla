--------------------------- MODULE MetricsHandler ---------------------------
(***************************************************************************)
(* prometheus::detail::MetricsHandler and CollectMetrics: clients register *)
(* and remove collectables and let them die, while the worker threads of   *)
(* the HTTP server scrape.                                                 *)
(*                                                                         *)
(* The handler keeps weak_ptrs.  A collectable lives as long as its owner  *)
(* or a thread that has locked a weak_ptr to it holds a shared_ptr, so     *)
(* the number of shared_ptrs is a variable, and the last one may well be   *)
(* the one of a scrape.  The handler is itself exposed by a collectable    *)
(* (the registry of its Endpoint) that shows its own three metrics; these  *)
(* are updated after the mutex is free again, by every worker for itself.  *)
(***************************************************************************)
EXTENDS Integers, Sequences

CONSTANTS
  Clients,       \* the threads that register, remove and own collectables
  Workers,       \* the worker threads of the server
  NoThread,      \* the owner of a mutex nobody holds
  Collectables,  \* the objects clients register
  Own,           \* the registry of the endpoint: the handler's own metrics
  Null,          \* the shared_ptr that points to nothing
  MaxEntries,    \* bound: the length of the list
  MaxScrapes     \* bound: the number of scrapes

Threads == Clients \cup Workers
Objects == Collectables \cup {Own}

ASSUME HandlerThreads == NoThread \notin Threads /\ Clients \cap Workers = {}
ASSUME HandlerObjects == Own \notin Collectables /\ Null \notin Objects

VARIABLES
  collectables,  \* MetricsHandler::collectables_
  mutex,         \* MetricsHandler::collectables_mutex_: its owner
  strong,        \* the number of shared_ptrs to each object
  owned,         \* the collectables whose owner still holds them
  pc,            \* where each thread is
  arg,           \* the collectable a registration or removal is about
  held,          \* the shared_ptr a thread got from weak_ptr::lock
  todo,          \* the entries a thread has still to visit
  kept,          \* remove_if: the entries that stay
  shown,         \* CollectMetrics: whose metrics have been gathered
  own,           \* the values of the handler's metrics a scrape has read
  self,          \* the handler's metrics: how often each was updated
  uncounted,     \* the updates a scrape has still to make
  scrapes,       \* the number of scrapes that have begun
  due,           \* history: the collectables a scrape has to show
  may,           \* history: the collectables a scrape may show
  recent         \* history: what has expired since the last registration

listVars == <<collectables, mutex, kept, arg>>
heapVars == <<strong, owned>>
scrapeVars == <<shown, own, self, uncounted, scrapes>>
vars == <<collectables, mutex, strong, owned, pc, arg, held, todo, kept, shown,
          own, self, uncounted, scrapes, due, may, recent>>

-----------------------------------------------------------------------------
Expired(c) == strong[c] = 0
Entries == {collectables[i] : i \in DOMAIN collectables}
Exposed == {c \in Entries : ~ Expired(c)}

\* Registry::Collect shows the counters, in the order MetricsHandler registered
\* them, before the summary; handleGet updates the summary first.
CollectOrder == <<"bytes_transferred", "num_scrapes", "request_latencies">>
ScrapesFirst == <<"num_scrapes", "request_latencies", "bytes_transferred">>
UpdateOrder == <<"request_latencies", "bytes_transferred", "num_scrapes">>

OwnMetrics == {"bytes_transferred", "num_scrapes", "request_latencies"}

Goto(t, loc) == pc' = [pc EXCEPT ![t] = loc]

\* A collectable that is dead from the beginning stands for an empty weak_ptr.
Init ==
  /\ collectables = <<Own>>
  /\ mutex = NoThread
  /\ owned \in SUBSET Collectables
  /\ strong = [c \in Objects |-> IF c \in owned \cup {Own} THEN 1 ELSE 0]
  /\ pc = [t \in Threads |-> "idle"]
  /\ arg = [t \in Threads |-> Null]
  /\ held = [t \in Threads |-> Null]
  /\ todo = [t \in Threads |-> <<>>]
  /\ kept = [t \in Threads |-> <<>>]
  /\ shown = [w \in Workers |-> {}]
  /\ own = [w \in Workers |-> <<>>]
  /\ self = [m \in OwnMetrics |-> 0]
  /\ uncounted = [w \in Workers |-> <<>>]
  /\ scrapes = 0
  /\ due = [w \in Workers |-> {}]
  /\ may = [w \in Workers |-> {}]
  /\ recent = {}

-----------------------------------------------------------------------------
(* shared_ptrs come and go.                                                *)

\* weak_ptr::expired instead of lock.
AcquireNothing(t, c) ==
  /\ UNCHANGED strong
  /\ held' = [held EXCEPT ![t] = c]

Acquire(t, c) ==
  /\ strong' = [strong EXCEPT ![c] = @ + 1]
  /\ held' = [held EXCEPT ![t] = c]

\* The last shared_ptr destroys the object.
Release(c) ==
  /\ strong' = [strong EXCEPT ![c] = @ - 1]
  /\ due' = IF strong[c] = 1 THEN [w \in Workers |-> due[w] \ {c}] ELSE due
  /\ recent' = IF strong[c] = 1 THEN recent \cup {c} ELSE recent

OwnerDrops(c) ==
  /\ c \in owned
  /\ owned' = owned \ {c}
  /\ Release(c)
  /\ UNCHANGED <<listVars, pc, held, todo, scrapeVars, may>>

-----------------------------------------------------------------------------
(* RegisterCollectable and RemoveCollectable.  Both lock the mutex and     *)
(* sweep the list, one candidate after the other, since a candidate may    *)
(* expire in between.                                                      *)

RegisterLocks(t, c) ==
  /\ pc[t] = "idle" /\ mutex = NoThread
  /\ Len(collectables) < MaxEntries
  /\ mutex' = t
  /\ Goto(t, "register")
  /\ arg' = [arg EXCEPT ![t] = c]
  /\ todo' = [todo EXCEPT ![t] = collectables]
  /\ recent' = {}
  /\ UNCHANGED <<collectables, heapVars, held, kept, scrapeVars, due, may>>

\* collectable.lock() gives a shared_ptr only if there is an object left.
RemoveLocks(t, c) ==
  /\ pc[t] = "idle" /\ mutex = NoThread
  /\ mutex' = t
  /\ Goto(t, "remove")
  /\ arg' = [arg EXCEPT ![t] = c]
  /\ todo' = [todo EXCEPT ![t] = collectables]
  /\ IF Expired(c) THEN UNCHANGED <<strong, held>> ELSE Acquire(t, c)
  /\ UNCHANGED <<collectables, owned, kept, scrapeVars, due, may, recent>>

\* same_pointer: the pointers are locked, hence all expired ones are equal.
SamePointer(t, c) == IF held[t] = Null THEN Expired(c) ELSE c = held[t]

NothingStale(t, c) == pc[t] = "remove" /\ SamePointer(t, c)
Erased(t, c) == IF pc[t] = "register" THEN Expired(c) ELSE SamePointer(t, c)

Sweeps(t) ==
  /\ pc[t] \in {"register", "remove"} /\ todo[t] # <<>>
  /\ todo' = [todo EXCEPT ![t] = Tail(@)]
  /\ kept' = [kept EXCEPT ![t] =
                IF Erased(t, Head(todo[t])) THEN @ ELSE Append(@, Head(todo[t]))]
  /\ UNCHANGED <<collectables, mutex, arg, heapVars, pc, held, scrapeVars, due,
                 may, recent>>

LeaveList(t) ==
  /\ mutex' = NoThread
  /\ Goto(t, "idle")
  /\ arg' = [arg EXCEPT ![t] = Null]
  /\ kept' = [kept EXCEPT ![t] = <<>>]

RegisterPushes(t) ==
  /\ pc[t] = "register" /\ todo[t] = <<>>
  /\ collectables' = Append(kept[t], arg[t])
  /\ LeaveList(t)
  /\ recent' = IF Expired(arg[t]) THEN recent \cup {arg[t]} ELSE recent
  /\ UNCHANGED <<heapVars, held, todo, scrapeVars, due, may>>

RemoveErases(t) ==
  /\ pc[t] = "remove" /\ todo[t] = <<>>
  /\ collectables' = kept[t]
  /\ LeaveList(t)
  /\ held' = [held EXCEPT ![t] = Null]
  /\ IF held[t] = Null
       THEN UNCHANGED <<strong, due, recent>>
       ELSE Release(held[t])
  /\ UNCHANGED <<owned, todo, scrapeVars, may>>

-----------------------------------------------------------------------------
(* handleGet.                                                              *)

ScrapeLocks(w) ==
  /\ pc[w] = "idle" /\ mutex = NoThread
  /\ scrapes < MaxScrapes
  /\ scrapes' = scrapes + 1
  /\ mutex' = w
  /\ Goto(w, "visit")
  /\ todo' = [todo EXCEPT ![w] = collectables]
  /\ due' = [due EXCEPT ![w] = Exposed]
  /\ may' = [may EXCEPT ![w] = Exposed]
  /\ UNCHANGED <<collectables, kept, arg, heapVars, held, shown, own, self,
                 uncounted, recent>>

\* CollectMetrics, one entry: nothing is left of it, or it is locked, collected
\* and let go.
SkipsTheRest(w) == todo' = [todo EXCEPT ![w] = <<>>]
SkipsEntry(w) == todo' = [todo EXCEPT ![w] = Tail(@)]

VisitSkips(w) ==
  /\ pc[w] = "visit" /\ todo[w] # <<>>
  /\ Expired(Head(todo[w]))
  /\ SkipsEntry(w)
  /\ UNCHANGED <<listVars, heapVars, pc, held, scrapeVars, due, may, recent>>

VisitLocks(w) ==
  /\ pc[w] = "visit" /\ todo[w] # <<>>
  /\ ~ Expired(Head(todo[w]))
  /\ Acquire(w, Head(todo[w]))
  /\ Goto(w, "collect")
  /\ UNCHANGED <<listVars, owned, todo, scrapeVars, due, may, recent>>

\* Collect of the endpoint's own registry, metric by metric.
CollectReadsOwn(w) ==
  /\ pc[w] = "collect" /\ held[w] = Own
  /\ Len(own[w]) < Len(CollectOrder)
  /\ own' = [own EXCEPT ![w] = Append(@, self[CollectOrder[Len(@) + 1]])]
  /\ UNCHANGED <<listVars, heapVars, pc, held, todo, shown, self, uncounted,
                 scrapes, due, may, recent>>

CollectReturns(w) ==
  /\ pc[w] = "collect"
  /\ held[w] = Own => Len(own[w]) = Len(CollectOrder)
  /\ shown' = [shown EXCEPT ![w] = @ \cup {held[w]}]
  /\ Release(held[w])
  /\ held' = [held EXCEPT ![w] = Null]
  /\ todo' = [todo EXCEPT ![w] = Tail(@)]
  /\ Goto(w, "visit")
  /\ UNCHANGED <<listVars, owned, own, self, uncounted, scrapes, may>>

\* The lock_guard ends, the response is written.
ScrapeAnswers(w) ==
  /\ pc[w] = "visit" /\ todo[w] = <<>>
  /\ mutex' = NoThread
  /\ Goto(w, "count")
  /\ uncounted' = [uncounted EXCEPT ![w] = UpdateOrder]
  /\ due' = [due EXCEPT ![w] = {}]
  /\ may' = [may EXCEPT ![w] = {}]
  /\ UNCHANGED <<collectables, kept, arg, heapVars, held, todo, shown, own, self,
                 scrapes, recent>>

\* Observe and the two Increments, each of them atomic.
ScrapeCounts(w) ==
  /\ pc[w] = "count" /\ uncounted[w] # <<>>
  /\ self' = [self EXCEPT ![Head(uncounted[w])] = @ + 1]
  /\ uncounted' = [uncounted EXCEPT ![w] = Tail(@)]
  /\ UNCHANGED <<listVars, heapVars, pc, held, todo, shown, own, scrapes, due,
                 may, recent>>

ScrapeReturns(w) ==
  /\ pc[w] = "count" /\ uncounted[w] = <<>>
  /\ Goto(w, "idle")
  /\ shown' = [shown EXCEPT ![w] = {}]
  /\ own' = [own EXCEPT ![w] = <<>>]
  /\ UNCHANGED <<listVars, heapVars, held, todo, self, uncounted, scrapes, due,
                 may, recent>>

-----------------------------------------------------------------------------
\* What a thread inside a call does next.
Continue(t) ==
  \/ Sweeps(t) \/ RegisterPushes(t) \/ RemoveErases(t)
  \/ /\ t \in Workers
     /\ \/ VisitSkips(t) \/ VisitLocks(t) \/ CollectReadsOwn(t)
        \/ CollectReturns(t) \/ ScrapeAnswers(t) \/ ScrapeCounts(t)
        \/ ScrapeReturns(t)

Next ==
  \/ \E c \in Collectables :
       \/ OwnerDrops(c)
       \/ \E t \in Clients : RegisterLocks(t, c) \/ RemoveLocks(t, c)
  \/ \E w \in Workers : ScrapeLocks(w)
  \/ \E t \in Threads : Continue(t)

Spec == Init /\ [][Next]_vars

-----------------------------------------------------------------------------
(* Properties.                                                             *)

\* Every variable has its type; a reference count is a natural number: no thread
\* gives back a shared_ptr that it has not got from weak_ptr::lock.
TypeOK ==
  /\ collectables \in Seq(Objects)
  /\ mutex \in Threads \cup {NoThread}
  /\ owned \subseteq Collectables
  /\ strong \in [Objects -> Nat]
  /\ pc \in [Threads -> {"idle", "register", "remove", "visit", "collect", "count"}]
  /\ arg \in [Threads -> Collectables \cup {Null}]
  /\ held \in [Threads -> Objects \cup {Null}]
  /\ todo \in [Threads -> Seq(Objects)]
  /\ kept \in [Threads -> Seq(Objects)]
  /\ shown \in [Workers -> SUBSET Objects]
  /\ own \in [Workers -> Seq(Nat)]
  /\ self \in [OwnMetrics -> Nat]
  /\ uncounted \in [Workers -> Seq(OwnMetrics)]
  /\ scrapes \in Nat
  /\ due \in [Workers -> SUBSET Objects]
  /\ may \in [Workers -> SUBSET Objects]
  /\ recent \subseteq Objects

\* CollectMetrics never calls Collect of a destroyed object, though owners let
\* go of their collectables at any moment, even in the middle of that call.
CollectsAlive ==
  \A w \in Workers : pc[w] = "collect" => ~ Expired(held[w])

\* In what a scrape shows, exposer_scrapes_total never exceeds the number of
\* observed latencies: handleGet observes the latency before it counts the
\* scrape, and Registry::Collect reads the counters before the summaries.
ScrapesMeasured ==
  \A w \in Workers : Len(own[w]) = 3 => own[w][2] <= own[w][3]

\* CleanupStalePointers keeps the list from growing with the dead: an entry that
\* has expired did so after the last registration began.
StaleBounded ==
  (\A t \in Threads : pc[t] # "register") =>
    \A c \in Entries : Expired(c) => c \in recent

\* What the response of a scrape has shown.
Answers == [w \in Workers |-> IF pc[w] = "count" THEN shown[w] ELSE {}]

\* MetricsHandler is a set of live collectables: a removal, of an expired pointer
\* too, loses nothing but what it names, and a scrape shows what is there.
Promise == INSTANCE CollectableSet WITH
  Collectables <- Objects,
  exposed <- Exposed, answer <- Answers
RefinesCollectableSet == Promise!SetSpec

=============================================================================
