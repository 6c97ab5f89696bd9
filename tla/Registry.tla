------------------------------ MODULE Registry ------------------------------
(***************************************************************************)
(* prometheus::Registry and prometheus::Family<T>: threads that register   *)
(* and remove families, add and remove the metrics of a family, and scrape *)
(* the registry, all at the same time.                                     *)
(*                                                                         *)
(* A family and a metric are heap objects.  The registry holds one vector  *)
(* of families per metric type; a family holds a map from label sets to    *)
(* metrics.  registry.cc guards the vectors with one mutex, family.cc      *)
(* guards each map with a mutex of its own, and Registry::Collect takes    *)
(* the second kind while it holds the first.  The steps below are the      *)
(* pieces of the methods between which another thread may run; a piece     *)
(* that touches nothing another thread can see before the lock is free     *)
(* again is one step.                                                      *)
(***************************************************************************)
EXTENDS Naturals, Sequences, FiniteSets

CONSTANTS
  Threads,            \* the threads that use the registry
  NoThread,           \* the owner of a mutex nobody holds
  Null,               \* no object
  FamilyAddrs,        \* the addresses the allocator has for Family objects
  MetricAddrs,        \* the addresses the allocator has for metric objects
  FamilySpecs,        \* what a client asks Builder::Register for
  LabelMaps,          \* the label sets a client passes to Family::Add
  InvalidNames,       \* metric names that CheckMetricName rejects
  InvalidLabelNames,  \* label names that CheckLabelName rejects for any type
  InsertBehavior      \* Registry::InsertBehavior: "Merge" or "Throw"

MetricTypes == {"Counter", "Gauge", "Histogram", "Info", "Summary"}

ASSUME ThreadsAssumption == NoThread \notin Threads
ASSUME AddrsAssumption == Null \notin FamilyAddrs /\ Null \notin MetricAddrs
ASSUME SpecsAssumption == \A s \in FamilySpecs : s.type \in MetricTypes
ASSUME SpecsAreRecords ==
  \A s \in FamilySpecs :
    s = [type |-> s.type, name |-> s.name, labels |-> s.labels]
ASSUME LabelsAreMaps == \A l \in LabelMaps : l = [n \in DOMAIN l |-> l[n]]
ASSUME NullAssumption == Null \notin FamilySpecs
ASSUME BehaviorAssumption == InsertBehavior \in {"Merge", "Throw"}

VARIABLES
  families,  \* counters_, gauges_, histograms_, infos_ and summaries_
  mutex,     \* Registry::mutex_: its owner
  family,    \* the live Family objects: what each was constructed with
  metrics,   \* Family::metrics_ of each Family object
  fmutex,    \* Family::mutex_ of each Family object: its owner
  pc,        \* where each thread is
  req,       \* Registry::Add: the arguments of the call in progress
  key,       \* Family::Add: the labels of the call in progress
  handle,    \* the Family& a thread got from Builder::Register, and for what
  todo,      \* Registry::Collect: the families still to be collected
  left,      \* Family::Collect: the entries of metrics_ still to be visited
  result,    \* Registry::Collect: the samples gathered so far
  due        \* history: the series this scrape has to return

registryVars == <<families, mutex>>
familyVars == <<family, metrics, fmutex>>
collectVars == <<todo, left, result, due>>
vars == <<families, mutex, family, metrics, fmutex, pc, req, key, handle,
          todo, left, result, due>>

-----------------------------------------------------------------------------
(* Names and labels.                                                       *)

CheckLabelName(n, type) ==
  /\ n \notin InvalidLabelNames
  /\ ~ (type = "Histogram" /\ n = "le")
  /\ ~ (type = "Summary" /\ n = "quantile")

\* The checks of Family's constructor.
ChecksLabelsOnly(s) ==
  \A n \in DOMAIN s.labels : CheckLabelName(n, s.type)
ValidSpec(s) ==
  /\ s.name \notin InvalidNames
  /\ \A n \in DOMAIN s.labels : CheckLabelName(n, s.type)

\* The checks of Family::Add for the labels l of a metric of family f.
AllowsDuplicates(f, l) ==
  \A n \in DOMAIN l : CheckLabelName(n, family[f].type)
ValidLabels(f, l) ==
  \A n \in DOMAIN l :
    /\ CheckLabelName(n, family[f].type)
    /\ n \notin DOMAIN family[f].labels

\* CollectMetric: the constant labels followed by those of the metric.
Joined(c, l) ==
  [n \in DOMAIN c \cup DOMAIN l |-> IF n \in DOMAIN c THEN c[n] ELSE l[n]]
AllLabels(f, l) == Joined(family[f].labels, l)

Sample(f, l) ==
  [name |-> family[f].name, type |-> family[f].type,
   labels |-> AllLabels(f, l), metric |-> metrics[f][l]]

Stored(f) == {l \in LabelMaps : metrics[f][l] # Null}

-----------------------------------------------------------------------------
(* The five vectors.                                                       *)

\* std::vector::erase.
Erase(s, i) == [j \in 1 .. Len(s) - 1 |-> IF j < i THEN s[j] ELSE s[j + 1]]

InVector(f, type) == \E i \in DOMAIN families[type] : families[type][i] = f

Registered(f) == \E type \in MetricTypes : InVector(f, type)

\* The order in which Registry::Collect walks the vectors.
ForgetsSummaryVector ==
  families["Counter"] \o families["Gauge"] \o families["Histogram"]
    \o families["Info"]
CollectOrder ==
  families["Counter"] \o families["Gauge"] \o families["Histogram"]
    \o families["Info"] \o families["Summary"]

NameInType(name, type) ==
  \E f \in FamilyAddrs : InVector(f, type) /\ family[f].name = name

NameExistsInOtherType(s) ==
  \E type \in MetricTypes \ {s.type} : NameInType(s.name, type)

\* The family that Registry::Add finds under the requested name and type.
SameName(f, s) == InVector(f, s.type) /\ family[f].name = s.name

\* Only Merge hands out an existing family, and only for equal labels.
MergesAnyLabels(f, s) == InsertBehavior = "Merge"
MergesInAnyMode(f, s) == family[f].labels = s.labels
Merges(f, s) == InsertBehavior = "Merge" /\ family[f].labels = s.labels

-----------------------------------------------------------------------------
Init ==
  /\ families = [type \in MetricTypes |-> <<>>]
  /\ mutex = NoThread
  /\ family = [f \in FamilyAddrs |-> Null]
  /\ metrics = [f \in FamilyAddrs |-> [l \in LabelMaps |-> Null]]
  /\ fmutex = [f \in FamilyAddrs |-> NoThread]
  /\ pc = [t \in Threads |-> "idle"]
  /\ req = [t \in Threads |-> Null]
  /\ key = [t \in Threads |-> Null]
  /\ handle = [t \in Threads |-> Null]
  /\ todo = [t \in Threads |-> <<>>]
  /\ left = [t \in Threads |-> {}]
  /\ result = [t \in Threads |-> {}]
  /\ due = [t \in Threads |-> {}]

Goto(t, loc) == pc' = [pc EXCEPT ![t] = loc]

\* std::lock_guard<std::mutex> lock{mutex_}: in Registry's methods, and in
\* Family's.  (Unguarded is the bug of leaving it out.)
Unguarded == TRUE
UnguardedFamily(f) == TRUE
AddLocks == mutex = NoThread
RemoveLocks == mutex = NoThread
CollectLocks == mutex = NoThread
FamilyAddLocks(f) == fmutex[f] = NoThread
FamilyRemoveLocks(f) == fmutex[f] = NoThread
FamilyCollectLocks(f) == fmutex[f] = NoThread

\* The lock_guard of a Family method releases the mutex, after an exception too.
StaysLocked(f) == UNCHANGED fmutex
UnlockFamily(f) == fmutex' = [fmutex EXCEPT ![f] = NoThread]

-----------------------------------------------------------------------------
(* Registry::Add, called by detail::Builder::Register.                     *)

\* The name is taken by a family of another type, by a family of this type in
\* a registry that throws, or by one with other constant labels: the call
\* throws and leaves everything as it was.
RegistryAddRejects(t, s) ==
  /\ pc[t] = "idle" /\ AddLocks
  /\ \/ NameExistsInOtherType(s)
     \/ \E f \in FamilyAddrs : SameName(f, s) /\ ~ Merges(f, s)
  /\ UNCHANGED vars

RegistryAddMerges(t, s) ==
  /\ pc[t] = "idle" /\ AddLocks
  /\ ~ NameExistsInOtherType(s)
  /\ \E f \in FamilyAddrs :
       /\ SameName(f, s) /\ Merges(f, s)
       /\ handle' = [handle EXCEPT ![t] = [addr |-> f, for |-> s]]
  /\ UNCHANGED <<registryVars, familyVars, pc, req, key, collectVars>>

\* Nothing of this name: go on, with the mutex, to construct the family.  The
\* heap is bounded by FamilyAddrs.
RegistryAddFinds(t, s) ==
  /\ pc[t] = "idle" /\ AddLocks
  /\ ~ NameExistsInOtherType(s)
  /\ ~ \E f \in FamilyAddrs : SameName(f, s)
  /\ \E f \in FamilyAddrs : family[f] = Null
  /\ mutex' = t
  /\ Goto(t, "construct")
  /\ req' = [req EXCEPT ![t] = s]
  /\ UNCHANGED <<families, familyVars, key, handle, collectVars>>

\* make_unique<Family<T>> and push_back; the constructor throws for an invalid
\* name, which unlocks the mutex as well.
RegistryAddPushes(t) ==
  /\ pc[t] = "construct"
  /\ \/ /\ ~ ValidSpec(req[t])
        /\ UNCHANGED <<families, familyVars, handle>>
     \/ \E f \in FamilyAddrs :
          /\ ValidSpec(req[t])
          /\ family[f] = Null
          /\ family' = [family EXCEPT ![f] = req[t]]
          /\ families' = [families EXCEPT ![req[t].type] = Append(@, f)]
          /\ handle' = [handle EXCEPT ![t] = [addr |-> f, for |-> req[t]]]
          /\ UNCHANGED <<metrics, fmutex>>
  /\ mutex' = NoThread
  /\ req' = [req EXCEPT ![t] = Null]
  /\ Goto(t, "idle")
  /\ UNCHANGED <<key, collectVars>>

-----------------------------------------------------------------------------
(* Registry::Remove: find by address, erase.  The family is destroyed, and *)
(* its metrics with it; registry.h tells the clients to forget the         *)
(* references they had, so nobody may be in a call on the family.          *)

NotInUse(f) == \A u \in Threads : pc[u] = "validate" => handle[u].addr # f

RegistryRemoves(t, f) ==
  /\ pc[t] = "idle" /\ RemoveLocks
  /\ NotInUse(f)
  /\ \E type \in MetricTypes : \E i \in DOMAIN families[type] :
       /\ families[type][i] = f
       /\ families' = [families EXCEPT ![type] = Erase(@, i)]
  /\ family' = [family EXCEPT ![f] = Null]
  /\ metrics' = [metrics EXCEPT ![f] = [l \in LabelMaps |-> Null]]
  /\ handle' = [u \in Threads |->
                  IF handle[u] # Null /\ handle[u].addr = f
                    THEN Null ELSE handle[u]]
  /\ UNCHANGED <<mutex, fmutex, pc, req, key, collectVars>>

\* A family of another registry, or one removed before: returns false.
RegistryRemovesNothing(t, f) ==
  /\ pc[t] = "idle" /\ RemoveLocks
  /\ ~ Registered(f)
  /\ UNCHANGED vars

-----------------------------------------------------------------------------
(* Family::Add and Family::Remove, through the reference a thread holds.   *)

Fresh(m) == \A f \in FamilyAddrs, l \in LabelMaps : metrics[f][l] # m

\* emplace does nothing when the labels are there already.
Overwrites(f, l) == FALSE
Exists(f, l) == metrics[f][l] # Null

FamilyAddFindsExisting(t, l) ==
  /\ pc[t] = "idle" /\ handle[t] # Null
  /\ FamilyAddLocks(handle[t].addr)
  /\ Exists(handle[t].addr, l)
  /\ UNCHANGED vars

FamilyAddEmplaces(t, l) ==
  /\ pc[t] = "idle" /\ handle[t] # Null
  /\ FamilyAddLocks(handle[t].addr)
  /\ ~ Exists(handle[t].addr, l)
  /\ \E m \in MetricAddrs :
       Fresh(m) /\ metrics' = [metrics EXCEPT ![handle[t].addr][l] = m]
  /\ fmutex' = [fmutex EXCEPT ![handle[t].addr] = t]
  /\ Goto(t, "validate")
  /\ key' = [key EXCEPT ![t] = l]
  /\ UNCHANGED <<registryVars, family, req, handle, collectVars>>

\* The labels are checked after the insertion; a bad one takes it back and
\* throws.
FamilyAddValidates(t) ==
  /\ pc[t] = "validate"
  /\ metrics' = IF ValidLabels(handle[t].addr, key[t])
                  THEN metrics
                  ELSE [metrics EXCEPT ![handle[t].addr][key[t]] = Null]
  /\ UnlockFamily(handle[t].addr)
  /\ Goto(t, "idle")
  /\ key' = [key EXCEPT ![t] = Null]
  /\ UNCHANGED <<registryVars, family, req, handle, collectVars>>

\* Finds the metric by its address and erases it; does nothing for an address
\* the family does not hold.
FamilyRemoves(t, m) ==
  /\ pc[t] = "idle" /\ handle[t] # Null
  /\ FamilyRemoveLocks(handle[t].addr)
  /\ LET f == handle[t].addr
         gone == {l \in LabelMaps : metrics[f][l] = m} IN
       /\ metrics' = [metrics EXCEPT ![f] =
                        [l \in LabelMaps |-> IF l \in gone THEN Null ELSE @[l]]]
       /\ due' = [u \in Threads |-> due[u] \ {Sample(f, l) : l \in gone}]
  /\ UNCHANGED <<registryVars, family, fmutex, pc, req, key, handle,
                 todo, left, result>>

-----------------------------------------------------------------------------
(* Registry::Collect: under the registry's mutex one family after the      *)
(* other, each under its own mutex, metric by metric in whatever order the *)
(* unordered_map has.                                                      *)

CollectBegins(t) ==
  /\ pc[t] = "idle" /\ CollectLocks
  /\ mutex' = t
  /\ Goto(t, "families")
  /\ todo' = [todo EXCEPT ![t] = CollectOrder]
  /\ due' = [due EXCEPT ![t] =
               {Sample(fl[1], fl[2]) : fl \in
                 {gl \in FamilyAddrs \X LabelMaps :
                    /\ Registered(gl[1]) /\ gl[2] \in Stored(gl[1])
                    /\ ValidLabels(gl[1], gl[2])}}]
  /\ UNCHANGED <<families, familyVars, req, key, handle, left, result>>

CollectLocksFamily(t) ==
  /\ pc[t] = "families" /\ todo[t] # <<>>
  /\ FamilyCollectLocks(Head(todo[t]))
  /\ fmutex' = [fmutex EXCEPT ![Head(todo[t])] = t]
  /\ left' = [left EXCEPT ![t] = Stored(Head(todo[t]))]
  /\ Goto(t, "metrics")
  /\ UNCHANGED <<registryVars, family, metrics, req, key, handle, todo, result,
                 due>>

CollectMetric(t) ==
  /\ pc[t] = "metrics"
  /\ \E l \in left[t] :
       /\ left' = [left EXCEPT ![t] = @ \ {l}]
       /\ result' = [result EXCEPT ![t] = @ \cup {Sample(Head(todo[t]), l)}]
  /\ UNCHANGED <<registryVars, familyVars, pc, req, key, handle, todo, due>>

CollectUnlocksFamily(t) ==
  /\ pc[t] = "metrics" /\ left[t] = {}
  /\ UnlockFamily(Head(todo[t]))
  /\ todo' = [todo EXCEPT ![t] = Tail(@)]
  /\ Goto(t, "families")
  /\ UNCHANGED <<registryVars, family, metrics, req, key, handle, left, result,
                 due>>

CollectEnds(t) ==
  /\ pc[t] = "families" /\ todo[t] = <<>>
  /\ mutex' = NoThread
  /\ Goto(t, "idle")
  /\ result' = [result EXCEPT ![t] = {}]
  /\ due' = [due EXCEPT ![t] = {}]
  /\ UNCHANGED <<families, familyVars, req, key, handle, todo, left>>

-----------------------------------------------------------------------------
\* What a thread does once it holds the last lock it needs.
Continue(t) ==
  \/ RegistryAddPushes(t)
  \/ FamilyAddValidates(t)
  \/ CollectMetric(t)
  \/ CollectUnlocksFamily(t)
  \/ CollectEnds(t)

Call(t) ==
  \/ \E s \in FamilySpecs :
       RegistryAddRejects(t, s) \/ RegistryAddMerges(t, s) \/ RegistryAddFinds(t, s)
  \/ \E f \in FamilyAddrs :
       RegistryRemoves(t, f) \/ RegistryRemovesNothing(t, f)
  \/ \E l \in LabelMaps :
       FamilyAddFindsExisting(t, l) \/ FamilyAddEmplaces(t, l)
  \/ \E m \in MetricAddrs : FamilyRemoves(t, m)
  \/ CollectBegins(t)

Next == \E t \in Threads : Call(t) \/ CollectLocksFamily(t) \/ Continue(t)

Spec == Init /\ [][Next]_vars

\* A thread that runs is scheduled again, and a thread that waits for the mutex
\* of a family gets it if it is free again and again.
FairSpec ==
  /\ Spec
  /\ \A t \in Threads :
       WF_vars(Continue(t)) /\ SF_vars(CollectLocksFamily(t))

-----------------------------------------------------------------------------
(* Properties.                                                             *)

Locations == {"idle", "construct", "validate", "families", "metrics"}
Handles == [addr : FamilyAddrs, for : FamilySpecs]
ValidSpecs ==
  {s \in FamilySpecs :
    /\ s.name \notin InvalidNames
    /\ \A n \in DOMAIN s.labels : CheckLabelName(n, s.type)}
Samples ==
  [name : {s.name : s \in FamilySpecs}, type : MetricTypes,
   labels : {Joined(s.labels, l) : s \in FamilySpecs, l \in LabelMaps},
   metric : MetricAddrs]

\* The state of the registry, its families and the calls in progress.
Types ==
  /\ families \in [MetricTypes -> Seq(FamilyAddrs)]
  /\ mutex \in Threads \cup {NoThread}
  /\ family \in [FamilyAddrs -> ValidSpecs \cup {Null}]
  /\ metrics \in [FamilyAddrs -> [LabelMaps -> MetricAddrs \cup {Null}]]
  /\ fmutex \in [FamilyAddrs -> Threads \cup {NoThread}]
  /\ pc \in [Threads -> Locations]
  /\ req \in [Threads -> FamilySpecs \cup {Null}]
  /\ key \in [Threads -> LabelMaps \cup {Null}]
  /\ handle \in [Threads -> Handles \cup {Null}]
  /\ todo \in [Threads -> Seq(FamilyAddrs)]
  /\ left \in [Threads -> SUBSET LabelMaps]

\* An address without a family has no metrics, and its mutex has no owner.
EmptyOwnNothing ==
  \A f \in FamilyAddrs : family[f] = Null => Stored(f) = {} /\ fmutex[f] = NoThread

\* Every variable has its type, the samples of a scrape included; a family that
\* exists passed all checks of its constructor (Family::Family: the name, and each
\* constant label for the type of the family), and when it is destroyed nothing
\* of it stays behind at its address: no metric, and nobody has its mutex.
TypeOK ==
  /\ Types
  /\ EmptyOwnNothing
  /\ result \in [Threads -> SUBSET Samples]
  /\ due \in [Threads -> SUBSET Samples]

\* No two families of the registry, of whatever types, have the same name: the
\* search and the insertion of Registry::Add are one critical section.
NamesUnique ==
  \A u, v \in MetricTypes :
    \A i \in DOMAIN families[u], j \in DOMAIN families[v] :
      family[families[u][i]].name = family[families[v][j]].name
        => u = v /\ i = j

\* The reference Registry::Add returned, new or merged, is a family that is in
\* the registry and has the type, the name and the constant labels asked for,
\* until it is removed.
HandlesDesignate ==
  \A t \in Threads : handle[t] # Null =>
    /\ InVector(handle[t].addr, handle[t].for.type)
    /\ family[handle[t].addr] = handle[t].for

\* A registry that throws for a name it knows (InsertBehavior::Throw) never gives
\* the same family to two callers.
NeverSharedIfThrow ==
  \A t, u \in Threads :
    /\ InsertBehavior = "Throw"
    /\ handle[t] # Null /\ handle[u] # Null
    /\ handle[t].addr = handle[u].addr
    => t = u

\* What Registry::Collect and Family::Collect iterate over does not change under
\* them: the vectors still hold, in this order, the families that are left, and
\* the map the entries that are left.
VectorsValid ==
  \A t \in Threads : pc[t] \in {"families", "metrics"} =>
    \E k \in 0 .. Len(CollectOrder) :
      todo[t] = SubSeq(CollectOrder, k + 1, Len(CollectOrder))
EntriesValid ==
  \A t \in Threads : pc[t] = "metrics" => left[t] \subseteq Stored(Head(todo[t]))
IteratorsValid == VectorsValid /\ EntriesValid

\* A scrape never shows a metric name or a label name that the checks reject,
\* though Family::Add inserts first and checks afterwards.
CollectedValid ==
  \A t \in Threads : \A s \in result[t] :
    /\ s.name \notin InvalidNames
    /\ \A n \in DOMAIN s.labels : CheckLabelName(n, s.type)

\* "Every metric is uniquely identified by its name and a set of key-value
\* pairs" (family.h): no scrape has two samples with equal name and labels.
SeriesUnique ==
  \A t \in Threads : \A r, s \in result[t] :
    r.name = s.name /\ r.labels = s.labels => r = s

\* A metric that was there when Registry::Collect took the mutex and was not
\* removed since is in what the call returns.
NoSeriesMissed ==
  \A t \in Threads :
    pc[t] = "families" /\ todo[t] = <<>> => due[t] \subseteq result[t]

\* A reference that Family::Add returned stays the metric of its labels until it
\* is removed: adding the same labels again never replaces the object.
MetricsStable ==
  [][\A f \in FamilyAddrs, l \in LabelMaps :
       metrics[f][l] # Null => metrics'[f][l] \in {metrics[f][l], Null}]_vars

\* A call that took a lock comes back: no thread keeps a mutex for good, and the
\* two kinds of mutex are never waited for in a circle.
EveryCallReturns ==
  \A t \in Threads : pc[t] # "idle" ~> pc[t] = "idle"

-----------------------------------------------------------------------------
(* What makes the invariants inductive.                                    *)

\* A thread inside a critical section owns the mutex of that section.
LockOwners ==
  \A t \in Threads :
    /\ pc[t] \in {"construct", "families", "metrics"} => mutex = t
    /\ pc[t] = "construct" => req[t] \in FamilySpecs
    /\ pc[t] = "validate" =>
         /\ handle[t] \in Handles /\ key[t] \in LabelMaps
         /\ fmutex[handle[t].addr] = t
    /\ pc[t] = "metrics" =>
         /\ todo[t] # <<>>
         /\ fmutex[Head(todo[t])] = t

\* The vectors hold live families of their own type, and none has the name that
\* a Registry::Add in progress looked for.
Contents ==
  /\ \A type \in MetricTypes : \A i \in DOMAIN families[type] :
       /\ family[families[type][i]] \in FamilySpecs
       /\ family[families[type][i]].type = type
  /\ \A t \in Threads : pc[t] = "construct" =>
       \A type \in MetricTypes : ~ NameInType(req[t].name, type)

=============================================================================
