--------------------------- MODULE RegistryProofs ---------------------------
(***************************************************************************)
(* Theorems about Registry, for any number of threads, families, metrics,  *)
(* names and labels.                                                       *)
(***************************************************************************)
EXTENDS Registry, SequenceTheorems, TLAPS

USE ThreadsAssumption, AddrsAssumption, SpecsAssumption, NullAssumption

-----------------------------------------------------------------------------
(* Erase(s, i) is s without its i-th element.                              *)

\* std::vector::erase keeps the type and shortens the vector by one.
LEMMA EraseType ==
  ASSUME NEW S, NEW s \in Seq(S), NEW i \in DOMAIN s
  PROVE  /\ Erase(s, i) \in Seq(S)
         /\ Len(Erase(s, i)) = Len(s) - 1
<1>1. Len(s) - 1 \in Nat
  BY LenProperties
<1>2. \A j \in 1 .. Len(s) - 1 : j \in DOMAIN s /\ j + 1 \in DOMAIN s
  BY LenProperties
<1>3. \A j \in 1 .. Len(s) - 1 : Erase(s, i)[j] \in S
  BY <1>2, ElementOfSeq DEF Erase
<1>4. Erase(s, i) \in [1 .. Len(s) - 1 -> S]
  BY <1>3 DEF Erase
<1>5. Erase(s, i) \in Seq(S)
  BY <1>1, <1>4, SeqDef
<1> QED
  BY <1>1, <1>4, <1>5, LenProperties

\* Each element left was an element at the same index or the next one.
LEMMA EraseElements ==
  ASSUME NEW S, NEW s \in Seq(S), NEW i \in DOMAIN s, NEW j \in DOMAIN Erase(s, i)
  PROVE  IF j < i THEN j \in DOMAIN s /\ Erase(s, i)[j] = s[j]
                  ELSE j + 1 \in DOMAIN s /\ Erase(s, i)[j] = s[j + 1]
BY LenProperties DEF Erase

\* Every element at another index is still there.
LEMMA EraseKeeps ==
  ASSUME NEW S, NEW s \in Seq(S), NEW i \in DOMAIN s, NEW j \in DOMAIN s, j # i
  PROVE  \E k \in DOMAIN Erase(s, i) : Erase(s, i)[k] = s[j]
<1>1. CASE j < i
  <2>1. j \in DOMAIN Erase(s, i) /\ Erase(s, i)[j] = s[j]
    BY <1>1, LenProperties DEF Erase
  <2> QED BY <2>1
<1>2. CASE j > i
  <2>1. j - 1 \in DOMAIN Erase(s, i) /\ Erase(s, i)[j - 1] = s[j]
    BY <1>2, LenProperties DEF Erase
  <2> QED BY <2>1
<1> QED BY <1>1, <1>2, LenProperties

-----------------------------------------------------------------------------
(* Types.                                                                  *)

\* The families Registry::Collect walks through are those of the vectors.
LEMMA CollectOrderType ==
  ASSUME families \in [MetricTypes -> Seq(FamilyAddrs)]
  PROVE  CollectOrder \in Seq(FamilyAddrs)
BY ConcatProperties DEF CollectOrder, MetricTypes

\* Every step preserves the types, given that threads own the mutexes they need.
LEMMA TypeStep ==
  ASSUME Types, LockOwners, [Next]_vars
  PROVE  Types'
<1> USE DEF Types, Goto, Locations, registryVars, familyVars, collectVars
<1>1. CASE UNCHANGED vars
  BY <1>1 DEF vars
<1>2. ASSUME NEW t \in Threads, NEW s \in FamilySpecs, RegistryAddRejects(t, s)
      PROVE  Types'
  BY <1>2 DEF RegistryAddRejects, vars
<1>3. ASSUME NEW t \in Threads, NEW s \in FamilySpecs, RegistryAddMerges(t, s)
      PROVE  Types'
  BY <1>3 DEF RegistryAddMerges, Handles
<1>4. ASSUME NEW t \in Threads, NEW s \in FamilySpecs, RegistryAddFinds(t, s)
      PROVE  Types'
  BY <1>4 DEF RegistryAddFinds
<1>5. ASSUME NEW t \in Threads, RegistryAddPushes(t)
      PROVE  Types'
  <2>1. CASE ~ ValidSpec(req[t]) /\ UNCHANGED <<families, familyVars, handle>>
    BY <1>5, <2>1 DEF RegistryAddPushes
  <2>2. ASSUME NEW f \in FamilyAddrs, ValidSpec(req[t]), req[t] \in FamilySpecs,
               family' = [family EXCEPT ![f] = req[t]],
               families' = [families EXCEPT ![req[t].type] = Append(@, f)],
               handle' = [handle EXCEPT ![t] = [addr |-> f, for |-> req[t]]],
               UNCHANGED <<metrics, fmutex>>
        PROVE  Types'
    <3>1. req[t].type \in MetricTypes
      BY <2>2
    <3>2. families' \in [MetricTypes -> Seq(FamilyAddrs)]
      BY <2>2, <3>1, AppendProperties
    <3>3. family' \in [FamilyAddrs -> ValidSpecs \cup {Null}]
      BY <2>2 DEF ValidSpecs, ValidSpec, CheckLabelName
    <3>4. handle' \in [Threads -> Handles \cup {Null}]
      BY <2>2 DEF Handles
    <3> QED BY <1>5, <2>2, <3>2, <3>3, <3>4 DEF RegistryAddPushes
  <2>3. req[t] \in FamilySpecs
    BY <1>5 DEF RegistryAddPushes, LockOwners
  <2> QED BY <1>5, <2>1, <2>2, <2>3 DEF RegistryAddPushes
<1>6. ASSUME NEW t \in Threads, NEW f \in FamilyAddrs, RegistryRemoves(t, f)
      PROVE  Types'
  <2>1. families' \in [MetricTypes -> Seq(FamilyAddrs)]
    BY <1>6, EraseType DEF RegistryRemoves
  <2> QED BY <1>6, <2>1 DEF RegistryRemoves
<1>7. ASSUME NEW t \in Threads, NEW f \in FamilyAddrs, RegistryRemovesNothing(t, f)
      PROVE  Types'
  BY <1>7 DEF RegistryRemovesNothing, vars
<1>8. ASSUME NEW t \in Threads, NEW l \in LabelMaps, FamilyAddFindsExisting(t, l)
      PROVE  Types'
  BY <1>8 DEF FamilyAddFindsExisting, vars
<1>9. ASSUME NEW t \in Threads, NEW l \in LabelMaps, FamilyAddEmplaces(t, l)
      PROVE  Types'
  BY <1>9 DEF FamilyAddEmplaces, Handles
<1>10. ASSUME NEW t \in Threads, FamilyAddValidates(t)
       PROVE  Types'
  BY <1>10 DEF FamilyAddValidates, UnlockFamily
<1>11. ASSUME NEW t \in Threads, NEW m \in MetricAddrs, FamilyRemoves(t, m)
       PROVE  Types'
  BY <1>11 DEF FamilyRemoves, Handles
<1>12. ASSUME NEW t \in Threads, CollectBegins(t)
       PROVE  Types'
  BY <1>12, CollectOrderType DEF CollectBegins
<1>13. ASSUME NEW t \in Threads, CollectLocksFamily(t)
       PROVE  Types'
  <2>1. Head(todo[t]) \in FamilyAddrs
    BY <1>13, HeadTailProperties DEF CollectLocksFamily
  <2>2. Stored(Head(todo[t])) \subseteq LabelMaps
    BY DEF Stored
  <2> QED BY <1>13, <2>1, <2>2 DEF CollectLocksFamily
<1>14. ASSUME NEW t \in Threads, CollectMetric(t)
       PROVE  Types'
  BY <1>14 DEF CollectMetric
<1>15. ASSUME NEW t \in Threads, CollectUnlocksFamily(t)
       PROVE  Types'
  BY <1>15, HeadTailProperties DEF CollectUnlocksFamily, UnlockFamily, LockOwners
<1>16. ASSUME NEW t \in Threads, CollectEnds(t)
       PROVE  Types'
  BY <1>16 DEF CollectEnds
<1> QED
  BY <1>1, <1>2, <1>3, <1>4, <1>5, <1>6, <1>7, <1>8, <1>9, <1>10, <1>11,
     <1>12, <1>13, <1>14, <1>15, <1>16 DEF Next, Call, Continue

\* Every step keeps the mutexes with the threads that are in a critical section.
LEMMA LockStep ==
  ASSUME Types, LockOwners, [Next]_vars
  PROVE  LockOwners'
<1> USE DEF Types, LockOwners, Goto, Locations, registryVars, familyVars, collectVars
<1>1. CASE UNCHANGED vars
  BY <1>1 DEF vars
<1>2. ASSUME NEW t \in Threads, NEW s \in FamilySpecs, RegistryAddRejects(t, s)
      PROVE  LockOwners'
  BY <1>2 DEF RegistryAddRejects, vars
<1>3. ASSUME NEW t \in Threads, NEW s \in FamilySpecs, RegistryAddMerges(t, s)
      PROVE  LockOwners'
  BY <1>3 DEF RegistryAddMerges
<1>4. ASSUME NEW t \in Threads, NEW s \in FamilySpecs, RegistryAddFinds(t, s)
      PROVE  LockOwners'
  BY <1>4 DEF RegistryAddFinds, AddLocks
<1>5. ASSUME NEW t \in Threads, RegistryAddPushes(t)
      PROVE  LockOwners'
  BY <1>5 DEF RegistryAddPushes
<1>6. ASSUME NEW t \in Threads, NEW f \in FamilyAddrs, RegistryRemoves(t, f)
      PROVE  LockOwners'
  BY <1>6 DEF RegistryRemoves, RemoveLocks, NotInUse
<1>7. ASSUME NEW t \in Threads, NEW f \in FamilyAddrs, RegistryRemovesNothing(t, f)
      PROVE  LockOwners'
  BY <1>7 DEF RegistryRemovesNothing, vars
<1>8. ASSUME NEW t \in Threads, NEW l \in LabelMaps, FamilyAddFindsExisting(t, l)
      PROVE  LockOwners'
  BY <1>8 DEF FamilyAddFindsExisting, vars
<1>9. ASSUME NEW t \in Threads, NEW l \in LabelMaps, FamilyAddEmplaces(t, l)
      PROVE  LockOwners'
  BY <1>9 DEF FamilyAddEmplaces, FamilyAddLocks, Handles
<1>10. ASSUME NEW t \in Threads, FamilyAddValidates(t)
       PROVE  LockOwners'
  BY <1>10 DEF FamilyAddValidates, UnlockFamily, Handles
<1>11. ASSUME NEW t \in Threads, NEW m \in MetricAddrs, FamilyRemoves(t, m)
       PROVE  LockOwners'
  BY <1>11 DEF FamilyRemoves
<1>12. ASSUME NEW t \in Threads, CollectBegins(t)
       PROVE  LockOwners'
  BY <1>12 DEF CollectBegins, CollectLocks
<1>13. ASSUME NEW t \in Threads, CollectLocksFamily(t)
       PROVE  LockOwners'
  <2>1. Head(todo[t]) \in FamilyAddrs
    BY <1>13, HeadTailProperties DEF CollectLocksFamily
  <2> QED BY <1>13, <2>1 DEF CollectLocksFamily, FamilyCollectLocks
<1>14. ASSUME NEW t \in Threads, CollectMetric(t)
       PROVE  LockOwners'
  BY <1>14 DEF CollectMetric
<1>15. ASSUME NEW t \in Threads, CollectUnlocksFamily(t)
       PROVE  LockOwners'
  BY <1>15, HeadTailProperties DEF CollectUnlocksFamily, UnlockFamily
<1>16. ASSUME NEW t \in Threads, CollectEnds(t)
       PROVE  LockOwners'
  BY <1>16 DEF CollectEnds
<1> QED
  BY <1>1, <1>2, <1>3, <1>4, <1>5, <1>6, <1>7, <1>8, <1>9, <1>10, <1>11,
     <1>12, <1>13, <1>14, <1>15, <1>16 DEF Next, Call, Continue

-----------------------------------------------------------------------------
(* Names and handles.                                                      *)

\* What the two invariants about names say cannot change while the vectors and
\* the families in them do not, unless a Registry::Add goes on to construct.
LEMMA NamesFrame ==
  ASSUME Contents, NamesUnique, UNCHANGED <<families, family>>,
         \A t \in Threads : pc'[t] = "construct" =>
           pc[t] = "construct" /\ req'[t] = req[t]
  PROVE  Contents' /\ NamesUnique'
<1>1. NamesUnique'
  BY DEF NamesUnique
<1>2. Contents'
  BY DEF Contents, NameInType, InVector
<1> QED BY <1>1, <1>2

\* Registry::Add inserts a family whose name it has searched for, under the same
\* lock; Registry::Remove and erase leave the names of the others alone.
LEMMA NamesStep ==
  ASSUME Types, LockOwners, Contents, NamesUnique, [Next]_vars
  PROVE  Contents' /\ NamesUnique'
<1> USE DEF Types, Goto, Locations, registryVars, familyVars, collectVars
<1>1. CASE UNCHANGED vars
  BY <1>1, NamesFrame DEF vars
<1>2. ASSUME NEW t \in Threads, NEW s \in FamilySpecs, RegistryAddRejects(t, s)
      PROVE  Contents' /\ NamesUnique'
  BY <1>2, NamesFrame DEF RegistryAddRejects, vars
<1>3. ASSUME NEW t \in Threads, NEW s \in FamilySpecs, RegistryAddMerges(t, s)
      PROVE  Contents' /\ NamesUnique'
  BY <1>3, NamesFrame DEF RegistryAddMerges
<1>4. ASSUME NEW t \in Threads, NEW s \in FamilySpecs, RegistryAddFinds(t, s)
      PROVE  Contents' /\ NamesUnique'
  <2>1. NamesUnique'
    BY <1>4 DEF RegistryAddFinds, NamesUnique
  <2>2. \A type \in MetricTypes : ~ NameInType(s.name, type)
    BY <1>4 DEF RegistryAddFinds, NameExistsInOtherType, NameInType, SameName
  <2>3. \A u \in Threads : pc'[u] = "construct" => u = t
    BY <1>4, ThreadsAssumption DEF RegistryAddFinds, AddLocks, LockOwners
  <2>4. UNCHANGED <<families, family>> /\ req'[t] = s
    BY <1>4 DEF RegistryAddFinds
  <2>5. \A type \in MetricTypes : ~ NameInType(req[t].name, type)'
    BY <2>2, <2>4 DEF NameInType, InVector
  <2>6. \A type \in MetricTypes : \A i \in DOMAIN families'[type] :
          /\ family'[families'[type][i]] \in FamilySpecs
          /\ family'[families'[type][i]].type = type
    BY <2>4 DEF Contents
  <2>7. Contents'
    BY <2>3, <2>5, <2>6 DEF Contents
  <2> QED BY <2>1, <2>7
<1>5. ASSUME NEW t \in Threads, RegistryAddPushes(t)
      PROVE  Contents' /\ NamesUnique'
  <2>1. \A u \in Threads : pc'[u] # "construct"
    BY <1>5, ThreadsAssumption DEF RegistryAddPushes, LockOwners
  <2>2. CASE UNCHANGED <<families, familyVars, handle>>
    BY <2>1, <2>2, NamesFrame
  <2>3. ASSUME NEW f \in FamilyAddrs, family[f] = Null,
               family' = [family EXCEPT ![f] = req[t]],
               families' = [families EXCEPT ![req[t].type] = Append(@, f)]
        PROVE  Contents' /\ NamesUnique'
    <3> DEFINE s == req[t]
               n == Len(families[s.type])
    <3>1. /\ s \in FamilySpecs /\ s.type \in MetricTypes /\ pc[t] = "construct"
          /\ families[s.type] \in Seq(FamilyAddrs)
      BY <1>5 DEF RegistryAddPushes, LockOwners
    <3>2. /\ n \in Nat /\ DOMAIN families[s.type] = 1 .. n
          /\ DOMAIN families'[s.type] = 1 .. n + 1
          /\ families'[s.type][n + 1] = f
          /\ \A i \in 1 .. n : families'[s.type][i] = families[s.type][i]
      BY <2>3, <3>1, AppendProperties, LenProperties
    <3>3. \A type \in MetricTypes \ {s.type} : families'[type] = families[type]
      BY <2>3, <3>1
    <3>4. \A type \in MetricTypes : \A i \in DOMAIN families[type] :
            /\ families[type][i] \in FamilyAddrs
            /\ families[type][i] # f
            /\ family'[families[type][i]] = family[families[type][i]]
            /\ family[families[type][i]].name # s.name
      <4> SUFFICES ASSUME NEW type \in MetricTypes, NEW i \in DOMAIN families[type]
                   PROVE  /\ families[type][i] \in FamilyAddrs
                          /\ families[type][i] # f
                          /\ family'[families[type][i]] = family[families[type][i]]
                          /\ family[families[type][i]].name # s.name
        OBVIOUS
      <4>1. families[type][i] \in FamilyAddrs
        BY ElementOfSeq, LenProperties
      <4>2. families[type][i] # f
        BY <2>3 DEF Contents
      <4>3. family[families[type][i]].name # s.name
        BY <3>1, <4>1 DEF Contents, NameInType, InVector
      <4> QED BY <2>3, <4>1, <4>2, <4>3
    <3>5. family'[f] = s
      BY <2>3
    <3> HIDE DEF s, n
    <3>6. \A type \in MetricTypes : \A i \in DOMAIN families'[type] :
            \/ /\ type = s.type /\ i = n + 1 /\ families'[type][i] = f
            \/ /\ i \in DOMAIN families[type] /\ families'[type][i] = families[type][i]
               /\ ~ (type = s.type /\ i = n + 1)
      <4> TAKE type \in MetricTypes
      <4> TAKE i \in DOMAIN families'[type]
      <4>1. CASE type = s.type
        <5>1. i \in 1 .. n + 1
          BY <3>2, <4>1
        <5>2. i = n + 1 \/ (i \in 1 .. n /\ i # n + 1)
          BY <3>2, <5>1
        <5> QED BY <3>2, <4>1, <5>2
      <4>2. CASE type # s.type
        BY <3>3, <4>2
      <4> QED BY <4>1, <4>2
    <3>7. \A type \in MetricTypes : \A i \in DOMAIN families'[type] :
            /\ family'[families'[type][i]] \in FamilySpecs
            /\ family'[families'[type][i]].type = type
      <4> SUFFICES ASSUME NEW type \in MetricTypes, NEW i \in DOMAIN families'[type]
                   PROVE  /\ family'[families'[type][i]] \in FamilySpecs
                          /\ family'[families'[type][i]].type = type
        OBVIOUS
      <4>1. CASE type = s.type /\ i = n + 1 /\ families'[type][i] = f
        BY <3>1, <3>5, <4>1
      <4>2. CASE i \in DOMAIN families[type] /\ families'[type][i] = families[type][i]
        BY <3>4, <4>2 DEF Contents
      <4> QED BY <3>6, <4>1, <4>2
    <3>8. NamesUnique'
      <4> SUFFICES ASSUME NEW u \in MetricTypes, NEW v \in MetricTypes,
                          NEW j \in DOMAIN families'[u], NEW k \in DOMAIN families'[v],
                          family'[families'[u][j]].name = family'[families'[v][k]].name
                   PROVE  u = v /\ j = k
        BY DEF NamesUnique
      <4>1. CASE j \in DOMAIN families[u] /\ families'[u][j] = families[u][j]
        <5>1. family'[families'[u][j]].name = family[families[u][j]].name
          BY <3>4, <4>1
        <5>2. CASE k \in DOMAIN families[v] /\ families'[v][k] = families[v][k]
          BY <3>4, <4>1, <5>1, <5>2 DEF NamesUnique
        <5>3. CASE families'[v][k] = f
          BY <3>4, <3>5, <4>1, <5>1, <5>3
        <5> QED BY <3>6, <5>2, <5>3
      <4>2. CASE u = s.type /\ j = n + 1 /\ families'[u][j] = f
        <5>1. CASE k \in DOMAIN families[v] /\ families'[v][k] = families[v][k]
          BY <3>4, <3>5, <4>2, <5>1
        <5> QED BY <3>6, <4>2, <5>1
      <4> QED BY <3>6, <4>1, <4>2
    <3> QED BY <2>1, <3>7, <3>8 DEF Contents
  <2> QED BY <1>5, <2>2, <2>3 DEF RegistryAddPushes
<1>6. ASSUME NEW t \in Threads, NEW f \in FamilyAddrs, RegistryRemoves(t, f)
      PROVE  Contents' /\ NamesUnique'
  <2>1. \A u \in Threads : pc'[u] # "construct"
    BY <1>6, ThreadsAssumption DEF RegistryRemoves, RemoveLocks, LockOwners
  <2>0. PICK type \in MetricTypes : \E i \in DOMAIN families[type] :
          /\ families[type][i] = f
          /\ families' = [families EXCEPT ![type] = Erase(@, i)]
    BY <1>6 DEF RegistryRemoves
  <2>2. PICK i \in DOMAIN families[type] :
          /\ families[type][i] = f
          /\ families' = [families EXCEPT ![type] = Erase(@, i)]
    BY <2>0
  <2>3. family' = [family EXCEPT ![f] = Null]
    BY <1>6 DEF RegistryRemoves
  <2> DEFINE old(ty, j) == IF ty = type /\ j >= i THEN j + 1 ELSE j
  <2>4. \A ty \in MetricTypes : \A j \in DOMAIN families'[ty] :
          /\ j \in Nat
          /\ old(ty, j) \in DOMAIN families[ty]
          /\ families'[ty][j] = families[ty][old(ty, j)]
          /\ families'[ty][j] \in FamilyAddrs
          /\ ~ (ty = type /\ old(ty, j) = i)
    <3> SUFFICES ASSUME NEW ty \in MetricTypes, NEW j \in DOMAIN families'[ty]
                 PROVE  /\ j \in Nat
                        /\ old(ty, j) \in DOMAIN families[ty]
                        /\ families'[ty][j] = families[ty][old(ty, j)]
                        /\ families'[ty][j] \in FamilyAddrs
                        /\ ~ (ty = type /\ old(ty, j) = i)
      OBVIOUS
    <3>1. families[ty] \in Seq(FamilyAddrs) /\ families[type] \in Seq(FamilyAddrs)
      OBVIOUS
    <3>2. CASE ty # type
      <4>1. families'[ty] = families[ty]
        BY <2>2, <3>2
      <4> QED BY <3>1, <3>2, <4>1, LenProperties, ElementOfSeq
    <3>3. CASE ty = type
      <4>1. families'[ty] = Erase(families[ty], i)
        BY <2>2, <3>3
      <4>2. Erase(families[ty], i) \in Seq(FamilyAddrs)
        BY <3>1, <3>3, EraseType
      <4>3. IF j < i THEN j \in DOMAIN families[ty] /\ families'[ty][j] = families[ty][j]
                     ELSE /\ j + 1 \in DOMAIN families[ty]
                          /\ families'[ty][j] = families[ty][j + 1]
        BY <3>1, <3>3, <4>1, EraseElements
      <4>4. j \in Nat /\ i \in Nat /\ families'[ty][j] \in FamilyAddrs
        BY <3>1, <3>3, <4>1, <4>2, LenProperties, ElementOfSeq
      <4> QED BY <3>3, <4>3, <4>4
    <3> QED BY <3>2, <3>3
  <2>5. \A ty \in MetricTypes : \A j \in DOMAIN families'[ty] :
          /\ families'[ty][j] # f
          /\ family'[families'[ty][j]] = family[families[ty][old(ty, j)]]
    <3> HIDE DEF old
    <3> QED BY <2>2, <2>3, <2>4 DEF NamesUnique
  <2>6. NamesUnique'
    <3> SUFFICES ASSUME NEW u \in MetricTypes, NEW v \in MetricTypes,
                        NEW j \in DOMAIN families'[u], NEW k \in DOMAIN families'[v],
                        family'[families'[u][j]].name = family'[families'[v][k]].name
                 PROVE  u = v /\ j = k
      BY DEF NamesUnique
    <3>1. u = v /\ old(u, j) = old(v, k)
      <4> HIDE DEF old
      <4> QED BY <2>4, <2>5 DEF NamesUnique
    <3>2. i \in Nat /\ j \in Nat /\ k \in Nat
      BY <2>4, LenProperties
    <3> QED BY <2>4, <3>1, <3>2
  <2>7. \A ty \in MetricTypes : \A j \in DOMAIN families'[ty] :
          /\ family'[families'[ty][j]] \in FamilySpecs
          /\ family'[families'[ty][j]].type = ty
    <3> HIDE DEF old
    <3> QED BY <2>4, <2>5 DEF Contents
  <2> QED BY <2>1, <2>6, <2>7 DEF Contents
<1>7. ASSUME NEW t \in Threads, NEW f \in FamilyAddrs, RegistryRemovesNothing(t, f)
      PROVE  Contents' /\ NamesUnique'
  BY <1>7, NamesFrame DEF RegistryRemovesNothing, vars
<1>8. ASSUME NEW t \in Threads, NEW l \in LabelMaps, FamilyAddFindsExisting(t, l)
      PROVE  Contents' /\ NamesUnique'
  BY <1>8, NamesFrame DEF FamilyAddFindsExisting, vars
<1>9. ASSUME NEW t \in Threads, NEW l \in LabelMaps, FamilyAddEmplaces(t, l)
      PROVE  Contents' /\ NamesUnique'
  BY <1>9, NamesFrame DEF FamilyAddEmplaces
<1>10. ASSUME NEW t \in Threads, FamilyAddValidates(t)
       PROVE  Contents' /\ NamesUnique'
  BY <1>10, NamesFrame DEF FamilyAddValidates
<1>11. ASSUME NEW t \in Threads, NEW m \in MetricAddrs, FamilyRemoves(t, m)
       PROVE  Contents' /\ NamesUnique'
  BY <1>11, NamesFrame DEF FamilyRemoves
<1>12. ASSUME NEW t \in Threads, CollectBegins(t)
       PROVE  Contents' /\ NamesUnique'
  BY <1>12, NamesFrame DEF CollectBegins
<1>13. ASSUME NEW t \in Threads, CollectLocksFamily(t)
       PROVE  Contents' /\ NamesUnique'
  BY <1>13, NamesFrame DEF CollectLocksFamily
<1>14. ASSUME NEW t \in Threads, CollectMetric(t)
       PROVE  Contents' /\ NamesUnique'
  BY <1>14, NamesFrame DEF CollectMetric
<1>15. ASSUME NEW t \in Threads, CollectUnlocksFamily(t)
       PROVE  Contents' /\ NamesUnique'
  BY <1>15, NamesFrame DEF CollectUnlocksFamily
<1>16. ASSUME NEW t \in Threads, CollectEnds(t)
       PROVE  Contents' /\ NamesUnique'
  BY <1>16, NamesFrame DEF CollectEnds
<1> QED
  BY <1>1, <1>2, <1>3, <1>4, <1>5, <1>6, <1>7, <1>8, <1>9, <1>10, <1>11,
     <1>12, <1>13, <1>14, <1>15, <1>16 DEF Next, Call, Continue

\* No two families of the registry have the same name, whatever their types.
THEOREM NamesAreUnique == Spec => []NamesUnique
<1>1. Init => Types /\ LockOwners /\ Contents /\ NamesUnique
  BY DEF Init, Types, LockOwners, Contents, NamesUnique, MetricTypes, Locations
<1>2. Types /\ LockOwners /\ Contents /\ NamesUnique /\ [Next]_vars
        => Types' /\ LockOwners' /\ Contents' /\ NamesUnique'
  BY TypeStep, LockStep, NamesStep
<1> QED BY <1>1, <1>2, PTL DEF Spec

-----------------------------------------------------------------------------
(* Iteration.                                                              *)

\* Nothing a scrape has to walk through changes while the vectors and the
\* places of the scraping threads stay as they are.
LEMMA VectorsFrame ==
  ASSUME VectorsValid, UNCHANGED <<families, todo>>,
         \A u \in Threads : pc'[u] \in {"families", "metrics"} =>
           pc[u] \in {"families", "metrics"}
  PROVE  VectorsValid'
<1>1. CollectOrder' = CollectOrder
  BY DEF CollectOrder
<1> QED BY <1>1 DEF VectorsValid

\* The vectors change only when no thread is scraping.
LEMMA VectorsStep ==
  ASSUME Types, LockOwners, VectorsValid, [Next]_vars
  PROVE  VectorsValid'
<1> USE DEF Types, Goto, Locations, registryVars, familyVars, collectVars
<1>1. CASE UNCHANGED vars
  BY <1>1, VectorsFrame DEF vars
<1>2. ASSUME NEW t \in Threads, NEW s \in FamilySpecs, RegistryAddRejects(t, s)
      PROVE  VectorsValid'
  BY <1>2, VectorsFrame DEF RegistryAddRejects, vars
<1>3. ASSUME NEW t \in Threads, NEW s \in FamilySpecs, RegistryAddMerges(t, s)
      PROVE  VectorsValid'
  BY <1>3, VectorsFrame DEF RegistryAddMerges
<1>4. ASSUME NEW t \in Threads, NEW s \in FamilySpecs, RegistryAddFinds(t, s)
      PROVE  VectorsValid'
  BY <1>4, VectorsFrame DEF RegistryAddFinds
<1>5. ASSUME NEW t \in Threads, RegistryAddPushes(t)
      PROVE  VectorsValid'
  <2>1. \A u \in Threads : pc'[u] \notin {"families", "metrics"}
    BY <1>5, ThreadsAssumption DEF RegistryAddPushes, LockOwners
  <2> QED BY <2>1 DEF VectorsValid
<1>6. ASSUME NEW t \in Threads, NEW f \in FamilyAddrs, RegistryRemoves(t, f)
      PROVE  VectorsValid'
  <2>1. \A u \in Threads : pc'[u] \notin {"families", "metrics"}
    BY <1>6, ThreadsAssumption DEF RegistryRemoves, RemoveLocks, LockOwners
  <2> QED BY <2>1 DEF VectorsValid
<1>7. ASSUME NEW t \in Threads, NEW f \in FamilyAddrs, RegistryRemovesNothing(t, f)
      PROVE  VectorsValid'
  BY <1>7, VectorsFrame DEF RegistryRemovesNothing, vars
<1>8. ASSUME NEW t \in Threads, NEW l \in LabelMaps, FamilyAddFindsExisting(t, l)
      PROVE  VectorsValid'
  BY <1>8, VectorsFrame DEF FamilyAddFindsExisting, vars
<1>9. ASSUME NEW t \in Threads, NEW l \in LabelMaps, FamilyAddEmplaces(t, l)
      PROVE  VectorsValid'
  BY <1>9, VectorsFrame DEF FamilyAddEmplaces
<1>10. ASSUME NEW t \in Threads, FamilyAddValidates(t)
      PROVE  VectorsValid'
  BY <1>10, VectorsFrame DEF FamilyAddValidates
<1>11. ASSUME NEW t \in Threads, NEW m \in MetricAddrs, FamilyRemoves(t, m)
      PROVE  VectorsValid'
  BY <1>11, VectorsFrame DEF FamilyRemoves
<1>12. ASSUME NEW t \in Threads, CollectBegins(t)
      PROVE  VectorsValid'
  <2>1. CollectOrder' = CollectOrder /\ CollectOrder \in Seq(FamilyAddrs)
    BY <1>12, CollectOrderType DEF CollectBegins, CollectOrder
  <2>2. todo'[t] = SubSeq(CollectOrder, 0 + 1, Len(CollectOrder))
    BY <1>12, <2>1, SubSeqFull DEF CollectBegins
  <2>3. 0 \in 0 .. Len(CollectOrder)
    BY <2>1, LenProperties
  <2>4. \A u \in Threads \ {t} : pc'[u] = pc[u] /\ todo'[u] = todo[u]
    BY <1>12 DEF CollectBegins
  <2>5. \E k \in 0 .. Len(CollectOrder) :
          todo'[t] = SubSeq(CollectOrder, k + 1, Len(CollectOrder))
    BY <2>2, <2>3
  <2>6. ASSUME NEW u \in Threads, pc'[u] \in {"families", "metrics"}
        PROVE  \E k \in 0 .. Len(CollectOrder) :
                 todo'[u] = SubSeq(CollectOrder, k + 1, Len(CollectOrder))
    <3>1. CASE u = t
      BY <2>5, <3>1
    <3>2. CASE u # t
      BY <2>4, <2>6, <3>2 DEF VectorsValid
    <3> QED BY <3>1, <3>2
  <2> HIDE DEF Types
  <2> QED BY <2>1, <2>6 DEF VectorsValid
<1>13. ASSUME NEW t \in Threads, CollectLocksFamily(t)
      PROVE  VectorsValid'
  BY <1>13, VectorsFrame DEF CollectLocksFamily
<1>14. ASSUME NEW t \in Threads, CollectMetric(t)
      PROVE  VectorsValid'
  BY <1>14, VectorsFrame DEF CollectMetric
<1>15. ASSUME NEW t \in Threads, CollectUnlocksFamily(t)
      PROVE  VectorsValid'
  <2> DEFINE n == Len(CollectOrder)
  <2>1. CollectOrder' = CollectOrder /\ CollectOrder \in Seq(FamilyAddrs) /\ n \in Nat
    BY <1>15, CollectOrderType, LenProperties DEF CollectUnlocksFamily, CollectOrder
  <2>2. PICK k \in 0 .. n : todo[t] = SubSeq(CollectOrder, k + 1, n)
    BY <1>15 DEF CollectUnlocksFamily, VectorsValid
  <2>3. todo[t] # <<>>
    BY <1>15 DEF CollectUnlocksFamily, LockOwners
  <2>4. k < n
    BY <2>1, <2>2, <2>3, SubSeqEmpty
  <2>5. todo'[t] = SubSeq(CollectOrder, (k + 1) + 1, n) /\ k + 1 \in 0 .. n
    <3>1. k + 1 \in 1 .. n /\ n \in k + 1 .. n
      BY <2>1, <2>4
    <3>2. Tail(SubSeq(CollectOrder, k + 1, n)) = SubSeq(CollectOrder, (k + 1) + 1, n)
      BY <2>1, <3>1, HeadTailOfSubSeq
    <3> QED BY <1>15, <2>2, <3>1, <3>2 DEF CollectUnlocksFamily
  <2>6. \A u \in Threads \ {t} : pc'[u] = pc[u] /\ todo'[u] = todo[u]
    BY <1>15 DEF CollectUnlocksFamily
  <2>7. \E j \in 0 .. n : todo'[t] = SubSeq(CollectOrder, j + 1, n)
    BY <2>5
  <2>8. ASSUME NEW u \in Threads, pc'[u] \in {"families", "metrics"}
        PROVE  \E j \in 0 .. n : todo'[u] = SubSeq(CollectOrder, j + 1, n)
    <3>1. CASE u = t
      BY <2>7, <3>1
    <3>2. CASE u # t
      BY <2>6, <2>8, <3>2 DEF VectorsValid
    <3> QED BY <3>1, <3>2
  <2> HIDE DEF Types
  <2> QED BY <2>1, <2>8 DEF VectorsValid
<1>16. ASSUME NEW t \in Threads, CollectEnds(t)
      PROVE  VectorsValid'
  BY <1>16, VectorsFrame DEF CollectEnds
<1> QED
  BY <1>1, <1>2, <1>3, <1>4, <1>5, <1>6, <1>7, <1>8, <1>9, <1>10, <1>11,
     <1>12, <1>13, <1>14, <1>15, <1>16 DEF Next, Call, Continue

\* No entry leaves the map of a family that a thread is collecting.
LEMMA EntriesStep ==
  ASSUME Types, LockOwners, EntriesValid, [Next]_vars
  PROVE  EntriesValid'
<1> USE DEF Types, Goto, Locations, registryVars, familyVars, collectVars
<1>1. CASE UNCHANGED vars
  BY <1>1 DEF EntriesValid, Stored, vars
<1>2. ASSUME NEW t \in Threads, NEW s \in FamilySpecs, RegistryAddRejects(t, s)
      PROVE  EntriesValid'
  BY <1>2 DEF RegistryAddRejects, EntriesValid, Stored, vars
<1>3. ASSUME NEW t \in Threads, NEW s \in FamilySpecs, RegistryAddMerges(t, s)
      PROVE  EntriesValid'
  BY <1>3 DEF RegistryAddMerges, EntriesValid, Stored
<1>4. ASSUME NEW t \in Threads, NEW s \in FamilySpecs, RegistryAddFinds(t, s)
      PROVE  EntriesValid'
  BY <1>4 DEF RegistryAddFinds, EntriesValid, Stored
<1>5. ASSUME NEW t \in Threads, RegistryAddPushes(t)
      PROVE  EntriesValid'
  BY <1>5 DEF RegistryAddPushes, EntriesValid, Stored
<1>6. ASSUME NEW t \in Threads, NEW f \in FamilyAddrs, RegistryRemoves(t, f)
      PROVE  EntriesValid'
  <2>1. \A u \in Threads : pc'[u] # "metrics"
    BY <1>6, ThreadsAssumption DEF RegistryRemoves, RemoveLocks, LockOwners
  <2> QED BY <2>1 DEF EntriesValid
<1>7. ASSUME NEW t \in Threads, NEW f \in FamilyAddrs, RegistryRemovesNothing(t, f)
      PROVE  EntriesValid'
  BY <1>7 DEF RegistryRemovesNothing, EntriesValid, Stored, vars
<1>8. ASSUME NEW t \in Threads, NEW l \in LabelMaps, FamilyAddFindsExisting(t, l)
      PROVE  EntriesValid'
  BY <1>8 DEF FamilyAddFindsExisting, EntriesValid, Stored, vars
<1>9. ASSUME NEW t \in Threads, NEW l \in LabelMaps, FamilyAddEmplaces(t, l)
      PROVE  EntriesValid'
  <2>1. PICK m \in MetricAddrs : metrics' = [metrics EXCEPT ![handle[t].addr][l] = m]
    BY <1>9 DEF FamilyAddEmplaces
  <2>2. \A f \in FamilyAddrs : Stored(f) \subseteq Stored(f)'
    BY <2>1, AddrsAssumption DEF Stored
  <2>3. \A u \in Threads : pc'[u] = "metrics" => pc[u] = "metrics" /\ Head(todo[u]) \in FamilyAddrs
    BY <1>9, HeadTailProperties DEF FamilyAddEmplaces, LockOwners
  <2>4. UNCHANGED <<left, todo>>
    BY <1>9 DEF FamilyAddEmplaces
  <2> QED BY <2>2, <2>3, <2>4 DEF EntriesValid, Stored
<1>10. ASSUME NEW t \in Threads, FamilyAddValidates(t)
      PROVE  EntriesValid'
  <2>1. ASSUME NEW u \in Threads, pc'[u] = "metrics"
        PROVE  left'[u] \subseteq Stored(Head(todo[u]))'
    <3>1. pc[u] = "metrics" /\ left'[u] = left[u] /\ todo'[u] = todo[u]
      BY <1>10, <2>1 DEF FamilyAddValidates
    <3>2. Head(todo[u]) # handle[t].addr
      BY <1>10, <3>1 DEF FamilyAddValidates, LockOwners
    <3>3. Head(todo[u]) \in FamilyAddrs
      BY <3>1, HeadTailProperties DEF LockOwners
    <3>4. metrics'[Head(todo[u])] = metrics[Head(todo[u])]
      BY <1>10, <3>2, <3>3 DEF FamilyAddValidates
    <3> QED BY <3>1, <3>4 DEF EntriesValid, Stored
  <2> QED BY <2>1 DEF EntriesValid
<1>11. ASSUME NEW t \in Threads, NEW m \in MetricAddrs, FamilyRemoves(t, m)
      PROVE  EntriesValid'
  <2>1. ASSUME NEW u \in Threads, pc'[u] = "metrics"
        PROVE  left'[u] \subseteq Stored(Head(todo[u]))'
    <3>1. pc[u] = "metrics" /\ left'[u] = left[u] /\ todo'[u] = todo[u]
      BY <1>11, <2>1 DEF FamilyRemoves
    <3>2. Head(todo[u]) # handle[t].addr
      BY <1>11, <3>1, ThreadsAssumption DEF FamilyRemoves, FamilyRemoveLocks, LockOwners
    <3>3. Head(todo[u]) \in FamilyAddrs
      BY <3>1, HeadTailProperties DEF LockOwners
    <3>4. metrics'[Head(todo[u])] = metrics[Head(todo[u])]
      BY <1>11, <3>2, <3>3 DEF FamilyRemoves
    <3> QED BY <3>1, <3>4 DEF EntriesValid, Stored
  <2> QED BY <2>1 DEF EntriesValid
<1>12. ASSUME NEW t \in Threads, CollectBegins(t)
      PROVE  EntriesValid'
  BY <1>12 DEF CollectBegins, EntriesValid, Stored
<1>13. ASSUME NEW t \in Threads, CollectLocksFamily(t)
      PROVE  EntriesValid'
  BY <1>13 DEF CollectLocksFamily, EntriesValid, Stored
<1>14. ASSUME NEW t \in Threads, CollectMetric(t)
      PROVE  EntriesValid'
  BY <1>14 DEF CollectMetric, EntriesValid, Stored
<1>15. ASSUME NEW t \in Threads, CollectUnlocksFamily(t)
      PROVE  EntriesValid'
  BY <1>15 DEF CollectUnlocksFamily, EntriesValid, Stored
<1>16. ASSUME NEW t \in Threads, CollectEnds(t)
      PROVE  EntriesValid'
  BY <1>16 DEF CollectEnds, EntriesValid, Stored
<1> QED
  BY <1>1, <1>2, <1>3, <1>4, <1>5, <1>6, <1>7, <1>8, <1>9, <1>10, <1>11,
     <1>12, <1>13, <1>14, <1>15, <1>16 DEF Next, Call, Continue

\* What Registry::Collect and Family::Collect iterate over does not change under
\* them.
THEOREM IteratorsAreValid == Spec => []IteratorsValid
<1>1. Init => Types /\ LockOwners /\ VectorsValid /\ EntriesValid
  BY DEF Init, Types, LockOwners, VectorsValid, EntriesValid, MetricTypes, Locations
<1>2. Types /\ LockOwners /\ VectorsValid /\ EntriesValid /\ [Next]_vars
        => Types' /\ LockOwners' /\ VectorsValid' /\ EntriesValid'
  BY TypeStep, LockStep, VectorsStep, EntriesStep
<1>3. VectorsValid /\ EntriesValid => IteratorsValid
  BY DEF IteratorsValid
<1> QED BY <1>1, <1>2, <1>3, PTL DEF Spec

-----------------------------------------------------------------------------
(* References.                                                             *)

\* A reference stays good while vectors, families and references do not change.
LEMMA HandlesFrame ==
  ASSUME HandlesDesignate, UNCHANGED <<families, family, handle>>
  PROVE  HandlesDesignate'
BY DEF HandlesDesignate, InVector

\* Registry::Add returns a reference to a family it has just inserted or found;
\* Registry::Remove invalidates those to the family it erases and no other.
LEMMA HandlesStep ==
  ASSUME Types, LockOwners, Contents, HandlesDesignate, [Next]_vars
  PROVE  HandlesDesignate'
<1> USE DEF Types, Goto, Locations, registryVars, familyVars, collectVars
<1>1. CASE UNCHANGED vars
  BY <1>1, HandlesFrame DEF vars
<1>2. ASSUME NEW t \in Threads, NEW s \in FamilySpecs, RegistryAddRejects(t, s)
      PROVE  HandlesDesignate'
  BY <1>2, HandlesFrame DEF RegistryAddRejects, vars
<1>3. ASSUME NEW t \in Threads, NEW s \in FamilySpecs, RegistryAddMerges(t, s)
      PROVE  HandlesDesignate'
  <2>1. PICK f \in FamilyAddrs :
          /\ SameName(f, s) /\ Merges(f, s)
          /\ handle' = [handle EXCEPT ![t] = [addr |-> f, for |-> s]]
    BY <1>3 DEF RegistryAddMerges
  <2>2. InVector(f, s.type) /\ family[f].name = s.name /\ family[f].labels = s.labels
    BY <2>1 DEF SameName, Merges
  <2>3. family[f] \in FamilySpecs /\ family[f].type = s.type
    BY <2>2, SpecsAssumption DEF Contents, InVector
  <2>4. family[f] = s
    BY <2>2, <2>3, SpecsAreRecords
  <2>5. UNCHANGED <<families, family>>
    BY <1>3 DEF RegistryAddMerges
  <2>6. InVector(f, s.type)'
    BY <2>2, <2>5 DEF InVector
  <2>7. \A u \in Threads : u # t => handle'[u] = handle[u]
    BY <2>1
  <2>8. handle'[t] = [addr |-> f, for |-> s]
    BY <2>1
  <2> HIDE DEF Types
  <2> QED BY <2>4, <2>5, <2>6, <2>7, <2>8 DEF HandlesDesignate, InVector
<1>4. ASSUME NEW t \in Threads, NEW s \in FamilySpecs, RegistryAddFinds(t, s)
      PROVE  HandlesDesignate'
  BY <1>4, HandlesFrame DEF RegistryAddFinds
<1>5. ASSUME NEW t \in Threads, RegistryAddPushes(t)
      PROVE  HandlesDesignate'
  <2>1. CASE UNCHANGED <<families, familyVars, handle>>
    BY <2>1, HandlesFrame
  <2>2. ASSUME NEW f \in FamilyAddrs, family[f] = Null,
               family' = [family EXCEPT ![f] = req[t]],
               families' = [families EXCEPT ![req[t].type] = Append(@, f)],
               handle' = [handle EXCEPT ![t] = [addr |-> f, for |-> req[t]]]
        PROVE  HandlesDesignate'
    <3> DEFINE s == req[t]
               Has(g, type) == \E i \in DOMAIN families'[type] : families'[type][i] = g
    <3>1. /\ s \in FamilySpecs /\ s.type \in MetricTypes
          /\ families[s.type] \in Seq(FamilyAddrs)
      BY <1>5, SpecsAssumption DEF RegistryAddPushes, LockOwners
    <3>2. \A g \in FamilyAddrs : \A type \in MetricTypes :
            InVector(g, type) => Has(g, type)
      <4> SUFFICES ASSUME NEW g \in FamilyAddrs, NEW type \in MetricTypes,
                          NEW i \in DOMAIN families[type], families[type][i] = g
                   PROVE  Has(g, type)
        BY DEF InVector
      <4>1. i \in DOMAIN families'[type] /\ families'[type][i] = g
        <5>1. CASE type = s.type
          BY <2>2, <3>1, <5>1, AppendProperties, LenProperties
        <5>2. CASE type # s.type
          BY <2>2, <5>2
        <5> QED BY <5>1, <5>2
      <4> QED BY <4>1
    <3>3. Has(f, s.type)
      <4>1. /\ Len(families[s.type]) + 1 \in DOMAIN families'[s.type]
            /\ families'[s.type][Len(families[s.type]) + 1] = f
        BY <2>2, <3>1, AppendProperties, LenProperties
      <4> QED BY <4>1
    <3>4. family'[f] = s /\ handle'[t] = [addr |-> f, for |-> s]
      BY <2>2
    <3>5. ASSUME NEW u \in Threads, u # t, handle'[u] # Null
          PROVE  /\ Has(handle'[u].addr, handle'[u].for.type)
                 /\ family'[handle'[u].addr] = handle'[u].for
      <4>1. handle'[u] = handle[u] /\ handle[u] \in Handles
        BY <2>2, <3>5
      <4>2. /\ InVector(handle[u].addr, handle[u].for.type)
            /\ family[handle[u].addr] = handle[u].for
            /\ handle[u].addr \in FamilyAddrs
            /\ handle[u].for \in FamilySpecs
            /\ handle[u].for.type \in MetricTypes
        BY <3>5, <4>1, SpecsAssumption DEF HandlesDesignate, Handles
      <4>3. handle[u].addr # f
        BY <2>2, <4>2, NullAssumption
      <4>4. family'[handle[u].addr] = family[handle[u].addr]
        BY <2>2, <4>2, <4>3
      <4> QED BY <3>2, <4>1, <4>2, <4>4
    <3>6. ASSUME NEW u \in Threads, handle'[u] # Null
          PROVE  /\ Has(handle'[u].addr, handle'[u].for.type)
                 /\ family'[handle'[u].addr] = handle'[u].for
      <4>1. CASE u = t
        <5>1. handle'[t].addr = f /\ handle'[t].for = s
          BY <3>4
        <5>2. Has(handle'[t].addr, handle'[t].for.type)
          BY ONLY <3>3, <5>1
        <5> QED BY <3>4, <4>1, <5>1, <5>2
      <4>2. CASE u # t
        BY <3>5, <3>6, <4>2
      <4> QED BY <4>1, <4>2
    <3> HIDE DEF s, Types
    <3> QED BY <3>6 DEF HandlesDesignate, InVector
  <2> QED BY <1>5, <2>1, <2>2 DEF RegistryAddPushes
<1>6. ASSUME NEW t \in Threads, NEW f \in FamilyAddrs, RegistryRemoves(t, f)
      PROVE  HandlesDesignate'
  <2>0. PICK type \in MetricTypes : \E i \in DOMAIN families[type] :
          /\ families[type][i] = f
          /\ families' = [families EXCEPT ![type] = Erase(@, i)]
    BY <1>6 DEF RegistryRemoves
  <2>1. PICK i \in DOMAIN families[type] :
          /\ families[type][i] = f
          /\ families' = [families EXCEPT ![type] = Erase(@, i)]
    BY <2>0
  <2> DEFINE Has(g, ty) == \E j \in DOMAIN families'[ty] : families'[ty][j] = g
  <2>2. \A g \in FamilyAddrs \ {f} : \A ty \in MetricTypes :
          InVector(g, ty) => Has(g, ty)
    <3> SUFFICES ASSUME NEW g \in FamilyAddrs \ {f}, NEW ty \in MetricTypes,
                        NEW j \in DOMAIN families[ty], families[ty][j] = g
                 PROVE  Has(g, ty)
      BY DEF InVector
    <3>1. CASE ty = type
      <4>1. families[ty] \in Seq(FamilyAddrs) /\ j # i
        BY <2>1, <3>1
      <4>2. \E k \in DOMAIN Erase(families[ty], i) : Erase(families[ty], i)[k] = g
        BY <3>1, <4>1, EraseKeeps
      <4> QED BY <2>1, <3>1, <4>2
    <3>2. CASE ty # type
      BY <2>1, <3>2
    <3> QED BY <3>1, <3>2
  <2>3. ASSUME NEW u \in Threads, handle'[u] # Null
        PROVE  /\ Has(handle'[u].addr, handle'[u].for.type)
               /\ family'[handle'[u].addr] = handle'[u].for
    <3>1. handle'[u] = handle[u] /\ handle[u] \in Handles /\ handle[u].addr # f
      BY <1>6, <2>3 DEF RegistryRemoves
    <3>2. /\ InVector(handle[u].addr, handle[u].for.type)
          /\ family[handle[u].addr] = handle[u].for
          /\ handle[u].addr \in FamilyAddrs
          /\ handle[u].for.type \in MetricTypes
      BY <2>3, <3>1, SpecsAssumption DEF HandlesDesignate, Handles
    <3>3. family'[handle[u].addr] = family[handle[u].addr]
      BY <1>6, <3>1 DEF RegistryRemoves
    <3> QED BY <2>2, <3>1, <3>2, <3>3
  <2> HIDE DEF Types
  <2> QED BY <2>3 DEF HandlesDesignate, InVector
<1>7. ASSUME NEW t \in Threads, NEW f \in FamilyAddrs, RegistryRemovesNothing(t, f)
      PROVE  HandlesDesignate'
  BY <1>7, HandlesFrame DEF RegistryRemovesNothing, vars
<1>8. ASSUME NEW t \in Threads, NEW l \in LabelMaps, FamilyAddFindsExisting(t, l)
      PROVE  HandlesDesignate'
  BY <1>8, HandlesFrame DEF FamilyAddFindsExisting, vars
<1>9. ASSUME NEW t \in Threads, NEW l \in LabelMaps, FamilyAddEmplaces(t, l)
      PROVE  HandlesDesignate'
  BY <1>9, HandlesFrame DEF FamilyAddEmplaces
<1>10. ASSUME NEW t \in Threads, FamilyAddValidates(t)
      PROVE  HandlesDesignate'
  BY <1>10, HandlesFrame DEF FamilyAddValidates
<1>11. ASSUME NEW t \in Threads, NEW m \in MetricAddrs, FamilyRemoves(t, m)
      PROVE  HandlesDesignate'
  BY <1>11, HandlesFrame DEF FamilyRemoves
<1>12. ASSUME NEW t \in Threads, CollectBegins(t)
      PROVE  HandlesDesignate'
  BY <1>12, HandlesFrame DEF CollectBegins
<1>13. ASSUME NEW t \in Threads, CollectLocksFamily(t)
      PROVE  HandlesDesignate'
  BY <1>13, HandlesFrame DEF CollectLocksFamily
<1>14. ASSUME NEW t \in Threads, CollectMetric(t)
      PROVE  HandlesDesignate'
  BY <1>14, HandlesFrame DEF CollectMetric
<1>15. ASSUME NEW t \in Threads, CollectUnlocksFamily(t)
      PROVE  HandlesDesignate'
  BY <1>15, HandlesFrame DEF CollectUnlocksFamily
<1>16. ASSUME NEW t \in Threads, CollectEnds(t)
      PROVE  HandlesDesignate'
  BY <1>16, HandlesFrame DEF CollectEnds
<1> QED
  BY <1>1, <1>2, <1>3, <1>4, <1>5, <1>6, <1>7, <1>8, <1>9, <1>10, <1>11,
     <1>12, <1>13, <1>14, <1>15, <1>16 DEF Next, Call, Continue

\* The reference Registry::Add returned is the registered family of the type, the
\* name and the constant labels asked for, until it is removed.
THEOREM HandlesAreGood == Spec => []HandlesDesignate
<1>1. Init => Types /\ LockOwners /\ Contents /\ NamesUnique /\ HandlesDesignate
  <2>1. Init => Types /\ LockOwners /\ Contents /\ NamesUnique
    BY DEF Init, Types, LockOwners, Contents, NamesUnique, MetricTypes, Locations
  <2>2. Init => HandlesDesignate
    BY DEF Init, HandlesDesignate
  <2> QED BY <2>1, <2>2
<1>2. Types /\ LockOwners /\ Contents /\ NamesUnique /\ HandlesDesignate /\ [Next]_vars
        => Types' /\ LockOwners' /\ Contents' /\ NamesUnique' /\ HandlesDesignate'
  BY TypeStep, LockStep, NamesStep, HandlesStep
<1> QED BY <1>1, <1>2, PTL DEF Spec

-----------------------------------------------------------------------------
(* What a scrape shows, and the metrics it is made of.                     *)

Elements(s) == {s[i] : i \in DOMAIN s}
Distinct(s) == \A i, j \in DOMAIN s : s[i] = s[j] => i = j

-----------------------------------------------------------------------------
(* Sequences.                                                              *)

\* A concatenation has the elements of both sequences, and no element twice if
\* neither has and they share none.
LEMMA ConcatElements ==
  ASSUME NEW S, NEW s \in Seq(S), NEW r \in Seq(S)
  PROVE  /\ s \o r \in Seq(S)
         /\ Elements(s \o r) = Elements(s) \cup Elements(r)
         /\ Distinct(s) /\ Distinct(r) /\ Elements(s) \cap Elements(r) = {} => Distinct(s \o r)
<1> DEFINE m == Len(s)
           n == Len(r)
<1>1. /\ s \o r \in Seq(S) /\ Len(s \o r) = m + n
      /\ \A i \in 1 .. m + n : (s \o r)[i] = IF i <= m THEN s[i] ELSE r[i - m]
  BY ConcatProperties
<1>2. /\ m \in Nat /\ n \in Nat /\ DOMAIN s = 1 .. m /\ DOMAIN r = 1 .. n
      /\ DOMAIN (s \o r) = 1 .. m + n
  BY <1>1, LenProperties
<1> HIDE DEF m, n
<1>3. \A i \in 1 .. m : i \in 1 .. m + n /\ (s \o r)[i] = s[i]
  BY <1>1, <1>2
<1>4. \A i \in 1 .. n : i + m \in 1 .. m + n /\ (s \o r)[i + m] = r[i]
  BY <1>1, <1>2
<1>5. \A i \in 1 .. m + n :
        \/ i \in 1 .. m /\ (s \o r)[i] = s[i]
        \/ i - m \in 1 .. n /\ (s \o r)[i] = r[i - m]
  BY <1>1, <1>2
<1>6. Elements(s \o r) = Elements(s) \cup Elements(r)
  <2>1. Elements(s \o r) \subseteq Elements(s) \cup Elements(r)
    BY <1>2, <1>5 DEF Elements
  <2>2. Elements(s) \subseteq Elements(s \o r)
    BY <1>2, <1>3 DEF Elements
  <2>3. Elements(r) \subseteq Elements(s \o r)
    BY <1>2, <1>4 DEF Elements
  <2> QED BY <2>1, <2>2, <2>3
<1>7. ASSUME Distinct(s), Distinct(r), Elements(s) \cap Elements(r) = {},
             NEW i \in 1 .. m + n, NEW j \in 1 .. m + n, (s \o r)[i] = (s \o r)[j]
      PROVE  i = j
  <2>1. CASE i \in 1 .. m /\ (s \o r)[i] = s[i] /\ j \in 1 .. m /\ (s \o r)[j] = s[j]
    BY <1>2, <1>7, <2>1 DEF Distinct
  <2>2. CASE /\ i - m \in 1 .. n /\ (s \o r)[i] = r[i - m]
             /\ j - m \in 1 .. n /\ (s \o r)[j] = r[j - m]
    <3>1. i - m = j - m
      BY <1>2, <1>7, <2>2 DEF Distinct
    <3> QED BY <1>2, <3>1
  <2>3. ASSUME NEW k \in 1 .. m, NEW l \in 1 .. n, s[k] = r[l]
        PROVE  FALSE
    BY <1>2, <1>7, <2>3 DEF Elements
  <2> QED BY <1>5, <1>7, <2>1, <2>2, <2>3
<1> QED BY <1>1, <1>2, <1>6, <1>7 DEF Distinct

\* The head of a sequence without repetitions is not in its tail, which has the
\* rest.
LEMMA TailElements ==
  ASSUME NEW S, NEW s \in Seq(S), s # <<>>
  PROVE  /\ Head(s) \in Elements(s) /\ Elements(Tail(s)) \subseteq Elements(s)
         /\ Elements(s) \subseteq {Head(s)} \cup Elements(Tail(s))
         /\ Distinct(s) => Distinct(Tail(s)) /\ Head(s) \notin Elements(Tail(s))
<1>1. /\ Head(s) = s[1] /\ Tail(s) \in Seq(S) /\ Len(Tail(s)) = Len(s) - 1
      /\ \A i \in 1 .. Len(Tail(s)) : Tail(s)[i] = s[i + 1]
  BY HeadTailProperties
<1>2. /\ DOMAIN s = 1 .. Len(s) /\ Len(s) \in Nat /\ Len(s) # 0
      /\ DOMAIN Tail(s) = 1 .. Len(Tail(s))
  BY <1>1, LenProperties, EmptySeq
<1>3. \A i \in DOMAIN Tail(s) : i + 1 \in DOMAIN s /\ i + 1 # 1 /\ Tail(s)[i] = s[i + 1]
  BY <1>1, <1>2
<1>4. \A i \in DOMAIN s : i = 1 \/ (i - 1 \in DOMAIN Tail(s) /\ Tail(s)[i - 1] = s[i])
  BY <1>1, <1>2
<1>5. 1 \in DOMAIN s
  BY <1>2
<1>6. Head(s) \in Elements(s) /\ Elements(Tail(s)) \subseteq Elements(s)
  BY <1>1, <1>3, <1>5 DEF Elements
<1>7. Elements(s) \subseteq {Head(s)} \cup Elements(Tail(s))
  BY <1>1, <1>4 DEF Elements
<1>8. ASSUME Distinct(s)
      PROVE  Distinct(Tail(s)) /\ Head(s) \notin Elements(Tail(s))
  <2>1. \A i, j \in DOMAIN Tail(s) : Tail(s)[i] = Tail(s)[j] => i = j
    <3> SUFFICES ASSUME NEW i \in DOMAIN Tail(s), NEW j \in DOMAIN Tail(s),
                        Tail(s)[i] = Tail(s)[j]
                 PROVE  i = j
      OBVIOUS
    <3>1. i + 1 = j + 1
      BY <1>3, <1>8 DEF Distinct
    <3> QED BY <1>2, <3>1
  <2>2. \A i \in DOMAIN Tail(s) : Tail(s)[i] # Head(s)
    BY <1>1, <1>3, <1>5, <1>8 DEF Distinct
  <2> QED BY <2>1, <2>2 DEF Distinct, Elements
<1> QED BY <1>6, <1>7, <1>8

-----------------------------------------------------------------------------
(* The registry a scrape walks through.                                    *)

\* What RegistryProofs shows of the registry, without its iterators.
Base == Types /\ LockOwners /\ Contents /\ NamesUnique /\ HandlesDesignate

\* It holds when the registry has been constructed.
LEMMA BaseInit == Init => Base
<1>1. Init => Types /\ LockOwners /\ Contents /\ NamesUnique
  BY ThreadsAssumption DEF Init, Types, LockOwners, Contents, NamesUnique, MetricTypes,
     Locations
<1>2. Init => HandlesDesignate
  BY DEF Init, HandlesDesignate
<1> QED BY <1>1, <1>2 DEF Base

\* Every step keeps it.
LEMMA BaseStep == Base /\ [Next]_vars => Base'
BY TypeStep, LockStep, NamesStep, HandlesStep DEF Base

\* CollectOrder has every registered family once.
LEMMA CollectOrderElements ==
  ASSUME Base
  PROVE  /\ CollectOrder \in Seq(FamilyAddrs) /\ Distinct(CollectOrder)
         /\ \A f : f \in Elements(CollectOrder) <=> Registered(f)
<1> DEFINE V(type) == families[type]
<1>1. \A type \in MetricTypes : V(type) \in Seq(FamilyAddrs) /\ Distinct(V(type))
  BY DEF Base, Types, NamesUnique, Distinct
<1>2. \A u, v \in MetricTypes : u # v => Elements(V(u)) \cap Elements(V(v)) = {}
  BY DEF Base, NamesUnique, Elements
<1>3. \A f : \A type \in MetricTypes : f \in Elements(V(type)) <=> InVector(f, type)
  BY DEF Elements, InVector
<1>4. MetricTypes = {"Counter", "Gauge", "Histogram", "Info", "Summary"}
  BY DEF MetricTypes
<1> DEFINE A2 == V("Counter") \o V("Gauge")
           A3 == A2 \o V("Histogram")
           A4 == A3 \o V("Info")
           A5 == A4 \o V("Summary")
<1> HIDE DEF V
<1>5. /\ A2 \in Seq(FamilyAddrs) /\ Distinct(A2)
      /\ Elements(A2) = Elements(V("Counter")) \cup Elements(V("Gauge"))
  BY <1>1, <1>2, <1>4, ConcatElements
<1> HIDE DEF A2
<1>6. /\ A3 \in Seq(FamilyAddrs) /\ Distinct(A3)
      /\ Elements(A3) = Elements(A2) \cup Elements(V("Histogram"))
  <2>1. Elements(A2) \cap Elements(V("Histogram")) = {}
    BY <1>2, <1>4, <1>5
  <2> QED BY <1>1, <1>4, <1>5, <2>1, ConcatElements
<1> HIDE DEF A3
<1>7. /\ A4 \in Seq(FamilyAddrs) /\ Distinct(A4)
      /\ Elements(A4) = Elements(A3) \cup Elements(V("Info"))
  <2>1. Elements(A3) \cap Elements(V("Info")) = {}
    BY <1>2, <1>4, <1>5, <1>6
  <2> QED BY <1>1, <1>4, <1>6, <2>1, ConcatElements
<1> HIDE DEF A4
<1>8. /\ A5 \in Seq(FamilyAddrs) /\ Distinct(A5)
      /\ Elements(A5) = Elements(A4) \cup Elements(V("Summary"))
  <2>1. Elements(A4) \cap Elements(V("Summary")) = {}
    BY <1>2, <1>4, <1>5, <1>6, <1>7
  <2> QED BY <1>1, <1>4, <1>7, <2>1, ConcatElements
<1>9. CollectOrder = A5
  BY DEF CollectOrder, A2, A3, A4, V
<1> HIDE DEF A5
<1>10. \A f : f \in Elements(A5) <=> Registered(f)
  BY <1>3, <1>4, <1>5, <1>6, <1>7, <1>8 DEF Registered
<1> QED BY <1>8, <1>9, <1>10

-----------------------------------------------------------------------------
(* Metrics and their labels.                                               *)

\* The metrics there are have valid labels, but for the one that a Family::Add has
\* inserted and not yet checked.
Checked ==
  /\ \A f \in FamilyAddrs : family[f] # Null => ValidSpec(family[f])
  /\ \A f \in FamilyAddrs, l \in LabelMaps : metrics[f][l] # Null =>
       /\ family[f] # Null
       /\ \/ ValidLabels(f, l)
          \/ \E t \in Threads : pc[t] = "validate" /\ handle[t].addr = f /\ key[t] = l

\* What it says of one metric.
LEMMA CheckedMetric ==
  ASSUME Checked, NEW f \in FamilyAddrs, NEW l \in LabelMaps, metrics[f][l] # Null
  PROVE  /\ family[f] # Null
         /\ \/ ValidLabels(f, l)
            \/ \E t \in Threads : pc[t] = "validate" /\ handle[t].addr = f /\ key[t] = l
BY DEF Checked

\* No family or metric appears, and no Family::Add returns.
LEMMA CheckedFrame ==
  ASSUME Checked, UNCHANGED family,
         \A f \in FamilyAddrs, l \in LabelMaps : metrics'[f][l] \in {metrics[f][l], Null},
         \A t \in Threads : pc[t] = "validate" =>
           pc'[t] = "validate" /\ handle'[t] = handle[t] /\ key'[t] = key[t]
  PROVE  Checked'
<1>1. \A f \in FamilyAddrs : family'[f] # Null => ValidSpec(family'[f])
  BY DEF Checked
<1>2. \A f \in FamilyAddrs, l \in LabelMaps : metrics'[f][l] # Null =>
        /\ family'[f] # Null
        /\ \/ ValidLabels(f, l)'
           \/ \E t \in Threads : pc'[t] = "validate" /\ handle'[t].addr = f /\ key'[t] = l
  <2> SUFFICES ASSUME NEW f \in FamilyAddrs, NEW l \in LabelMaps, metrics'[f][l] # Null
               PROVE  /\ family'[f] # Null
                      /\ \/ ValidLabels(f, l)'
                         \/ \E t \in Threads :
                              pc'[t] = "validate" /\ handle'[t].addr = f /\ key'[t] = l
    OBVIOUS
  <2>1. metrics[f][l] # Null
    OBVIOUS
  <2>2. ValidLabels(f, l) => ValidLabels(f, l)'
    BY DEF ValidLabels
  <2> QED BY <2>1, <2>2 DEF Checked
<1>3. \A f \in FamilyAddrs : ValidSpec(family'[f]) <=> ValidSpec(family[f])'
  BY DEF ValidSpec, CheckLabelName
<1> QED BY <1>1, <1>2, <1>3 DEF Checked

\* Family::Add takes a metric back whose labels it rejects, before anybody else can
\* have the family.
LEMMA CheckedStep ==
  ASSUME Base, Checked, [Next]_vars
  PROVE  Checked'
<1> USE DEF Base, Types, Goto, Locations, registryVars, familyVars, collectVars
<1>1. CASE UNCHANGED vars
  BY <1>1, CheckedFrame DEF vars
<1>2. ASSUME NEW t \in Threads, NEW s \in FamilySpecs, RegistryAddRejects(t, s)
      PROVE  Checked'
  BY <1>2, CheckedFrame DEF RegistryAddRejects, vars
<1>3. ASSUME NEW t \in Threads, NEW s \in FamilySpecs, RegistryAddMerges(t, s)
      PROVE  Checked'
  BY <1>3, CheckedFrame DEF RegistryAddMerges
<1>4. ASSUME NEW t \in Threads, NEW s \in FamilySpecs, RegistryAddFinds(t, s)
      PROVE  Checked'
  BY <1>4, CheckedFrame DEF RegistryAddFinds
<1>5. ASSUME NEW t \in Threads, RegistryAddPushes(t)
      PROVE  Checked'
  <2>1. CASE UNCHANGED <<families, familyVars, handle>>
    BY <1>5, <2>1, CheckedFrame DEF RegistryAddPushes
  <2>2. ASSUME NEW f \in FamilyAddrs, ValidSpec(req[t]), family[f] = Null,
               family' = [family EXCEPT ![f] = req[t]],
               handle' = [handle EXCEPT ![t] = [addr |-> f, for |-> req[t]]],
               UNCHANGED <<metrics, fmutex>>
        PROVE  Checked'
    <3>1. \A g \in FamilyAddrs : family'[g] # Null => ValidSpec(family[g])'
      BY <2>2 DEF Checked, ValidSpec, CheckLabelName
    <3>2. ASSUME NEW g \in FamilyAddrs, NEW l \in LabelMaps, metrics'[g][l] # Null
          PROVE  /\ family'[g] # Null
                 /\ \/ ValidLabels(g, l)'
                    \/ \E u \in Threads :
                         pc'[u] = "validate" /\ handle'[u].addr = g /\ key'[u] = l
      <4>1. g # f /\ family[g] # Null /\ family'[g] = family[g]
        BY <2>2, <3>2 DEF Checked
      <4>2. ValidLabels(g, l) => ValidLabels(g, l)'
        BY <4>1 DEF ValidLabels
      <4>3. \A u \in Threads : pc[u] = "validate" =>
              pc'[u] = "validate" /\ handle'[u] = handle[u] /\ key'[u] = key[u]
        BY <1>5, <2>2 DEF RegistryAddPushes
      <4>4. CASE ValidLabels(g, l)
        BY <4>1, <4>2, <4>4
      <4>5. ASSUME NEW u \in Threads, pc[u] = "validate", handle[u].addr = g, key[u] = l
            PROVE  pc'[u] = "validate" /\ handle'[u].addr = g /\ key'[u] = l
        BY <4>3, <4>5
      <4>6. metrics[g][l] # Null
        BY <2>2, <3>2
      <4> HIDE DEF Base, Types
      <4> QED BY <4>1, <4>4, <4>5, <4>6, CheckedMetric
    <3> QED BY <3>1, <3>2 DEF Checked
  <2> QED BY <1>5, <2>1, <2>2 DEF RegistryAddPushes
<1>6. ASSUME NEW t \in Threads, NEW f \in FamilyAddrs, RegistryRemoves(t, f)
      PROVE  Checked'
  <2>1. /\ family' = [family EXCEPT ![f] = Null]
        /\ metrics' = [metrics EXCEPT ![f] = [l \in LabelMaps |-> Null]]
        /\ UNCHANGED <<pc, key>>
    BY <1>6 DEF RegistryRemoves
  <2>2. \A u \in Threads : pc[u] = "validate" => handle'[u] = handle[u]
    BY <1>6 DEF RegistryRemoves, NotInUse
  <2>3. \A g \in FamilyAddrs : family'[g] # Null => ValidSpec(family[g])'
    BY <2>1 DEF Checked, ValidSpec, CheckLabelName
  <2>4. ASSUME NEW g \in FamilyAddrs, NEW l \in LabelMaps, metrics'[g][l] # Null
        PROVE  /\ family'[g] # Null
               /\ \/ ValidLabels(g, l)'
                  \/ \E u \in Threads :
                       pc'[u] = "validate" /\ handle'[u].addr = g /\ key'[u] = l
    <3>1. g # f /\ metrics[g][l] # Null /\ family'[g] = family[g]
      BY <2>1, <2>4
    <3>2. ValidLabels(g, l) => ValidLabels(g, l)'
      BY <3>1 DEF ValidLabels
    <3>3. CASE ValidLabels(g, l)
      BY <3>1, <3>2, <3>3, CheckedMetric
    <3>4. ASSUME NEW u \in Threads, pc[u] = "validate", handle[u].addr = g, key[u] = l
          PROVE  pc'[u] = "validate" /\ handle'[u].addr = g /\ key'[u] = l
      BY <2>1, <2>2, <3>4
    <3> HIDE DEF Base, Types
    <3> QED BY <3>1, <3>3, <3>4, CheckedMetric
  <2> QED BY <2>3, <2>4 DEF Checked
<1>7. ASSUME NEW t \in Threads, NEW f \in FamilyAddrs, RegistryRemovesNothing(t, f)
      PROVE  Checked'
  BY <1>7, CheckedFrame DEF RegistryRemovesNothing, vars
<1>8. ASSUME NEW t \in Threads, NEW l \in LabelMaps, FamilyAddFindsExisting(t, l)
      PROVE  Checked'
  BY <1>8, CheckedFrame DEF FamilyAddFindsExisting, vars
<1>9. ASSUME NEW t \in Threads, NEW l \in LabelMaps, FamilyAddEmplaces(t, l)
      PROVE  Checked'
  <2> DEFINE f == handle[t].addr
  <2>1. PICK m \in MetricAddrs : metrics' = [metrics EXCEPT ![f][l] = m]
    BY <1>9 DEF FamilyAddEmplaces
  <2>2. f \in FamilyAddrs /\ family[f] # Null
    BY <1>9, NullAssumption DEF FamilyAddEmplaces, Handles, HandlesDesignate
  <2>3. /\ UNCHANGED <<family, handle>> /\ pc'[t] = "validate" /\ key'[t] = l
        /\ \A u \in Threads \ {t} : pc'[u] = pc[u] /\ key'[u] = key[u]
        /\ pc[t] = "idle"
    BY <1>9 DEF FamilyAddEmplaces
  <2>4. \A g \in FamilyAddrs : family'[g] # Null => ValidSpec(family[g])'
    BY <2>3 DEF Checked, ValidSpec, CheckLabelName
  <2>5. ASSUME NEW g \in FamilyAddrs, NEW k \in LabelMaps, metrics'[g][k] # Null
        PROVE  /\ family'[g] # Null
               /\ \/ ValidLabels(g, k)'
                  \/ \E u \in Threads :
                       pc'[u] = "validate" /\ handle'[u].addr = g /\ key'[u] = k
    <3>1. CASE g = f /\ k = l
      BY <2>2, <2>3, <3>1
    <3>2. CASE ~ (g = f /\ k = l)
      <4>1. metrics[g][k] # Null
        BY <2>1, <2>2, <2>5, <3>2
      <4>2. ValidLabels(g, k) => ValidLabels(g, k)'
        BY <2>3 DEF ValidLabels
      <4>3. \A u \in Threads : pc[u] = "validate" => u # t
        BY <2>3
      <4>4. CASE ValidLabels(g, k)
        BY <2>3, <4>1, <4>2, <4>4, CheckedMetric
      <4>5. ASSUME NEW u \in Threads, pc[u] = "validate", handle[u].addr = g, key[u] = k
            PROVE  pc'[u] = "validate" /\ handle'[u].addr = g /\ key'[u] = k
        BY <2>3, <4>3, <4>5
      <4> HIDE DEF Base, Types
      <4> QED BY <2>3, <4>1, <4>4, <4>5, CheckedMetric
    <3> QED BY <3>1, <3>2
  <2> QED BY <2>4, <2>5 DEF Checked
<1>10. ASSUME NEW t \in Threads, FamilyAddValidates(t)
      PROVE  Checked'
  <2> DEFINE f == handle[t].addr
             l == key[t]
  <2>1. f \in FamilyAddrs /\ l \in LabelMaps
    BY <1>10 DEF FamilyAddValidates, LockOwners, Handles
  <2>2. metrics' = IF ValidLabels(f, l) THEN metrics ELSE [metrics EXCEPT ![f][l] = Null]
    BY <1>10 DEF FamilyAddValidates
  <2>3. /\ UNCHANGED <<family, handle>>
        /\ \A u \in Threads \ {t} : pc'[u] = pc[u] /\ key'[u] = key[u]
    BY <1>10 DEF FamilyAddValidates
  <2>4. \A g \in FamilyAddrs : family'[g] # Null => ValidSpec(family[g])'
    BY <2>3 DEF Checked, ValidSpec, CheckLabelName
  <2>5. ASSUME NEW g \in FamilyAddrs, NEW k \in LabelMaps, metrics'[g][k] # Null
        PROVE  /\ family'[g] # Null
               /\ \/ ValidLabels(g, k)'
                  \/ \E u \in Threads :
                       pc'[u] = "validate" /\ handle'[u].addr = g /\ key'[u] = k
    <3>1. metrics[g][k] # Null /\ (g = f /\ k = l => ValidLabels(f, l))
      BY <2>1, <2>2, <2>5
    <3>2. ValidLabels(g, k) => ValidLabels(g, k)'
      BY <2>3 DEF ValidLabels
    <3>3. ASSUME NEW u \in Threads, pc[u] = "validate", handle[u].addr = g, key[u] = k,
                 ~ ValidLabels(g, k)
          PROVE  pc'[u] = "validate" /\ handle'[u].addr = g /\ key'[u] = k
      BY <2>3, <3>1, <3>3
    <3> HIDE DEF f, l
    <3> QED BY <2>3, <3>1, <3>2, <3>3 DEF Checked
  <2> QED BY <2>4, <2>5 DEF Checked
<1>11. ASSUME NEW t \in Threads, NEW m \in MetricAddrs, FamilyRemoves(t, m)
      PROVE  Checked'
  <2>1. handle[t].addr \in FamilyAddrs
    BY <1>11 DEF FamilyRemoves, Handles
  <2>2. \A f \in FamilyAddrs, l \in LabelMaps : metrics'[f][l] \in {metrics[f][l], Null}
    BY <1>11, <2>1 DEF FamilyRemoves
  <2> QED BY <1>11, <2>2, CheckedFrame DEF FamilyRemoves
<1>12. ASSUME NEW t \in Threads, CollectBegins(t)
      PROVE  Checked'
  BY <1>12, CheckedFrame DEF CollectBegins
<1>13. ASSUME NEW t \in Threads, CollectLocksFamily(t)
      PROVE  Checked'
  BY <1>13, CheckedFrame DEF CollectLocksFamily
<1>14. ASSUME NEW t \in Threads, CollectMetric(t)
      PROVE  Checked'
  BY <1>14, CheckedFrame DEF CollectMetric
<1>15. ASSUME NEW t \in Threads, CollectUnlocksFamily(t)
      PROVE  Checked'
  BY <1>15, CheckedFrame DEF CollectUnlocksFamily
<1>16. ASSUME NEW t \in Threads, CollectEnds(t)
      PROVE  Checked'
  BY <1>16, CheckedFrame DEF CollectEnds
<1> QED
  BY <1>1, <1>2, <1>3, <1>4, <1>5, <1>6, <1>7, <1>8, <1>9, <1>10, <1>11,
     <1>12, <1>13, <1>14, <1>15, <1>16 DEF Next, Call, Continue

-----------------------------------------------------------------------------
(* What a scrape has gathered.                                             *)

Scraping == {t \in Threads : pc[t] \in {"families", "metrics"}}

\* The families a scrape still has to visit are registered, and each comes once.
Order ==
  \A t \in Scraping :
    /\ Distinct(todo[t])
    /\ \A f \in Elements(todo[t]) : Registered(f)

\* Metric l of family f has been visited.
Visited(t, f, l) ==
  f \in Elements(todo[t]) => pc[t] = "metrics" /\ f = Head(todo[t]) /\ l \notin left[t]

\* Each sample is that of a metric of a registered family, with valid labels, and
\* has been taken at the scrape's one visit to this metric.
Gathered ==
  /\ result = [t \in Threads |-> result[t]]
  /\ \A t \in Threads \ Scraping : result[t] = {}
  /\ \A t \in Scraping : \A r \in result[t] :
       \E f \in FamilyAddrs, l \in LabelMaps :
         /\ Registered(f) /\ family[f] # Null /\ ValidLabels(f, l) /\ Visited(t, f, l)
         /\ r.name = family[f].name /\ r.type = family[f].type /\ r.labels = AllLabels(f, l)

Scrapes == Order /\ Gathered /\ SeriesUnique

\* A step that moves no scrape on and leaves the registry's families alone.
LEMMA ScrapesFrame ==
  ASSUME Scrapes, UNCHANGED <<families, family, todo, left, result>>,
         \A t \in Threads : \A loc \in {"families", "metrics"} : pc'[t] = loc <=> pc[t] = loc
  PROVE  Scrapes'
<1>1. Scraping' = Scraping
  BY DEF Scraping
<1>2. \A f : Registered(f)' = Registered(f)
  BY DEF Registered, InVector
<1>3. Order'
  BY <1>1, <1>2 DEF Scrapes, Order
<1>4. \A t \in Threads, f \in FamilyAddrs, l \in LabelMaps :
        /\ ValidLabels(f, l)' = ValidLabels(f, l) /\ AllLabels(f, l)' = AllLabels(f, l)
        /\ Visited(t, f, l)' = Visited(t, f, l)
  BY DEF ValidLabels, AllLabels, Visited
<1>5. ASSUME NEW t \in Scraping, NEW r \in result[t]
      PROVE  \E f \in FamilyAddrs, l \in LabelMaps :
               /\ Registered(f)' /\ family'[f] # Null /\ ValidLabels(f, l)' /\ Visited(t, f, l)'
               /\ r.name = family'[f].name /\ r.type = family'[f].type
               /\ r.labels = AllLabels(f, l)'
  <2>1. PICK f \in FamilyAddrs, l \in LabelMaps :
          /\ Registered(f) /\ family[f] # Null /\ ValidLabels(f, l) /\ Visited(t, f, l)
          /\ r.name = family[f].name /\ r.type = family[f].type /\ r.labels = AllLabels(f, l)
    BY <1>5 DEF Scrapes, Gathered
  <2>2. t \in Threads
    BY <1>5 DEF Scraping
  <2> QED BY <1>2, <1>4, <2>1, <2>2
<1>6. Gathered'
  BY <1>1, <1>5 DEF Scrapes, Gathered
<1>7. SeriesUnique'
  BY DEF Scrapes, SeriesUnique
<1> QED BY <1>3, <1>6, <1>7 DEF Scrapes

\* A step while nobody scrapes.
LEMMA ScrapesIdle ==
  ASSUME Scrapes, UNCHANGED result, Scraping = {}, Scraping' = {}
  PROVE  Scrapes'
<1>1. \A t \in Threads : result'[t] = {}
  BY DEF Scrapes, Gathered
<1>2. Gathered'
  BY <1>1 DEF Scrapes, Gathered
<1> QED BY <1>1, <1>2 DEF Scrapes, Order, SeriesUnique

\* There is one scrape at a time, under the mutex of the registry.
LEMMA OneScrape ==
  ASSUME Base, NEW t \in Scraping
  PROVE  Scraping = {t} /\ mutex = t
BY ThreadsAssumption DEF Base, LockOwners, Scraping

\* While the mutex is free or a Registry::Add has it there is none.
LEMMA NoScrape ==
  ASSUME Base, mutex = NoThread \/ \E t \in Threads : pc[t] = "construct"
  PROVE  Scraping = {}
BY ThreadsAssumption DEF Base, LockOwners, Scraping

\* Registry::Collect has the mutex.
LEMMA BeginsScrape ==
  ASSUME Base, Scrapes, NEW t \in Threads, CollectBegins(t)
  PROVE  Scrapes'
<1>1. Scraping = {}
  BY NoScrape DEF CollectBegins, CollectLocks
<1>2. Scraping' = {t} /\ pc'[t] = "families"
  BY <1>1 DEF Base, Types, CollectBegins, Goto, Scraping
<1>3. UNCHANGED <<families, result>> /\ todo'[t] = CollectOrder
  BY DEF Base, Types, CollectBegins
<1>4. Order'
  <2>1. \A f : Registered(f)' = Registered(f)
    BY <1>3 DEF Registered, InVector
  <2>2. Distinct(todo'[t]) /\ \A f \in Elements(todo'[t]) : Registered(f)'
    BY <1>3, <2>1, CollectOrderElements
  <2> QED BY <1>2, <2>2 DEF Order
<1>5. \A u \in Threads : result'[u] = {}
  BY <1>1, <1>3 DEF Scrapes, Gathered
<1>6. Gathered'
  BY <1>2, <1>3, <1>5 DEF Scrapes, Gathered
<1>7. SeriesUnique'
  BY <1>5 DEF SeriesUnique
<1> QED BY <1>4, <1>6, <1>7 DEF Scrapes

\* A step of the scrape that adds no sample and forgets no visit.
LEMMA ScrapeGoesOn ==
  ASSUME Base, Scrapes, NEW t \in Scraping, Scraping' = {t},
         UNCHANGED <<families, family, result>>,
         Distinct(todo'[t]), Elements(todo'[t]) \subseteq Elements(todo[t]),
         \A f \in FamilyAddrs, l \in LabelMaps : Visited(t, f, l) => Visited(t, f, l)'
  PROVE  Scrapes'
<1>1. \A f : Registered(f)' = Registered(f)
  BY DEF Registered, InVector
<1>2. Order'
  BY <1>1 DEF Scrapes, Order
<1>3. \A f \in FamilyAddrs, l \in LabelMaps :
        ValidLabels(f, l)' = ValidLabels(f, l) /\ AllLabels(f, l)' = AllLabels(f, l)
  BY DEF ValidLabels, AllLabels
<1>4. ASSUME NEW r \in result[t]
      PROVE  \E f \in FamilyAddrs, l \in LabelMaps :
               /\ Registered(f)' /\ family'[f] # Null /\ ValidLabels(f, l)' /\ Visited(t, f, l)'
               /\ r.name = family'[f].name /\ r.type = family'[f].type
               /\ r.labels = AllLabels(f, l)'
  <2>1. PICK f \in FamilyAddrs, l \in LabelMaps :
          /\ Registered(f) /\ family[f] # Null /\ ValidLabels(f, l) /\ Visited(t, f, l)
          /\ r.name = family[f].name /\ r.type = family[f].type /\ r.labels = AllLabels(f, l)
    BY <1>4 DEF Scrapes, Gathered
  <2> QED BY <1>1, <1>3, <2>1
<1>5. \A u \in Threads \ {t} : result'[u] = {}
  BY OneScrape DEF Scrapes, Gathered
<1>6. Gathered'
  BY <1>4, <1>5 DEF Scrapes, Gathered
<1>7. SeriesUnique'
  BY DEF Scrapes, SeriesUnique
<1> QED BY <1>2, <1>6, <1>7 DEF Scrapes

\* Two metrics of one family with the same labels in the text are one metric.
LEMMA LabelsTellApart ==
  ASSUME NEW f \in FamilyAddrs, NEW k \in LabelMaps, NEW l \in LabelMaps,
         ValidLabels(f, k), ValidLabels(f, l), AllLabels(f, k) = AllLabels(f, l)
  PROVE  k = l
<1> DEFINE C == DOMAIN family[f].labels
<1>1. DOMAIN k \cap C = {} /\ DOMAIN l \cap C = {}
  BY DEF ValidLabels
<1>2. C \cup DOMAIN k = C \cup DOMAIN l
  BY DEF AllLabels, Joined
<1>3. DOMAIN k = DOMAIN l
  BY <1>1, <1>2
<1>4. ASSUME NEW n \in DOMAIN k
      PROVE  k[n] = l[n]
  <2>1. n \notin C /\ n \in DOMAIN l
    BY <1>1, <1>3
  <2>2. AllLabels(f, k)[n] = k[n] /\ AllLabels(f, l)[n] = l[n]
    BY <2>1 DEF AllLabels, Joined
  <2> QED BY <2>2
<1>5. k = [n \in DOMAIN k |-> k[n]] /\ l = [n \in DOMAIN l |-> l[n]]
  BY LabelsAreMaps
<1> QED BY <1>3, <1>4, <1>5

\* What is in the map of a family while it is collected has valid labels.
LEMMA LeftAreValid ==
  ASSUME Base, Checked, EntriesValid, NEW t \in Threads, pc[t] = "metrics", NEW l \in left[t]
  PROVE  LET f == Head(todo[t]) IN
           /\ f \in FamilyAddrs /\ f \in Elements(todo[t]) /\ l \in LabelMaps
           /\ metrics[f][l] # Null /\ family[f] # Null
           /\ ValidLabels(f, l)
<1> DEFINE f == Head(todo[t])
<1>1. todo[t] # <<>> /\ todo[t] \in Seq(FamilyAddrs) /\ fmutex[f] = t
  BY DEF Base, Types, LockOwners
<1>2. f \in FamilyAddrs /\ f \in Elements(todo[t])
  BY <1>1, HeadTailProperties, TailElements
<1>3. l \in LabelMaps /\ metrics[f][l] # Null
  BY DEF Base, Types, EntriesValid, Stored
<1>4. ASSUME NEW u \in Threads, pc[u] = "validate", handle[u].addr = f
      PROVE  FALSE
  BY <1>1, <1>4 DEF Base, LockOwners
<1> HIDE DEF f
<1>5. family[f] # Null /\ ValidLabels(f, l)
  BY <1>2, <1>3, <1>4, CheckedMetric
<1> QED BY <1>2, <1>3, <1>5 DEF f

\* CollectMetric adds the sample of an entry it visits for the first time.
LEMMA AddsSample ==
  ASSUME Base, Checked, EntriesValid, Scrapes, NEW t \in Threads, CollectMetric(t)
  PROVE  Scrapes'
<1>0. PICK f : f = Head(todo[t])
  OBVIOUS
<1>1. PICK l \in left[t] :
        /\ left' = [left EXCEPT ![t] = @ \ {l}]
        /\ result' = [result EXCEPT ![t] = @ \cup {Sample(f, l)}]
  BY <1>0 DEF CollectMetric
<1>2. /\ pc[t] = "metrics" /\ t \in Scraping
      /\ UNCHANGED <<families, family, metrics, pc, todo>>
  BY DEF CollectMetric, Scraping, registryVars, familyVars
<1>q. PICK q : q = Sample(f, l)
  OBVIOUS
<1>3. /\ f \in FamilyAddrs /\ f \in Elements(todo[t]) /\ l \in LabelMaps
      /\ metrics[f][l] # Null /\ family[f] # Null /\ ValidLabels(f, l)
  BY <1>0, <1>2, LeftAreValid
<1>4. /\ q.name = family[f].name /\ q.type = family[f].type /\ q.labels = AllLabels(f, l)
  BY <1>q DEF Sample
<1>5. Scraping' = {t} /\ Scraping = {t}
  BY <1>2, OneScrape DEF Scraping
<1>6. Registered(f) /\ \A g : Registered(g)' = Registered(g)
  BY <1>2, <1>3 DEF Scrapes, Order, Registered, InVector
<1>7. Order'
  BY <1>2, <1>5, <1>6 DEF Scrapes, Order
<1>8. \A g \in FamilyAddrs, k \in LabelMaps :
        ValidLabels(g, k)' = ValidLabels(g, k) /\ AllLabels(g, k)' = AllLabels(g, k)
  BY <1>2 DEF ValidLabels, AllLabels
<1>9. left'[t] = left[t] \ {l}
  BY <1>1 DEF Base, Types
<1>10. result'[t] = result[t] \cup {q} /\ \A u \in Threads \ {t} : result'[u] = {}
  <2>1. result' = [u \in Threads |-> IF u = t THEN result[u] \cup {q} ELSE result[u]]
    BY <1>1, <1>q DEF Scrapes, Gathered
  <2> QED BY <1>5, <2>1 DEF Scrapes, Gathered
<1>11. \A g \in FamilyAddrs, k \in LabelMaps : Visited(t, g, k) => Visited(t, g, k)'
  BY <1>2, <1>9 DEF Visited
<1>12. Visited(t, f, l)'
  BY <1>0, <1>2, <1>9 DEF Visited
<1>13. ASSUME NEW r \in result[t]
       PROVE  \E g \in FamilyAddrs, k \in LabelMaps :
                /\ Registered(g) /\ family[g] # Null /\ ValidLabels(g, k) /\ Visited(t, g, k)
                /\ r.name = family[g].name /\ r.type = family[g].type
                /\ r.labels = AllLabels(g, k)
  BY <1>5, <1>13 DEF Scrapes, Gathered
<1>14. ASSUME NEW r \in result'[t]
       PROVE  \E g \in FamilyAddrs, k \in LabelMaps :
                /\ Registered(g)' /\ family'[g] # Null /\ ValidLabels(g, k)' /\ Visited(t, g, k)'
                /\ r.name = family'[g].name /\ r.type = family'[g].type
                /\ r.labels = AllLabels(g, k)'
  <2>1. CASE r = q
    <3>1. Registered(f)' /\ ValidLabels(f, l)' /\ AllLabels(f, l)' = AllLabels(f, l)
      BY <1>3, <1>6, <1>8
    <3>2. /\ family'[f] # Null /\ r.name = family'[f].name /\ r.type = family'[f].type
          /\ r.labels = AllLabels(f, l)
      BY <1>2, <1>3, <1>4, <2>1
    <3> QED BY <1>3, <1>12, <3>1, <3>2
  <2>2. CASE r \in result[t]
    <3>1. PICK g \in FamilyAddrs, k \in LabelMaps :
            /\ Registered(g) /\ family[g] # Null /\ ValidLabels(g, k) /\ Visited(t, g, k)
            /\ r.name = family[g].name /\ r.type = family[g].type
            /\ r.labels = AllLabels(g, k)
      BY <1>13, <2>2
    <3> QED BY <1>2, <1>6, <1>8, <1>11, <3>1
  <2> QED BY <1>10, <1>14, <2>1, <2>2
<1>15. Gathered'
  <2>1. result' = [u \in Threads |-> result'[u]]
    BY <1>1 DEF Scrapes, Gathered
  <2> QED BY <1>5, <1>10, <1>14, <2>1 DEF Gathered
<1>16. ASSUME NEW r \in result[t], r.name = q.name, r.labels = q.labels
       PROVE  FALSE
  <2>1. PICK g \in FamilyAddrs, k \in LabelMaps :
          /\ Registered(g) /\ family[g] # Null /\ ValidLabels(g, k) /\ Visited(t, g, k)
          /\ r.name = family[g].name /\ r.type = family[g].type
          /\ r.labels = AllLabels(g, k)
    BY <1>13, <1>16
  <2>2. g = f
    <3>1. family[g].name = family[f].name
      BY <1>4, <1>16, <2>1
    <3>2. PICK u \in MetricTypes : \E i \in DOMAIN families[u] : families[u][i] = g
      BY <2>1 DEF Registered, InVector
    <3>3. PICK v \in MetricTypes : \E j \in DOMAIN families[v] : families[v][j] = f
      BY <1>6 DEF Registered, InVector
    <3>4. PICK i \in DOMAIN families[u] : families[u][i] = g
      BY <3>2
    <3>5. PICK j \in DOMAIN families[v] : families[v][j] = f
      BY <3>3
    <3>6. u = v /\ i = j
      BY <3>1, <3>4, <3>5 DEF Base, NamesUnique
    <3> QED BY <3>4, <3>5, <3>6
  <2>3. k = l
    BY <1>3, <1>4, <1>16, <2>1, <2>2, LabelsTellApart
  <2> QED BY <1>3, <2>1, <2>2, <2>3 DEF Visited
<1>17. SeriesUnique'
  <2> SUFFICES ASSUME NEW u \in Threads, NEW r \in result'[u], NEW s \in result'[u],
                      r.name = s.name, r.labels = s.labels
               PROVE  r = s
    BY DEF SeriesUnique
  <2>1. u = t
    BY <1>10
  <2>2. r \in result[t] \cup {q} /\ s \in result[t] \cup {q}
    BY <1>10, <2>1
  <2>3. CASE r \in result[t] /\ s \in result[t]
    BY <2>3 DEF Scrapes, SeriesUnique
  <2>4. CASE r = q \/ s = q
    BY <1>16, <2>2, <2>4
  <2> QED BY <2>2, <2>3, <2>4
<1> QED BY <1>7, <1>15, <1>17 DEF Scrapes

\* Every step keeps what a scrape has gathered true.
LEMMA ScrapesStep ==
  ASSUME Base, Checked, EntriesValid, Scrapes, [Next]_vars
  PROVE  Scrapes'
<1> USE DEF Goto, registryVars, familyVars, collectVars
<1>0. pc \in [Threads -> Locations] /\ todo \in [Threads -> Seq(FamilyAddrs)]
      /\ left \in [Threads -> SUBSET LabelMaps]
  BY DEF Base, Types
<1>1. CASE UNCHANGED vars
  BY <1>1, ScrapesFrame DEF vars
<1>2. ASSUME NEW t \in Threads, NEW s \in FamilySpecs, RegistryAddRejects(t, s)
      PROVE  Scrapes'
  BY <1>2, ScrapesFrame DEF RegistryAddRejects, vars
<1>3. ASSUME NEW t \in Threads, NEW s \in FamilySpecs, RegistryAddMerges(t, s)
      PROVE  Scrapes'
  BY <1>3, ScrapesFrame DEF RegistryAddMerges
<1>4. ASSUME NEW t \in Threads, NEW s \in FamilySpecs, RegistryAddFinds(t, s)
      PROVE  Scrapes'
  BY <1>0, <1>4, ScrapesFrame DEF RegistryAddFinds
<1>5. ASSUME NEW t \in Threads, RegistryAddPushes(t)
      PROVE  Scrapes'
  <2>1. Scraping = {} /\ UNCHANGED result
    BY <1>5, NoScrape DEF RegistryAddPushes
  <2>2. Scraping' = {}
    BY <1>0, <1>5, <2>1 DEF RegistryAddPushes, Scraping
  <2> QED BY <2>1, <2>2, ScrapesIdle
<1>6. ASSUME NEW t \in Threads, NEW f \in FamilyAddrs, RegistryRemoves(t, f)
      PROVE  Scrapes'
  <2>1. Scraping = {} /\ UNCHANGED <<pc, result>>
    BY <1>6, NoScrape DEF RegistryRemoves, RemoveLocks
  <2> QED BY <2>1, ScrapesIdle DEF Scraping
<1>7. ASSUME NEW t \in Threads, NEW f \in FamilyAddrs, RegistryRemovesNothing(t, f)
      PROVE  Scrapes'
  BY <1>7, ScrapesFrame DEF RegistryRemovesNothing, vars
<1>8. ASSUME NEW t \in Threads, NEW l \in LabelMaps, FamilyAddFindsExisting(t, l)
      PROVE  Scrapes'
  BY <1>8, ScrapesFrame DEF FamilyAddFindsExisting, vars
<1>9. ASSUME NEW t \in Threads, NEW l \in LabelMaps, FamilyAddEmplaces(t, l)
      PROVE  Scrapes'
  BY <1>0, <1>9, ScrapesFrame DEF FamilyAddEmplaces
<1>10. ASSUME NEW t \in Threads, FamilyAddValidates(t)
      PROVE  Scrapes'
  BY <1>0, <1>10, ScrapesFrame DEF FamilyAddValidates
<1>11. ASSUME NEW t \in Threads, NEW m \in MetricAddrs, FamilyRemoves(t, m)
      PROVE  Scrapes'
  BY <1>11, ScrapesFrame DEF FamilyRemoves
<1>12. ASSUME NEW t \in Threads, CollectBegins(t)
      PROVE  Scrapes'
  BY <1>12, BeginsScrape
<1>13. ASSUME NEW t \in Threads, CollectLocksFamily(t)
      PROVE  Scrapes'
  <2>1. /\ t \in Scraping /\ pc[t] = "families" /\ pc'[t] = "metrics"
        /\ UNCHANGED <<families, family, todo, result>>
    BY <1>0, <1>13 DEF CollectLocksFamily, Scraping
  <2>2. Scraping = {t}
    BY <2>1, OneScrape
  <2>3. Scraping' = {t}
    BY <1>0, <1>13, <2>2 DEF CollectLocksFamily, Scraping
  <2>4. \A f \in FamilyAddrs, l \in LabelMaps : Visited(t, f, l) => Visited(t, f, l)'
    BY <2>1 DEF Visited
  <2>5. Distinct(todo'[t]) /\ Elements(todo'[t]) \subseteq Elements(todo[t])
    BY <2>1 DEF Scrapes, Order
  <2> QED BY <2>1, <2>3, <2>4, <2>5, ScrapeGoesOn
<1>14. ASSUME NEW t \in Threads, CollectMetric(t)
      PROVE  Scrapes'
  BY <1>14, AddsSample
<1>15. ASSUME NEW t \in Threads, CollectUnlocksFamily(t)
      PROVE  Scrapes'
  <2>1. /\ t \in Scraping /\ pc[t] = "metrics" /\ pc'[t] = "families" /\ left[t] = {}
        /\ todo'[t] = Tail(todo[t]) /\ todo[t] # <<>>
        /\ UNCHANGED <<families, family, result>>
    BY <1>0, <1>15 DEF CollectUnlocksFamily, Scraping, Base, LockOwners
  <2>2. Scraping = {t}
    BY <2>1, OneScrape
  <2>3. Scraping' = {t}
    BY <1>0, <1>15, <2>2 DEF CollectUnlocksFamily, Scraping
  <2>4. Distinct(todo[t])
    BY <2>1 DEF Scrapes, Order
  <2>5. /\ Distinct(todo'[t]) /\ Elements(todo'[t]) \subseteq Elements(todo[t])
        /\ Head(todo[t]) \notin Elements(todo'[t])
    BY <1>0, <2>1, <2>4, TailElements
  <2>6. \A f \in FamilyAddrs, l \in LabelMaps : Visited(t, f, l) => Visited(t, f, l)'
    BY <2>5 DEF Visited
  <2> QED BY <2>1, <2>3, <2>5, <2>6, ScrapeGoesOn
<1>16. ASSUME NEW t \in Threads, CollectEnds(t)
      PROVE  Scrapes'
  <2>1. t \in Scraping /\ pc'[t] = "idle"
    BY <1>0, <1>16 DEF CollectEnds, Scraping
  <2>2. Scraping = {t}
    BY <2>1, OneScrape
  <2>3. Scraping' = {}
    BY <1>0, <1>16, <2>2 DEF CollectEnds, Scraping
  <2>4. result' = [result EXCEPT ![t] = {}]
    BY <1>16 DEF CollectEnds
  <2>5. \A u \in Threads : result'[u] = {}
    BY <2>2, <2>4 DEF Scrapes, Gathered
  <2>6. result' = [u \in Threads |-> result'[u]]
    BY <2>4 DEF Scrapes, Gathered
  <2>7. Order' /\ SeriesUnique'
    BY <2>3, <2>5 DEF Order, SeriesUnique
  <2>8. Gathered'
    BY <2>3, <2>5, <2>6 DEF Gathered
  <2> QED BY <2>7, <2>8 DEF Scrapes
<1> QED
  BY <1>1, <1>2, <1>3, <1>4, <1>5, <1>6, <1>7, <1>8, <1>9, <1>10, <1>11,
     <1>12, <1>13, <1>14, <1>15, <1>16 DEF Next, Call, Continue

-----------------------------------------------------------------------------
(* What a scrape has still to gather.                                      *)

\* What is due has been gathered, or is a metric that will be visited.
Pending ==
  /\ due = [t \in Threads |-> due[t]]
  /\ \A t \in Scraping : \A d \in due[t] :
       \/ d \in result[t]
       \/ \E f \in FamilyAddrs, l \in LabelMaps :
            ~ Visited(t, f, l) /\ metrics[f][l] # Null /\ ValidLabels(f, l) /\ d = Sample(f, l)

\* A step that moves no scrape on and leaves every metric with valid labels alone.
LEMMA PendingFrame ==
  ASSUME Pending, UNCHANGED <<family, todo, left, result, due>>,
         \A t \in Threads : \A loc \in {"families", "metrics"} : pc'[t] = loc <=> pc[t] = loc,
         \A f \in FamilyAddrs, l \in LabelMaps :
           metrics[f][l] # Null /\ ValidLabels(f, l) => metrics'[f][l] = metrics[f][l]
  PROVE  Pending'
<1>1. Scraping' = Scraping /\ \A t \in Scraping : t \in Threads
  BY DEF Scraping
<1>2. \A t \in Threads, f \in FamilyAddrs, l \in LabelMaps :
        /\ ValidLabels(f, l) => ValidLabels(f, l)'
        /\ ~ Visited(t, f, l) => ~ Visited(t, f, l)'
  BY DEF ValidLabels, Visited
<1>3. \A f \in FamilyAddrs, l \in LabelMaps :
        metrics'[f][l] = metrics[f][l] => Sample(f, l)' = Sample(f, l)
  BY DEF Sample, AllLabels
<1>4. ASSUME NEW t \in Scraping, NEW d \in due[t]
      PROVE  \/ d \in result[t]
             \/ \E f \in FamilyAddrs, l \in LabelMaps :
                  /\ ~ Visited(t, f, l)' /\ metrics'[f][l] # Null /\ ValidLabels(f, l)'
                  /\ d = Sample(f, l)'
  <2>1. ASSUME NEW f \in FamilyAddrs, NEW l \in LabelMaps,
               ~ Visited(t, f, l) /\ metrics[f][l] # Null /\ ValidLabels(f, l) /\ d = Sample(f, l)
        PROVE  /\ ~ Visited(t, f, l)' /\ metrics'[f][l] # Null /\ ValidLabels(f, l)'
               /\ d = Sample(f, l)'
    BY <1>1, <1>2, <1>3, <2>1
  <2> QED BY <1>4, <2>1 DEF Pending
<1> QED BY <1>1, <1>4 DEF Pending

\* Registry::Collect has the mutex: all families are still to be visited.
LEMMA BeginsPending ==
  ASSUME Base, Pending, NEW t \in Threads, CollectBegins(t)
  PROVE  Pending'
<1>1. Scraping = {}
  BY NoScrape DEF CollectBegins, CollectLocks
<1>2. Scraping' = {t} /\ pc'[t] = "families"
  BY <1>1 DEF Base, Types, CollectBegins, Goto, Scraping
<1>3. UNCHANGED <<families, family, metrics>> /\ todo'[t] = CollectOrder
  BY DEF Base, Types, CollectBegins, familyVars
<1>4. /\ due' = [due EXCEPT ![t] = due'[t]]
      /\ due'[t] = {Sample(fl[1], fl[2]) : fl \in
                     {gl \in FamilyAddrs \X LabelMaps :
                        /\ Registered(gl[1]) /\ gl[2] \in Stored(gl[1])
                        /\ ValidLabels(gl[1], gl[2])}}
  BY DEF Pending, CollectBegins
<1>5. ASSUME NEW d \in due'[t]
      PROVE  \E f \in FamilyAddrs, l \in LabelMaps :
               /\ ~ Visited(t, f, l)' /\ metrics'[f][l] # Null /\ ValidLabels(f, l)'
               /\ d = Sample(f, l)'
  <2>1. PICK fl \in FamilyAddrs \X LabelMaps :
          /\ Registered(fl[1]) /\ fl[2] \in Stored(fl[1]) /\ ValidLabels(fl[1], fl[2])
          /\ d = Sample(fl[1], fl[2])
    BY <1>4, <1>5
  <2>2. PICK f \in FamilyAddrs, l \in LabelMaps : f = fl[1] /\ l = fl[2]
    BY <2>1
  <2>3. Registered(f) /\ l \in Stored(f) /\ ValidLabels(f, l) /\ d = Sample(f, l)
    BY <2>1, <2>2
  <2>4. f \in Elements(todo'[t])
    BY <1>3, <2>3, CollectOrderElements
  <2>5. ~ Visited(t, f, l)'
    BY <1>2, <2>4 DEF Visited
  <2>6. metrics'[f][l] # Null /\ ValidLabels(f, l)' /\ d = Sample(f, l)'
    BY <1>3, <2>3 DEF Stored, ValidLabels, Sample, AllLabels
  <2> QED BY <2>5, <2>6
<1>6. due' = [u \in Threads |-> due'[u]]
  BY <1>4 DEF Pending
<1> QED BY <1>2, <1>5, <1>6 DEF Pending

\* Family::Remove takes a metric away, from what is due as well.
LEMMA RemovesPending ==
  ASSUME Base, Pending, NEW t \in Threads, NEW m \in MetricAddrs, FamilyRemoves(t, m)
  PROVE  Pending'
<1>0. PICK g : g = handle[t].addr
  OBVIOUS
<1>1. g \in FamilyAddrs
  BY <1>0 DEF FamilyRemoves, Base, Types, Handles
<1> DEFINE gone == {l \in LabelMaps : metrics[g][l] = m}
<1>2. /\ metrics' = [metrics EXCEPT ![g] =
                       [l \in LabelMaps |-> IF l \in gone THEN Null ELSE @[l]]]
      /\ due' = [u \in Threads |-> due[u] \ {Sample(g, l) : l \in gone}]
      /\ UNCHANGED <<family, pc, todo, left, result>>
  BY <1>0 DEF FamilyRemoves
<1>3. Scraping' = Scraping /\ \A u \in Scraping : u \in Threads
  BY <1>2 DEF Scraping
<1>4. ASSUME NEW u \in Scraping, NEW d \in due'[u]
      PROVE  \/ d \in result[u]
             \/ \E f \in FamilyAddrs, l \in LabelMaps :
                  /\ ~ Visited(u, f, l)' /\ metrics'[f][l] # Null /\ ValidLabels(f, l)'
                  /\ d = Sample(f, l)'
  <2>1. d \in due[u] /\ d \notin {Sample(g, l) : l \in gone}
    BY <1>2, <1>3
  <2>2. ASSUME NEW f \in FamilyAddrs, NEW l \in LabelMaps,
               ~ Visited(u, f, l), metrics[f][l] # Null, ValidLabels(f, l), d = Sample(f, l)
        PROVE  /\ ~ Visited(u, f, l)' /\ metrics'[f][l] # Null /\ ValidLabels(f, l)'
               /\ d = Sample(f, l)'
    <3>1. ~ (f = g /\ l \in gone)
      BY <2>1, <2>2
    <3>2. metrics'[f][l] = metrics[f][l]
      BY <1>1, <1>2, <3>1 DEF Base, Types
    <3>3. ~ Visited(u, f, l)' /\ ValidLabels(f, l)'
      BY <1>2, <2>2 DEF Visited, ValidLabels
    <3>4. Sample(f, l)' = Sample(f, l)
      BY <1>2, <3>2 DEF Sample, AllLabels
    <3> QED BY <2>2, <3>2, <3>3, <3>4
  <2> QED BY <2>1, <2>2 DEF Pending
<1>5. due' = [u \in Threads |-> due'[u]]
  BY <1>2
<1> QED BY <1>2, <1>3, <1>4, <1>5 DEF Pending

\* A step of the scrape: what it visits is in the result.
LEMMA ScrapeGathers ==
  ASSUME Base, Pending, NEW t \in Scraping, Scraping' = {t},
         UNCHANGED <<family, metrics, due>>, result[t] \subseteq result'[t],
         \A f \in FamilyAddrs, l \in LabelMaps :
           ~ Visited(t, f, l) /\ metrics[f][l] # Null =>
             ~ Visited(t, f, l)' \/ Sample(f, l) \in result'[t]
  PROVE  Pending'
<1>1. \A f \in FamilyAddrs, l \in LabelMaps :
        (ValidLabels(f, l) => ValidLabels(f, l)') /\ Sample(f, l)' = Sample(f, l)
  BY DEF ValidLabels, Sample, AllLabels
<1>2. ASSUME NEW d \in due[t]
      PROVE  \/ d \in result'[t]
             \/ \E f \in FamilyAddrs, l \in LabelMaps :
                  /\ ~ Visited(t, f, l)' /\ metrics'[f][l] # Null /\ ValidLabels(f, l)'
                  /\ d = Sample(f, l)'
  <2>1. ASSUME NEW f \in FamilyAddrs, NEW l \in LabelMaps,
               ~ Visited(t, f, l), metrics[f][l] # Null, ValidLabels(f, l), d = Sample(f, l)
        PROVE  \/ d \in result'[t]
               \/ /\ ~ Visited(t, f, l)' /\ metrics'[f][l] # Null /\ ValidLabels(f, l)'
                  /\ d = Sample(f, l)'
    BY <1>1, <2>1
  <2>2. CASE d \in result[t]
    BY <2>2
  <2> QED BY <1>2, <2>1, <2>2 DEF Pending
<1> QED BY <1>2 DEF Pending

\* Every step keeps what is due in sight.
LEMMA PendingStep ==
  ASSUME Base, Scrapes, Pending, [Next]_vars
  PROVE  Pending'
<1> USE DEF Goto, registryVars, familyVars, collectVars
<1>0. pc \in [Threads -> Locations] /\ todo \in [Threads -> Seq(FamilyAddrs)]
      /\ left \in [Threads -> SUBSET LabelMaps]
      /\ metrics \in [FamilyAddrs -> [LabelMaps -> MetricAddrs \cup {Null}]]
  BY DEF Base, Types
<1>1. CASE UNCHANGED vars
  BY <1>1, PendingFrame DEF vars
<1>2. ASSUME NEW t \in Threads, NEW s \in FamilySpecs, RegistryAddRejects(t, s)
      PROVE  Pending'
  BY <1>2, PendingFrame DEF RegistryAddRejects, vars
<1>3. ASSUME NEW t \in Threads, NEW s \in FamilySpecs, RegistryAddMerges(t, s)
      PROVE  Pending'
  BY <1>3, PendingFrame DEF RegistryAddMerges
<1>4. ASSUME NEW t \in Threads, NEW s \in FamilySpecs, RegistryAddFinds(t, s)
      PROVE  Pending'
  BY <1>0, <1>4, PendingFrame DEF RegistryAddFinds
<1>5. ASSUME NEW t \in Threads, RegistryAddPushes(t)
      PROVE  Pending'
  <2>1. Scraping = {} /\ UNCHANGED due
    BY <1>5, NoScrape DEF RegistryAddPushes
  <2>2. Scraping' = {}
    BY <1>0, <1>5, <2>1 DEF RegistryAddPushes, Scraping
  <2> QED BY <2>1, <2>2 DEF Pending
<1>6. ASSUME NEW t \in Threads, NEW f \in FamilyAddrs, RegistryRemoves(t, f)
      PROVE  Pending'
  <2>1. Scraping = {} /\ UNCHANGED <<pc, due>>
    BY <1>6, NoScrape DEF RegistryRemoves, RemoveLocks
  <2> QED BY <2>1 DEF Pending, Scraping
<1>7. ASSUME NEW t \in Threads, NEW f \in FamilyAddrs, RegistryRemovesNothing(t, f)
      PROVE  Pending'
  BY <1>7, PendingFrame DEF RegistryRemovesNothing, vars
<1>8. ASSUME NEW t \in Threads, NEW l \in LabelMaps, FamilyAddFindsExisting(t, l)
      PROVE  Pending'
  BY <1>8, PendingFrame DEF FamilyAddFindsExisting, vars
<1>9. ASSUME NEW t \in Threads, NEW l \in LabelMaps, FamilyAddEmplaces(t, l)
      PROVE  Pending'
  <2>1. \A f \in FamilyAddrs, k \in LabelMaps :
          metrics[f][k] # Null => metrics'[f][k] = metrics[f][k]
    BY <1>0, <1>9 DEF FamilyAddEmplaces, Exists
  <2> QED BY <1>0, <1>9, <2>1, PendingFrame DEF FamilyAddEmplaces
<1>10. ASSUME NEW t \in Threads, FamilyAddValidates(t)
      PROVE  Pending'
  <2>1. \A f \in FamilyAddrs, k \in LabelMaps :
          ValidLabels(f, k) => metrics'[f][k] = metrics[f][k]
    BY <1>0, <1>10 DEF FamilyAddValidates
  <2> QED BY <1>0, <1>10, <2>1, PendingFrame DEF FamilyAddValidates
<1>11. ASSUME NEW t \in Threads, NEW m \in MetricAddrs, FamilyRemoves(t, m)
      PROVE  Pending'
  BY <1>11, RemovesPending
<1>12. ASSUME NEW t \in Threads, CollectBegins(t)
      PROVE  Pending'
  BY <1>12, BeginsPending
<1>13. ASSUME NEW t \in Threads, CollectLocksFamily(t)
      PROVE  Pending'
  <2>1. /\ t \in Scraping /\ pc[t] = "families" /\ pc'[t] = "metrics"
        /\ UNCHANGED <<family, metrics, todo, result, due>>
        /\ left'[t] = Stored(Head(todo[t]))
    BY <1>0, <1>13 DEF CollectLocksFamily, Scraping
  <2>2. Scraping = {t}
    BY <2>1, OneScrape
  <2>3. Scraping' = {t}
    BY <1>0, <1>13, <2>2 DEF CollectLocksFamily, Scraping
  <2>4. \A f \in FamilyAddrs, l \in LabelMaps :
          ~ Visited(t, f, l) /\ metrics[f][l] # Null => ~ Visited(t, f, l)'
    BY <2>1 DEF Visited, Stored
  <2> QED BY <2>1, <2>3, <2>4, ScrapeGathers
<1>14. ASSUME NEW t \in Threads, CollectMetric(t)
      PROVE  Pending'
  <2>1. PICK l \in left[t] :
          /\ left' = [left EXCEPT ![t] = @ \ {l}]
          /\ result' = [result EXCEPT ![t] = @ \cup {Sample(Head(todo[t]), l)}]
    BY <1>14 DEF CollectMetric
  <2>2. /\ t \in Scraping /\ pc[t] = "metrics"
        /\ UNCHANGED <<family, metrics, pc, todo, due>>
    BY <1>14 DEF CollectMetric, Scraping
  <2>3. Scraping = {t} /\ Scraping' = {t}
    BY <2>2, OneScrape DEF Scraping
  <2>4. left'[t] = left[t] \ {l}
    BY <1>0, <2>1
  <2>5. result'[t] = result[t] \cup {Sample(Head(todo[t]), l)}
    BY <2>1 DEF Scrapes, Gathered
  <2>6. \A f \in FamilyAddrs, k \in LabelMaps :
          ~ Visited(t, f, k) => ~ Visited(t, f, k)' \/ Sample(f, k) \in result'[t]
    BY <2>2, <2>4, <2>5 DEF Visited
  <2> QED BY <2>2, <2>3, <2>5, <2>6, ScrapeGathers
<1>15. ASSUME NEW t \in Threads, CollectUnlocksFamily(t)
      PROVE  Pending'
  <2>1. /\ t \in Scraping /\ pc[t] = "metrics" /\ pc'[t] = "families" /\ left[t] = {}
        /\ todo'[t] = Tail(todo[t]) /\ todo[t] # <<>>
        /\ UNCHANGED <<family, metrics, result, due>>
    BY <1>0, <1>15 DEF CollectUnlocksFamily, Scraping, Base, LockOwners
  <2>2. Scraping = {t}
    BY <2>1, OneScrape
  <2>3. Scraping' = {t}
    BY <1>0, <1>15, <2>2 DEF CollectUnlocksFamily, Scraping
  <2>4. Elements(todo[t]) \subseteq {Head(todo[t])} \cup Elements(todo'[t])
    BY <1>0, <2>1, TailElements
  <2>5. \A f \in FamilyAddrs, l \in LabelMaps : ~ Visited(t, f, l) => ~ Visited(t, f, l)'
    BY <2>1, <2>4 DEF Visited
  <2> QED BY <2>1, <2>3, <2>5, ScrapeGathers
<1>16. ASSUME NEW t \in Threads, CollectEnds(t)
      PROVE  Pending'
  <2>1. t \in Scraping /\ pc'[t] = "idle"
    BY <1>0, <1>16 DEF CollectEnds, Scraping
  <2>2. Scraping = {t}
    BY <2>1, OneScrape
  <2>3. Scraping' = {}
    BY <1>0, <1>16, <2>2 DEF CollectEnds, Scraping
  <2>4. due' = [u \in Threads |-> due'[u]]
    BY <1>16 DEF CollectEnds, Pending
  <2> QED BY <2>3, <2>4 DEF Pending
<1> QED
  BY <1>1, <1>2, <1>3, <1>4, <1>5, <1>6, <1>7, <1>8, <1>9, <1>10, <1>11,
     <1>12, <1>13, <1>14, <1>15, <1>16 DEF Next, Call, Continue

-----------------------------------------------------------------------------
(* Types of the samples, and addresses without a family.                   *)

\* Thread t is in a method of Family on family f.
Uses(t, f) ==
  \/ pc[t] = "validate" /\ handle[t] # Null /\ handle[t].addr = f
  \/ pc[t] = "metrics" /\ todo[t] # <<>> /\ Head(todo[t]) = f

\* Who has the mutex of a family is in a method of it.
FamilyOwners ==
  \A f \in FamilyAddrs : fmutex[f] # NoThread =>
    \E t \in Threads : fmutex[f] = t /\ Uses(t, f)

Sampled == \A t \in Threads : result[t] \subseteq Samples /\ due[t] \subseteq Samples

\* A step that neither locks nor unlocks a family and moves nobody who is in one.
LEMMA OwnersFrame ==
  ASSUME FamilyOwners, UNCHANGED fmutex,
         \A t \in Threads : pc[t] \in {"validate", "metrics"} =>
           pc'[t] = pc[t] /\ handle'[t] = handle[t] /\ todo'[t] = todo[t]
  PROVE  FamilyOwners'
<1>1. \A t \in Threads, f \in FamilyAddrs : Uses(t, f) => Uses(t, f)'
  BY DEF Uses
<1> QED BY <1>1 DEF FamilyOwners

\* A lock of a family is taken by entering a method of it and given back when the
\* method returns.
LEMMA OwnersStep ==
  ASSUME Base, FamilyOwners, [Next]_vars
  PROVE  FamilyOwners'
<1> USE DEF Goto, registryVars, familyVars, collectVars
<1>0. /\ pc \in [Threads -> Locations] /\ todo \in [Threads -> Seq(FamilyAddrs)]
      /\ handle \in [Threads -> Handles \cup {Null}]
      /\ fmutex \in [FamilyAddrs -> Threads \cup {NoThread}]
  BY DEF Base, Types
<1>1. CASE UNCHANGED vars
  BY <1>1, OwnersFrame DEF vars
<1>2. ASSUME NEW t \in Threads, NEW s \in FamilySpecs, RegistryAddRejects(t, s)
      PROVE  FamilyOwners'
  BY <1>2, OwnersFrame DEF RegistryAddRejects, vars
<1>3. ASSUME NEW t \in Threads, NEW s \in FamilySpecs, RegistryAddMerges(t, s)
      PROVE  FamilyOwners'
  BY <1>0, <1>3, OwnersFrame DEF RegistryAddMerges
<1>4. ASSUME NEW t \in Threads, NEW s \in FamilySpecs, RegistryAddFinds(t, s)
      PROVE  FamilyOwners'
  BY <1>0, <1>4, OwnersFrame DEF RegistryAddFinds
<1>5. ASSUME NEW t \in Threads, RegistryAddPushes(t)
      PROVE  FamilyOwners'
  <2>1. pc[t] = "construct" /\ UNCHANGED <<fmutex, todo>>
    BY <1>5 DEF RegistryAddPushes
  <2>2. \A u \in Threads \ {t} : pc'[u] = pc[u] /\ handle'[u] = handle[u]
    BY <1>0, <1>5 DEF RegistryAddPushes
  <2> QED BY <2>1, <2>2, OwnersFrame
<1>6. ASSUME NEW t \in Threads, NEW f \in FamilyAddrs, RegistryRemoves(t, f)
      PROVE  FamilyOwners'
  <2>1. \A u \in Threads : pc[u] # "metrics"
    BY <1>6, NoScrape DEF RegistryRemoves, RemoveLocks, Scraping
  <2>2. \A u \in Threads : pc[u] = "validate" => handle'[u] = handle[u]
    BY <1>6 DEF RegistryRemoves, NotInUse
  <2>3. UNCHANGED <<fmutex, pc, todo>>
    BY <1>6 DEF RegistryRemoves
  <2> QED BY <2>1, <2>2, <2>3, OwnersFrame
<1>7. ASSUME NEW t \in Threads, NEW f \in FamilyAddrs, RegistryRemovesNothing(t, f)
      PROVE  FamilyOwners'
  BY <1>7, OwnersFrame DEF RegistryRemovesNothing, vars
<1>8. ASSUME NEW t \in Threads, NEW l \in LabelMaps, FamilyAddFindsExisting(t, l)
      PROVE  FamilyOwners'
  BY <1>8, OwnersFrame DEF FamilyAddFindsExisting, vars
<1>9. ASSUME NEW t \in Threads, NEW l \in LabelMaps, FamilyAddEmplaces(t, l)
      PROVE  FamilyOwners'
  <2>1. /\ fmutex' = [fmutex EXCEPT ![handle[t].addr] = t] /\ handle[t] # Null
        /\ pc[t] = "idle" /\ pc' = [pc EXCEPT ![t] = "validate"] /\ UNCHANGED <<handle, todo>>
    BY <1>9 DEF FamilyAddEmplaces
  <2>2. \A u \in Threads, f \in FamilyAddrs : Uses(u, f) => u # t /\ Uses(u, f)'
    BY <1>0, <2>1 DEF Uses
  <2>3. Uses(t, handle[t].addr)'
    BY <1>0, <2>1 DEF Uses
  <2> QED BY <1>0, <2>1, <2>2, <2>3 DEF FamilyOwners
<1>10. ASSUME NEW t \in Threads, FamilyAddValidates(t)
      PROVE  FamilyOwners'
  <2>1. /\ fmutex' = [fmutex EXCEPT ![handle[t].addr] = NoThread]
        /\ pc[t] = "validate" /\ pc' = [pc EXCEPT ![t] = "idle"] /\ UNCHANGED <<handle, todo>>
    BY <1>10 DEF FamilyAddValidates, UnlockFamily
  <2>2. \A u \in Threads, f \in FamilyAddrs :
          Uses(u, f) /\ f # handle[t].addr => Uses(u, f)'
    BY <1>0, <2>1 DEF Uses
  <2> QED BY <1>0, <2>1, <2>2 DEF FamilyOwners
<1>11. ASSUME NEW t \in Threads, NEW m \in MetricAddrs, FamilyRemoves(t, m)
      PROVE  FamilyOwners'
  BY <1>11, OwnersFrame DEF FamilyRemoves
<1>12. ASSUME NEW t \in Threads, CollectBegins(t)
      PROVE  FamilyOwners'
  BY <1>0, <1>12, OwnersFrame DEF CollectBegins
<1>13. ASSUME NEW t \in Threads, CollectLocksFamily(t)
      PROVE  FamilyOwners'
  <2>1. /\ fmutex' = [fmutex EXCEPT ![Head(todo[t])] = t] /\ todo[t] # <<>>
        /\ pc[t] = "families" /\ pc' = [pc EXCEPT ![t] = "metrics"] /\ UNCHANGED <<handle, todo>>
    BY <1>13 DEF CollectLocksFamily
  <2>2. \A u \in Threads, f \in FamilyAddrs : Uses(u, f) => u # t /\ Uses(u, f)'
    BY <1>0, <2>1 DEF Uses
  <2>3. Uses(t, Head(todo[t]))'
    BY <1>0, <2>1 DEF Uses
  <2> QED BY <1>0, <2>1, <2>2, <2>3 DEF FamilyOwners
<1>14. ASSUME NEW t \in Threads, CollectMetric(t)
      PROVE  FamilyOwners'
  BY <1>14, OwnersFrame DEF CollectMetric
<1>15. ASSUME NEW t \in Threads, CollectUnlocksFamily(t)
      PROVE  FamilyOwners'
  <2>1. /\ fmutex' = [fmutex EXCEPT ![Head(todo[t])] = NoThread]
        /\ todo' = [todo EXCEPT ![t] = Tail(@)]
        /\ pc[t] = "metrics" /\ pc' = [pc EXCEPT ![t] = "families"] /\ UNCHANGED handle
    BY <1>15 DEF CollectUnlocksFamily, UnlockFamily
  <2>2. \A u \in Threads, f \in FamilyAddrs :
          Uses(u, f) /\ f # Head(todo[t]) => u # t /\ Uses(u, f)'
    BY <1>0, <2>1 DEF Uses
  <2> QED BY <1>0, <2>1, <2>2 DEF FamilyOwners
<1>16. ASSUME NEW t \in Threads, CollectEnds(t)
      PROVE  FamilyOwners'
  BY <1>0, <1>16, OwnersFrame DEF CollectEnds
<1> QED
  BY <1>1, <1>2, <1>3, <1>4, <1>5, <1>6, <1>7, <1>8, <1>9, <1>10, <1>11,
     <1>12, <1>13, <1>14, <1>15, <1>16 DEF Next, Call, Continue

\* CollectMetric makes a sample of a family's specification and a metric's labels.
LEMMA SampleType ==
  ASSUME Base, NEW f \in FamilyAddrs, NEW l \in LabelMaps,
         family[f] # Null, metrics[f][l] # Null
  PROVE  Sample(f, l) \in Samples
<1>1. PICK s \in FamilySpecs : s = family[f]
  BY DEF Base, Types, ValidSpecs
<1>2. PICK m \in MetricAddrs : m = metrics[f][l]
  BY DEF Base, Types
<1>3. Sample(f, l) = [name |-> s.name, type |-> s.type,
                      labels |-> Joined(s.labels, l), metric |-> m]
  BY <1>1, <1>2 DEF Sample, AllLabels
<1>4. s.type \in MetricTypes
  OBVIOUS
<1>5. s.name \in {r.name : r \in FamilySpecs}
  OBVIOUS
<1>6. Joined(s.labels, l) \in {Joined(r.labels, k) : r \in FamilySpecs, k \in LabelMaps}
  OBVIOUS
<1> QED BY <1>2, <1>3, <1>4, <1>5, <1>6 DEF Samples

\* What a scrape gathers and what it owes are samples of this kind.
LEMMA SampledStep ==
  ASSUME Base, EntriesValid, Checked, Scrapes, Sampled, Pending, [Next]_vars
  PROVE  Sampled'
<1>0. /\ result = [t \in Threads |-> result[t]]
      /\ due = [t \in Threads |-> due[t]]
  BY DEF Scrapes, Gathered, Pending
<1>1. CASE UNCHANGED <<result, due>>
  BY <1>1 DEF Sampled
<1>2. ASSUME NEW t \in Threads, NEW m \in MetricAddrs, FamilyRemoves(t, m)
      PROVE  Sampled'
  <2>1. result' = result /\ \A u \in Threads : due'[u] \subseteq due[u]
    BY <1>2 DEF FamilyRemoves
  <2> QED BY <2>1 DEF Sampled
<1>3. ASSUME NEW t \in Threads, CollectBegins(t)
      PROVE  Sampled'
  <2> DEFINE all == {Sample(fl[1], fl[2]) : fl \in
                      {gl \in FamilyAddrs \X LabelMaps :
                         /\ Registered(gl[1]) /\ gl[2] \in Stored(gl[1])
                         /\ ValidLabels(gl[1], gl[2])}}
  <2>1. due' = [due EXCEPT ![t] = all] /\ UNCHANGED result
    BY <1>3 DEF CollectBegins, collectVars
  <2>2. ASSUME NEW f \in FamilyAddrs, NEW l \in LabelMaps, l \in Stored(f)
        PROVE  Sample(f, l) \in Samples
    <3>1. metrics[f][l] # Null
      BY <2>2 DEF Stored
    <3> QED BY <3>1, CheckedMetric, SampleType
  <2>3. all \subseteq Samples
    BY <2>2
  <2> HIDE DEF all
  <2>4. due'[t] = all /\ \A u \in Threads \ {t} : due'[u] = due[u]
    BY <1>0, <2>1
  <2> QED BY <2>1, <2>3, <2>4 DEF Sampled
<1>4. ASSUME NEW t \in Threads, CollectMetric(t)
      PROVE  Sampled'
  <2>1. PICK l \in left[t] : result' = [result EXCEPT ![t] = @ \cup {Sample(Head(todo[t]), l)}]
    BY <1>4 DEF CollectMetric
  <2>2. pc[t] = "metrics" /\ UNCHANGED due
    BY <1>4 DEF CollectMetric
  <2>3. Sample(Head(todo[t]), l) \in Samples
    BY <2>2, LeftAreValid, SampleType
  <2>4. /\ result'[t] = result[t] \cup {Sample(Head(todo[t]), l)}
        /\ \A u \in Threads \ {t} : result'[u] = result[u]
    BY <1>0, <2>1
  <2> QED BY <2>2, <2>3, <2>4 DEF Sampled
<1>5. ASSUME NEW t \in Threads, CollectEnds(t)
      PROVE  Sampled'
  <2>1. \A u \in Threads : result'[u] \subseteq result[u] /\ due'[u] \subseteq due[u]
    BY <1>0, <1>5 DEF CollectEnds
  <2> QED BY <2>1 DEF Sampled
<1>6. CASE UNCHANGED vars
  BY <1>1, <1>6 DEF vars
<1>7. ASSUME NEW t \in Threads, Call(t) \/ CollectLocksFamily(t) \/ Continue(t)
      PROVE  \/ UNCHANGED <<result, due>>
             \/ \E m \in MetricAddrs : FamilyRemoves(t, m)
             \/ CollectBegins(t) \/ CollectMetric(t) \/ CollectEnds(t)
  BY <1>7 DEF Call, Continue, RegistryAddRejects, RegistryAddMerges, RegistryAddFinds,
     RegistryAddPushes, RegistryRemoves, RegistryRemovesNothing, FamilyAddFindsExisting,
     FamilyAddEmplaces, FamilyAddValidates, CollectLocksFamily, CollectUnlocksFamily,
     collectVars, vars
<1> QED BY <1>1, <1>2, <1>3, <1>4, <1>5, <1>6, <1>7 DEF Next

-----------------------------------------------------------------------------
(* The theorems.                                                           *)

Inductive ==
  Base /\ EntriesValid /\ Checked /\ Scrapes /\ Pending /\ FamilyOwners /\ Sampled

\* The invariant holds when the registry has been constructed.
LEMMA InductiveInit == Init => Inductive
<1> SUFFICES ASSUME Init
             PROVE  Inductive
  OBVIOUS
<1>1. Base
  BY BaseInit
<1>2. Scraping = {} /\ \A t \in Threads : pc[t] = "idle" /\ result[t] = {}
  BY DEF Init, Scraping
<1>3. EntriesValid /\ Checked
  BY DEF Init, EntriesValid, Checked
<1>4. Scrapes
  BY <1>2 DEF Init, Scrapes, Order, Gathered, SeriesUnique
<1>5. Pending
  BY <1>2 DEF Init, Pending
<1>6. FamilyOwners /\ Sampled
  BY DEF Init, FamilyOwners, Sampled
<1> QED BY <1>1, <1>3, <1>4, <1>5, <1>6 DEF Inductive

\* It holds throughout.
LEMMA InductiveHolds == Spec => []Inductive
<1>1. Inductive /\ [Next]_vars => Inductive'
  <2>1. Base => Types /\ LockOwners
    BY DEF Base
  <2> QED BY <2>1, BaseStep, EntriesStep, CheckedStep, ScrapesStep, PendingStep, OwnersStep,
            SampledStep DEF Inductive
<1> QED BY <1>1, InductiveInit, PTL DEF Spec

\* Every variable has its type; a family that exists passed the checks of its
\* constructor, the reserved labels le and quantile included; and an address without
\* a family has no metrics and an unowned mutex, though families are destroyed while
\* other threads add, remove and scrape.
THEOREM TypeCorrect == Spec => []TypeOK
<1>1. Inductive => TypeOK
  <2> SUFFICES ASSUME Inductive
               PROVE  TypeOK
    OBVIOUS
  <2>1. Types
    BY DEF Inductive, Base
  <2>2. ASSUME NEW f \in FamilyAddrs, family[f] = Null
        PROVE  Stored(f) = {} /\ fmutex[f] = NoThread
    <3>1. Stored(f) = {}
      BY <2>2 DEF Inductive, Checked, Stored
    <3>2. ASSUME NEW t \in Threads, Uses(t, f)
          PROVE  FALSE
      <4>1. CASE pc[t] = "validate" /\ handle[t] # Null /\ handle[t].addr = f
        <5>1. family[f] = handle[t].for /\ handle[t] \in Handles
          BY <2>1, <4>1 DEF Inductive, Base, HandlesDesignate, Types
        <5> QED BY <2>2, <5>1 DEF Handles
      <4>2. CASE pc[t] = "metrics" /\ todo[t] # <<>> /\ Head(todo[t]) = f
        <5>1. t \in Scraping /\ f \in Elements(todo[t])
          BY <2>1, <4>2, TailElements DEF Scraping, Types
        <5>2. Registered(f)
          BY <5>1 DEF Inductive, Scrapes, Order
        <5>3. family[f] \in FamilySpecs
          BY <5>2 DEF Inductive, Base, Contents, Registered, InVector
        <5> QED BY <2>2, <5>3
      <4> QED BY <3>2, <4>1, <4>2 DEF Uses
    <3> QED BY <3>1, <3>2 DEF Inductive, FamilyOwners
  <2>3. result \in [Threads -> SUBSET Samples] /\ due \in [Threads -> SUBSET Samples]
    <3>1. /\ result = [t \in Threads |-> result[t]]
          /\ due = [t \in Threads |-> due[t]]
      BY DEF Inductive, Scrapes, Gathered, Pending
    <3> QED BY <3>1 DEF Inductive, Sampled
  <2> QED BY <2>1, <2>2, <2>3 DEF TypeOK, EmptyOwnNothing
<1> QED BY <1>1, InductiveHolds, PTL

\* A scrape shows no name that the checks reject, though Family::Add inserts before
\* it checks: it locks the family over both.
THEOREM CollectedAreValid == Spec => []CollectedValid
<1>1. Inductive => CollectedValid
  <2> SUFFICES ASSUME Inductive, NEW t \in Threads, NEW r \in result[t]
               PROVE  /\ r.name \notin InvalidNames
                      /\ \A n \in DOMAIN r.labels : CheckLabelName(n, r.type)
    BY DEF CollectedValid
  <2>1. PICK f \in FamilyAddrs, l \in LabelMaps :
          /\ family[f] # Null /\ ValidLabels(f, l)
          /\ r.name = family[f].name /\ r.type = family[f].type /\ r.labels = AllLabels(f, l)
    BY DEF Inductive, Scrapes, Gathered
  <2>2. ValidSpec(family[f])
    BY <2>1 DEF Inductive, Checked
  <2>3. DOMAIN r.labels = DOMAIN family[f].labels \cup DOMAIN l
    BY <2>1 DEF AllLabels, Joined
  <2> QED BY <2>1, <2>2, <2>3 DEF ValidSpec, ValidLabels
<1> QED BY <1>1, InductiveHolds, PTL

\* A scrape has no two samples with one name and one set of labels, whatever is
\* registered, added and removed meanwhile.
THEOREM SeriesAreUnique == Spec => []SeriesUnique
<1>1. Inductive => SeriesUnique
  BY DEF Inductive, Scrapes
<1> QED BY <1>1, InductiveHolds, PTL

\* A scrape returns every metric that is there from its beginning to its end.
THEOREM NothingIsMissed == Spec => []NoSeriesMissed
<1>1. Inductive => NoSeriesMissed
  <2> SUFFICES ASSUME Inductive, NEW t \in Threads, pc[t] = "families", todo[t] = <<>>,
                      NEW d \in due[t]
               PROVE  d \in result[t]
    BY DEF NoSeriesMissed
  <2>1. Elements(todo[t]) = {}
    BY DEF Elements
  <2>2. \A f \in FamilyAddrs, l \in LabelMaps : Visited(t, f, l)
    BY <2>1 DEF Visited
  <2> QED BY <2>2 DEF Inductive, Pending, Scraping
<1> QED BY <1>1, InductiveHolds, PTL

\* Family::Add never replaces a metric: the reference it returned stays the metric
\* of its labels until it is removed.
THEOREM MetricsAreStable == Spec => MetricsStable
<1>1. Types /\ LockOwners /\ [Next]_vars =>
        [\A f \in FamilyAddrs, l \in LabelMaps :
           metrics[f][l] # Null => metrics'[f][l] \in {metrics[f][l], Null}]_vars
  <2> SUFFICES ASSUME Types, LockOwners, Next,
                      NEW f \in FamilyAddrs, NEW l \in LabelMaps, metrics[f][l] # Null
               PROVE  metrics'[f][l] \in {metrics[f][l], Null}
    OBVIOUS
  <2>0. metrics \in [FamilyAddrs -> [LabelMaps -> MetricAddrs \cup {Null}]]
    BY DEF Types
  <2>1. CASE UNCHANGED metrics
    BY <2>1
  <2>2. ASSUME NEW t \in Threads, RegistryAddPushes(t)
        PROVE  UNCHANGED metrics
    BY <2>2 DEF RegistryAddPushes, familyVars
  <2>3. ASSUME NEW t \in Threads, NEW g \in FamilyAddrs, RegistryRemoves(t, g)
        PROVE  metrics'[f][l] \in {metrics[f][l], Null}
    BY <2>0, <2>3 DEF RegistryRemoves
  <2>4. ASSUME NEW t \in Threads, NEW k \in LabelMaps, FamilyAddEmplaces(t, k)
        PROVE  metrics'[f][l] \in {metrics[f][l], Null}
    BY <2>0, <2>4 DEF FamilyAddEmplaces, Exists
  <2>5. ASSUME NEW t \in Threads, FamilyAddValidates(t)
        PROVE  metrics'[f][l] \in {metrics[f][l], Null}
    BY <2>0, <2>5 DEF FamilyAddValidates
  <2>6. ASSUME NEW t \in Threads, NEW m \in MetricAddrs, FamilyRemoves(t, m)
        PROVE  metrics'[f][l] \in {metrics[f][l], Null}
    BY <2>0, <2>6 DEF FamilyRemoves
  <2>7. ASSUME NEW t \in Threads,
               \/ \E s \in FamilySpecs :
                    \/ RegistryAddRejects(t, s) \/ RegistryAddMerges(t, s)
                    \/ RegistryAddFinds(t, s)
               \/ \E g \in FamilyAddrs : RegistryRemovesNothing(t, g)
               \/ \E k \in LabelMaps : FamilyAddFindsExisting(t, k)
               \/ CollectBegins(t) \/ CollectLocksFamily(t) \/ CollectMetric(t)
               \/ CollectUnlocksFamily(t) \/ CollectEnds(t)
        PROVE  UNCHANGED metrics
    BY <2>7 DEF RegistryAddRejects, RegistryAddMerges, RegistryAddFinds, RegistryRemovesNothing,
       FamilyAddFindsExisting, CollectBegins, CollectLocksFamily, CollectMetric,
       CollectUnlocksFamily, CollectEnds, familyVars, vars
  <2> QED BY <2>1, <2>2, <2>3, <2>4, <2>5, <2>6, <2>7 DEF Next, Call, Continue
<1>2. Inductive => Types /\ LockOwners
  BY DEF Inductive, Base
<1> QED BY <1>1, <1>2, InductiveHolds, PTL DEF Spec, MetricsStable

\* A registry that throws gives no family to two callers.
THEOREM NeverSharedWhenThrowing == Spec => []NeverSharedIfThrow
<1>1. Init => NeverSharedIfThrow
  BY DEF Init, NeverSharedIfThrow
<1>2. Base /\ NeverSharedIfThrow /\ [Next]_vars => NeverSharedIfThrow'
  <2> SUFFICES ASSUME Base, NeverSharedIfThrow, [Next]_vars
               PROVE  NeverSharedIfThrow'
    OBVIOUS
  <2>0. handle \in [Threads -> Handles \cup {Null}]
    BY DEF Base, Types
  <2>1. CASE \A u \in Threads : handle'[u] \in {handle[u], Null}
    BY <2>1 DEF NeverSharedIfThrow
  <2>2. ASSUME NEW t \in Threads, NEW s \in FamilySpecs, RegistryAddMerges(t, s)
        PROVE  NeverSharedIfThrow'
    BY <2>2 DEF RegistryAddMerges, Merges, NeverSharedIfThrow
  <2>3. ASSUME NEW t \in Threads, RegistryAddPushes(t)
        PROVE  NeverSharedIfThrow'
    <3>1. CASE UNCHANGED handle
      BY <2>1, <3>1
    <3>2. ASSUME NEW f \in FamilyAddrs, family[f] = Null,
                 handle' = [handle EXCEPT ![t] = [addr |-> f, for |-> req[t]]]
          PROVE  NeverSharedIfThrow'
      <4>1. \A u \in Threads : handle[u] # Null => handle[u].addr # f
        BY <2>0, <3>2, NullAssumption DEF Base, HandlesDesignate, Handles
      <4>2. handle'[t].addr = f /\ \A u \in Threads \ {t} : handle'[u] = handle[u]
        BY <2>0, <3>2
      <4> QED BY <4>1, <4>2 DEF NeverSharedIfThrow
    <3> QED BY <2>3, <3>1, <3>2 DEF RegistryAddPushes
  <2>4. ASSUME NEW t \in Threads, NEW f \in FamilyAddrs, RegistryRemoves(t, f)
        PROVE  \A u \in Threads : handle'[u] \in {handle[u], Null}
    BY <2>4 DEF RegistryRemoves
  <2>5. CASE UNCHANGED vars
    BY <2>1, <2>5 DEF vars
  <2>6. ASSUME NEW t \in Threads,
               \/ \E s \in FamilySpecs : RegistryAddRejects(t, s) \/ RegistryAddFinds(t, s)
               \/ \E f \in FamilyAddrs : RegistryRemovesNothing(t, f)
               \/ \E k \in LabelMaps : FamilyAddFindsExisting(t, k) \/ FamilyAddEmplaces(t, k)
               \/ FamilyAddValidates(t) \/ \E m \in MetricAddrs : FamilyRemoves(t, m)
               \/ CollectBegins(t) \/ CollectLocksFamily(t) \/ CollectMetric(t)
               \/ CollectUnlocksFamily(t) \/ CollectEnds(t)
        PROVE  UNCHANGED handle
    BY <2>6 DEF RegistryAddRejects, RegistryAddFinds, RegistryRemovesNothing,
       FamilyAddFindsExisting, FamilyAddEmplaces, FamilyAddValidates, FamilyRemoves,
       CollectBegins, CollectLocksFamily, CollectMetric, CollectUnlocksFamily, CollectEnds, vars
  <2>7. CASE UNCHANGED handle
    BY <2>1, <2>7
  <2> QED BY <2>1, <2>2, <2>3, <2>4, <2>5, <2>6, <2>7 DEF Next, Call, Continue
<1>3. Inductive => Base
  BY DEF Inductive
<1> QED BY <1>1, <1>2, <1>3, InductiveHolds, PTL DEF Spec
=============================================================================
