---------------------------- MODULE GatewayProofs ----------------------------
(***************************************************************************)
(* Theorems about Gateway, for any number of clients, tasks and            *)
(* collectables, and any server that answers as it likes.                  *)
(***************************************************************************)
EXTENDS Gateway, SequenceTheorems, WellFoundedInduction, TLAPS

Elements(s) == {s[i] : i \in DOMAIN s}

Methods == {"POST", "PUT", "DELETE"}
Pushing == {"POST", "PUT"}
Bodies == [ptr : Collectables \cup {Null}, version : Nat]

-----------------------------------------------------------------------------
(* The invariant.                                                          *)

Types ==
  /\ pc \in [Processes -> {"idle", "push", "spawn", "request", "perform", "done"}]
  /\ op \in [Clients -> Methods \cup {Null}]
  /\ owned \subseteq Collectables
  /\ held \in [Clients -> Collectables \cup {Null}]
  /\ version \in [Collectables -> Nat]
  /\ mutex \in Clients \cup {NoThread}
  /\ curlMutex \in Processes \cup {NoThread}
  /\ request = [p \in Processes |-> request[p]]
  /\ store \in [Uris -> Bodies \cup {Null}]
  /\ late \in Seq(Elements(late))

\* The processes that have a request to make.
Requesting == {p \in Processes : pc[p] \in {"request", "perform"}}

IsRequest(r) ==
  /\ r = [method |-> r.method, uri |-> r.uri, body |-> r.body]
  /\ r.method \in Methods /\ r.body \in Bodies

\* A push keeps the mutex to its end; a request has the method of its call.
Places ==
  /\ \A t \in Clients : pc[t] \in {"push", "spawn"} => op[t] \in Pushing
  /\ \A t \in Clients : pc[t] # "idle" /\ op[t] \in Pushing => mutex = t
  /\ \A t \in Clients \cap Requesting : request[t].method = op[t]
  /\ \A p \in Requesting : IsRequest(request[p])

\* The handle has the options of the process that has its mutex.
Handled ==
  \A p \in Processes : pc[p] = "perform" =>
    curlMutex = p /\ Transferred = request[p] /\ curl.headers = headers /\ curl.presetup

\* The bodies that are in the store, or may get there.
Known ==
  {request[p].body : p \in Requesting}
    \cup {store[u] : u \in {v \in Uris : store[v] # Null}}
    \cup {late[i].body : i \in DOMAIN late}

InTime(b) ==
  /\ b \in Bodies
  /\ b.ptr = Null => b.version = 0
  /\ b.ptr # Null => b.version <= version[b.ptr]

\* No body is ahead of its collectable, and what a synchronous push is about to
\* send is as new as anything that was ever sent.
Dated ==
  /\ \A b \in Known : InTime(b)
  /\ \A t \in Clients \cap Requesting : op[t] \in Pushing =>
       \A b \in Known :
         b.ptr = request[t].body.ptr => b.version <= request[t].body.version

IInv == Types /\ Places /\ Handled /\ Dated

-----------------------------------------------------------------------------
(* Facts about the operators of Gateway.                                   *)

\* CleanupStalePointers, push: what can be locked is a collectable.
LEMMA AliveIsCollectable ==
  ASSUME Types, NEW c, Alive(c)
  PROVE  c \in Collectables
BY DEF Types, Alive

\* Serialize: a body is of its collectable's version, and nothing is newer.
LEMMA BodyIsNewest ==
  ASSUME Types, NEW c \in Collectables
  PROVE  /\ InTime(Body(c))
         /\ \A b : InTime(b) /\ b.ptr = Body(c).ptr => b.version <= Body(c).version
BY NullIsNothing DEF Types, InTime, Body, EmptyBody, Bodies

\* push, Delete: the requests that are made are requests.
LEMMA DeleteIsRequest == \A uri : IsRequest(DeleteRequest(uri))
BY DEF IsRequest, DeleteRequest, EmptyBody, Methods, Bodies

\* The same for a push; its body has the metrics of a collectable.
LEMMA PushIsRequest ==
  ASSUME Types, NEW t \in Clients, op[t] \in Pushing, Alive(Head(todo[t]).ptr)
  PROVE  /\ IsRequest(PushRequest(t))
         /\ PushRequest(t).method = op[t]
         /\ \E c \in Collectables : PushRequest(t).body = Body(c)
<1>1. PICK c \in Collectables : c = Head(todo[t]).ptr
  BY AliveIsCollectable
<1>2. InTime(Body(c))
  BY BodyIsNewest
<1> QED
  BY <1>1, <1>2 DEF IsRequest, PushRequest, InTime, Methods, Pushing

\* performHttpRequest: libcurl transfers the request whose options are set.
LEMMA OptionsTransferred ==
  ASSUME NEW p \in Processes, IsRequest(request[p]), curl' = Options(request[p])
  PROVE  Transferred' = request[p] /\ curl'.headers = headers /\ curl'.presetup
<1> DEFINE r == request[p]
<1>1. /\ curl'.url = r.uri /\ curl'.fields = r.body
      /\ curl'.headers = headers /\ curl'.presetup
      /\ curl'.post = (r.method = "POST")
      /\ curl'.custom = IF r.method = "POST" THEN Null ELSE r.method
  BY DEF Options, FreshOptions, Defaults
<1>2. r.method \in Methods /\ r = [method |-> r.method, uri |-> r.uri, body |-> r.body]
  BY DEF IsRequest
<1>3. Transferred' = [method |-> r.method, uri |-> r.uri, body |-> r.body]
  BY <1>1, <1>2, NullIsNothing DEF Transferred, Methods
<1> QED
  BY <1>1, <1>2, <1>3

\* What has left a queue was in it, and nothing new is.
LEMMA RemoveAtElements ==
  ASSUME NEW s, s \in Seq(Elements(s)), NEW i \in DOMAIN s
  PROVE  /\ Elements(RemoveAt(s, i)) \subseteq Elements(s)
         /\ RemoveAt(s, i) \in Seq(Elements(RemoveAt(s, i)))
<1> DEFINE S == Elements(s)
           a == SubSeq(s, 1, i - 1)
           b == SubSeq(s, i + 1, Len(s))
<1>1. /\ Len(s) \in Nat /\ DOMAIN s = 1 .. Len(s) /\ s \in [1 .. Len(s) -> S]
      /\ i \in 1 .. Len(s)
  BY LenProperties
<1>2. a \in Seq(S) /\ b \in Seq(S)
  <2>1. \A j \in 1 .. i - 1 : s[j] \in S
    BY <1>1
  <2>2. \A j \in i + 1 .. Len(s) : s[j] \in S
    BY <1>1
  <2> HIDE DEF S
  <2> QED
    BY <1>1, <2>1, <2>2, SubSeqProperties
<1>3. RemoveAt(s, i) \in Seq(S)
  <2> HIDE DEF a, b, S
  <2>1. a \o b \in Seq(S)
    BY <1>2, ConcatProperties
  <2> QED
    BY <2>1 DEF RemoveAt, a, b
<1>4. ASSUME NEW T, NEW q \in Seq(T)
      PROVE  Elements(q) \subseteq T /\ q \in Seq(Elements(q))
  <2>1. Len(q) \in Nat /\ DOMAIN q = 1 .. Len(q) /\ q \in [1 .. Len(q) -> T]
    BY LenProperties
  <2>2. q \in [1 .. Len(q) -> Elements(q)]
    BY <2>1 DEF Elements
  <2>3. q \in Seq(Elements(q))
    <3> HIDE DEF Elements
    <3> QED
      BY <2>1, <2>2, SeqDef
  <2> QED
    BY <2>1, <2>3 DEF Elements
<1> QED
  BY <1>3, <1>4

\* The same for what is appended.
LEMMA AppendElements ==
  ASSUME NEW s, s \in Seq(Elements(s)), NEW e
  PROVE  /\ Elements(Append(s, e)) = Elements(s) \cup {e}
         /\ Append(s, e) \in Seq(Elements(Append(s, e)))
<1> DEFINE S == Elements(s) \cup {e}
           q == Append(s, e)
<1>1. s \in Seq(S)
  BY SeqMonotonic
<1>2. /\ Len(s) \in Nat /\ DOMAIN s = 1 .. Len(s)
  BY LenProperties
<1>3. /\ q \in Seq(S) /\ Len(q) = Len(s) + 1 /\ q[Len(s) + 1] = e
      /\ \A i \in 1 .. Len(s) : q[i] = s[i]
  <2> HIDE DEF S
  <2>1. e \in S
    BY DEF S
  <2> QED
    BY <1>1, <2>1, AppendProperties
<1>4. DOMAIN q = 1 .. Len(s) + 1
  BY <1>3, LenProperties
<1>5. Elements(q) = S
  <2> HIDE DEF q
  <2>1. Elements(q) \subseteq S
    BY <1>2, <1>3, <1>4 DEF Elements
  <2>2. \A x \in Elements(s) : x \in Elements(q)
    BY <1>2, <1>3, <1>4 DEF Elements
  <2>3. e \in Elements(q)
    BY <1>2, <1>3, <1>4 DEF Elements
  <2> QED
    BY <2>1, <2>2, <2>3
<1> QED
  BY <1>3, <1>5

-----------------------------------------------------------------------------
(* The steps of Next, one by one.                                          *)

\* Next: which action a step is, and of whom.
LEMMA StepCases ==
  ASSUME [Next]_vars
  PROVE
    \/ \E c \in Collectables : MetricsChange(c)
    \/ \E c \in Collectables : OwnerDrops(c)
    \/ ServerCatchesUp
    \/ \E t \in Clients, c \in owned, u \in EntryUris : RegisterCollectable(t, c, u)
    \/ \E t \in Clients, h \in ExtraHeaders : AddHttpHeader(t, h)
    \/ \E t \in Clients, m \in Pushing : PushLocks(t, m, "push")
    \/ \E t \in Clients, m \in Pushing : PushLocks(t, m, "spawn")
    \/ \E t \in Clients, u \in Uris : DeleteCalls(t, u)
    \/ \E t \in Clients, k \in Tasks, u \in Uris : AsyncDelete(t, k, u)
    \/ \E t \in Clients : PushSkips(t)
    \/ \E t \in Clients : PushCollects(t)
    \/ \E t \in Clients : PushGoesOn(t)
    \/ \E t \in Clients : PushStops(t)
    \/ \E t \in Clients : PushReturns(t)
    \/ \E t \in Clients, k \in Tasks : Spawns(t, k)
    \/ \E t \in Clients : SpawnEnds(t)
    \/ \E t \in Clients : FutureReady(t)
    \/ \E t \in Clients : DeleteReturns(t)
    \/ \E t \in Clients : TakesAnswer(t)
    \/ \E p \in Processes : RequestBegins(p)
    \/ \E p \in Processes, x \in Statuses : RequestPerforms(p, x)
    \/ UNCHANGED vars
BY DEF Next, Environment, Calls, Continues, Performs, Pushing, Uris

\* Each step keeps the types.
LEMMA TypesKept ==
  ASSUME Types, Places, Handled, Dated, [Next]_vars
  PROVE  Types'
<1>1. ASSUME NEW c \in Collectables, MetricsChange(c) PROVE Types'
  BY <1>1 DEF MetricsChange, listVars, curlVars, callVars, serverVars, Types
<1>2. ASSUME NEW c \in Collectables, OwnerDrops(c) PROVE Types'
  BY <1>2 DEF OwnerDrops, listVars, curlVars, serverVars, Types
<1>3. ASSUME ServerCatchesUp PROVE Types'
  <2>1. PICK i \in DOMAIN late : store' = Applied(late[i]) /\ late' = RemoveAt(late, i)
    BY <1>3 DEF ServerCatchesUp
  <2>2. late[i].body \in Bodies
    BY DEF Dated, Known, InTime
  <2>3. store' \in [Uris -> Bodies \cup {Null}]
    BY <2>1, <2>2 DEF Types, Applied
  <2>4. late' \in Seq(Elements(late'))
    BY <2>1, RemoveAtElements DEF Types
  <2> QED
    BY <1>3, <2>3, <2>4 DEF ServerCatchesUp, Types, listVars, heapVars, curlVars,
      callVars
<1>4. ASSUME NEW t \in Clients, NEW c \in owned, NEW u \in EntryUris,
             RegisterCollectable(t, c, u)
      PROVE  Types'
  BY <1>4 DEF RegisterCollectable, heapVars, curlVars, callVars, serverVars, Types
<1>5. ASSUME NEW t \in Clients, NEW h \in ExtraHeaders, AddHttpHeader(t, h)
      PROVE  Types'
  BY <1>5 DEF AddHttpHeader, listVars, heapVars, callVars, serverVars, Types
<1>6. ASSUME NEW t \in Clients, NEW m \in Pushing, PushLocks(t, m, "push") PROVE Types'
  BY <1>6 DEF PushLocks, Begins, Goto, heapVars, curlVars, serverVars, Types, Methods,
    Pushing
<1>7. ASSUME NEW t \in Clients, NEW m \in Pushing, PushLocks(t, m, "spawn")
      PROVE  Types'
  BY <1>7 DEF PushLocks, Begins, Goto, heapVars, curlVars, serverVars, Types, Methods,
    Pushing
<1>8. ASSUME NEW t \in Clients, NEW u \in Uris, DeleteCalls(t, u) PROVE Types'
  BY <1>8 DEF DeleteCalls, Begins, Goto, listVars, heapVars, curlVars, serverVars,
    Types, Methods
<1>9. ASSUME NEW t \in Clients, NEW k \in Tasks, NEW u \in Uris, AsyncDelete(t, k, u)
      PROVE  Types'
  BY <1>9 DEF AsyncDelete, Runs, Goto, listVars, heapVars, curlVars, serverVars, Types,
    Methods
<1>10. ASSUME NEW t \in Clients, PushSkips(t) PROVE Types'
  BY <1>10 DEF PushSkips, listVars, heapVars, curlVars, serverVars, Types
<1>11. ASSUME NEW t \in Clients, PushCollects(t) PROVE Types'
  <2>1. Head(todo[t]).ptr \in Collectables
    BY <1>11, AliveIsCollectable DEF PushCollects
  <2> QED
    BY <1>11, <2>1 DEF PushCollects, Types, Goto, MutexKept, curlVars, serverVars,
      callVars
<1>12. ASSUME NEW t \in Clients, PushGoesOn(t) PROVE Types'
  BY <1>12 DEF PushGoesOn, Forgets, Goto, listVars, curlVars, serverVars, Types
<1>13. ASSUME NEW t \in Clients, PushStops(t) PROVE Types'
  BY <1>13 DEF PushStops, Returns, Forgets, Goto, curlVars, serverVars, Types
<1>14. ASSUME NEW t \in Clients, PushReturns(t) PROVE Types'
  BY <1>14 DEF PushReturns, Returns, Goto, heapVars, curlVars, serverVars, Types
<1>15. ASSUME NEW t \in Clients, NEW k \in Tasks, Spawns(t, k) PROVE Types'
  BY <1>15 DEF Spawns, Runs, Goto, listVars, heapVars, curlVars, serverVars, Types
<1>16. ASSUME NEW t \in Clients, SpawnEnds(t) PROVE Types'
  BY <1>16 DEF SpawnEnds, Goto, heapVars, curlVars, callVars, serverVars, Types
<1>17. ASSUME NEW t \in Clients, FutureReady(t) PROVE Types'
  BY <1>17 DEF FutureReady, Returns, Forgets, listVars, heapVars, curlVars, serverVars,
    Types
<1>18. ASSUME NEW t \in Clients, DeleteReturns(t) PROVE Types'
  BY <1>18 DEF DeleteReturns, Returns, Forgets, Goto, listVars, heapVars, curlVars,
    serverVars, Types
<1>19. ASSUME NEW t \in Clients, TakesAnswer(t) PROVE Types'
  BY <1>19 DEF TakesAnswer, listVars, heapVars, curlVars, serverVars, Types
<1>20. ASSUME NEW p \in Processes, RequestBegins(p) PROVE Types'
  BY <1>20 DEF RequestBegins, Goto, listVars, heapVars, callVars, serverVars, Types
<1>21. ASSUME NEW p \in Processes, NEW x \in Statuses, RequestPerforms(p, x)
       PROVE  Types'
  <2>1. Transferred = request[p] /\ IsRequest(request[p])
    BY <1>21 DEF RequestPerforms, Handled, Places, Requesting
  <2>2. request[p].body \in Bodies
    BY <2>1 DEF IsRequest
  <2>3. Applied(Transferred) \in [Uris -> Bodies \cup {Null}]
    BY <2>1, <2>2 DEF Types, Applied
  <2>4. Append(late, Transferred) \in Seq(Elements(Append(late, Transferred)))
    BY AppendElements DEF Types
  <2> QED
    BY <1>21, <2>3, <2>4 DEF RequestPerforms, Types, Goto, listVars, heapVars, callVars
<1>22. ASSUME UNCHANGED vars PROVE Types'
  BY <1>22 DEF vars, Types
<1> QED
  BY StepCases, <1>1, <1>2, <1>3, <1>4, <1>5, <1>6, <1>7, <1>8, <1>9, <1>10, <1>11,
    <1>12, <1>13, <1>14, <1>15, <1>16, <1>17, <1>18, <1>19, <1>20, <1>21, <1>22

\* Each step keeps the mutex with the push that has it, and requests with their calls.
LEMMA PlacesKept ==
  ASSUME Types, Places, [Next]_vars
  PROVE  Places'
<1>1. ASSUME NEW c \in Collectables, MetricsChange(c) PROVE Places'
  BY <1>1 DEF MetricsChange, listVars, callVars, Places, Requesting
<1>2. ASSUME NEW c \in Collectables, OwnerDrops(c) PROVE Places'
  BY <1>2 DEF OwnerDrops, listVars, Places, Requesting
<1>3. ASSUME ServerCatchesUp PROVE Places'
  BY <1>3 DEF ServerCatchesUp, listVars, callVars, Places, Requesting
<1>4. ASSUME NEW t \in Clients, NEW c \in owned, NEW u \in EntryUris,
             RegisterCollectable(t, c, u)
      PROVE  Places'
  BY <1>4 DEF RegisterCollectable, callVars, Places, Requesting
<1>5. ASSUME NEW t \in Clients, NEW h \in ExtraHeaders, AddHttpHeader(t, h)
      PROVE  Places'
  BY <1>5 DEF AddHttpHeader, listVars, callVars, Places, Requesting
<1>6. ASSUME NEW t \in Clients, NEW m \in Pushing, PushLocks(t, m, "push") PROVE Places'
  BY <1>6, GatewayThreads DEF PushLocks, Begins, Goto, Types, Places, Requesting,
    Processes
<1>7. ASSUME NEW t \in Clients, NEW m \in Pushing, PushLocks(t, m, "spawn")
      PROVE  Places'
  BY <1>7, GatewayThreads DEF PushLocks, Begins, Goto, Types, Places, Requesting,
    Processes
<1>8. ASSUME NEW t \in Clients, NEW u \in Uris, DeleteCalls(t, u) PROVE Places'
  BY <1>8, DeleteIsRequest, GatewayThreads DEF DeleteCalls, Begins, Goto, listVars,
    Types, Places, Requesting, Pushing, Processes, DeleteRequest
<1>9. ASSUME NEW t \in Clients, NEW k \in Tasks, NEW u \in Uris, AsyncDelete(t, k, u)
      PROVE  Places'
  BY <1>9, DeleteIsRequest, GatewayThreads DEF AsyncDelete, Free, Runs, Goto, listVars,
    Types, Places, Requesting, DeleteRequest
<1>10. ASSUME NEW t \in Clients, PushSkips(t) PROVE Places'
  BY <1>10 DEF PushSkips, listVars, Places, Requesting
<1>11. ASSUME NEW t \in Clients, PushCollects(t) PROVE Places'
  <2>1. IsRequest(PushRequest(t)) /\ PushRequest(t).method = op[t]
    BY <1>11, PushIsRequest DEF PushCollects, Places
  <2> QED
    BY <1>11, <2>1, GatewayThreads DEF PushCollects, Goto, MutexKept, callVars, Types,
      Places, Requesting
<1>12. ASSUME NEW t \in Clients, PushGoesOn(t) PROVE Places'
  BY <1>12 DEF PushGoesOn, Forgets, Goto, listVars, Places, Requesting, Pushing
<1>13. ASSUME NEW t \in Clients, PushStops(t) PROVE Places'
  BY <1>13 DEF PushStops, Returns, Forgets, Goto, Types, Places, Requesting, Pushing,
    Processes
<1>14. ASSUME NEW t \in Clients, PushReturns(t) PROVE Places'
  BY <1>14 DEF PushReturns, Returns, Goto, Types, Places, Requesting, Processes
<1>15. ASSUME NEW t \in Clients, NEW k \in Tasks, Spawns(t, k) PROVE Places'
  <2>1. IsRequest(PushRequest(t)) /\ PushRequest(t).method = op[t]
    BY <1>15, PushIsRequest DEF Spawns, Places
  <2>2. /\ k \notin Clients /\ mutex' = mutex /\ op' = op
        /\ pc' = [pc EXCEPT ![k] = "request"]
        /\ request' = [request EXCEPT ![k] = PushRequest(t)]
    BY <1>15, GatewayThreads DEF Spawns, Runs, Goto, listVars
  <2>3. \A s \in Clients : pc'[s] = pc[s] /\ request'[s] = request[s]
    BY <2>2 DEF Types
  <2>4. ASSUME NEW p \in Requesting' PROVE IsRequest(request'[p])
    <3>1. CASE p = k
      BY <2>1, <2>2, <3>1 DEF Types, Requesting
    <3>2. CASE p # k
      <4>1. p \in Requesting /\ request'[p] = request[p]
        BY <2>2, <2>4, <3>2 DEF Types, Requesting
      <4> QED BY <4>1 DEF Places
    <3> QED BY <3>1, <3>2
  <2>5. \A s \in Clients \cap Requesting' : s \in Requesting
    BY <2>3 DEF Requesting
  <2> QED
    BY <2>2, <2>3, <2>4, <2>5 DEF Places
<1>16. ASSUME NEW t \in Clients, SpawnEnds(t) PROVE Places'
  BY <1>16 DEF SpawnEnds, Goto, callVars, Types, Places, Requesting, Processes
<1>17. ASSUME NEW t \in Clients, FutureReady(t) PROVE Places'
  <2>1. /\ mutex' = mutex /\ op' = [op EXCEPT ![t] = Null]
        /\ \A p \in Processes :
             pc'[p] = "idle" \/ (pc'[p] = pc[p] /\ request'[p] = request[p])
    <3>1. PICK s, made, done :
            /\ Returns(t, s, made) /\ Forgets(done)
            /\ pc' = [p \in Processes |-> IF p \in done THEN "idle" ELSE pc[p]]
      BY <1>17 DEF FutureReady
    <3>2. mutex' = mutex
      BY <1>17 DEF FutureReady, listVars
    <3>3. op' = [op EXCEPT ![t] = Null]
      BY <3>1 DEF Returns
    <3>4. \A p \in Processes : p \notin done => pc'[p] = pc[p] /\ request'[p] = request[p]
      BY <3>1 DEF Forgets
    <3>5. \A p \in Processes : p \in done => pc'[p] = "idle"
      BY <3>1
    <3> QED
      BY <3>2, <3>3, <3>4, <3>5
  <2>2. \A s \in Clients : op'[s] \in Pushing => op'[s] = op[s]
    BY <2>1, NullIsNothing DEF Types, Pushing
  <2>3. pc[t] = "idle" /\ \A s \in Clients : s # t => op'[s] = op[s]
    BY <1>17, <2>1 DEF FutureReady, Types
  <2>4. pc'[t] = "idle"
    BY <2>1, <2>3 DEF Processes
  <2> QED
    BY <2>1, <2>2, <2>3, <2>4 DEF Places, Requesting, Processes
<1>18. ASSUME NEW t \in Clients, DeleteReturns(t) PROVE Places'
  BY <1>18 DEF DeleteReturns, Returns, Forgets, Goto, listVars, Types, Places,
    Requesting, Processes
<1>19. ASSUME NEW t \in Clients, TakesAnswer(t) PROVE Places'
  BY <1>19 DEF TakesAnswer, listVars, Places, Requesting
<1>20. ASSUME NEW p \in Processes, RequestBegins(p) PROVE Places'
  BY <1>20 DEF RequestBegins, Goto, listVars, callVars, Places, Requesting
<1>21. ASSUME NEW p \in Processes, NEW x \in Statuses, RequestPerforms(p, x)
       PROVE  Places'
  BY <1>21 DEF RequestPerforms, Goto, listVars, callVars, Places, Requesting
<1>22. ASSUME UNCHANGED vars PROVE Places'
  BY <1>22 DEF vars, Places, Requesting
<1> QED
  BY StepCases, <1>1, <1>2, <1>3, <1>4, <1>5, <1>6, <1>7, <1>8, <1>9, <1>10, <1>11,
    <1>12, <1>13, <1>14, <1>15, <1>16, <1>17, <1>18, <1>19, <1>20, <1>21, <1>22

\* performHttpRequest: no step changes the options of a request that is under way.
LEMMA HandledKept ==
  ASSUME Types, Places, Handled, [Next]_vars
  PROVE  Handled'
<1>1. ASSUME NEW c \in Collectables, MetricsChange(c) PROVE Handled'
  BY <1>1 DEF MetricsChange, curlVars, Handled, Transferred
<1>2. ASSUME NEW c \in Collectables, OwnerDrops(c) PROVE Handled'
  BY <1>2 DEF OwnerDrops, curlVars, Handled, Transferred
<1>3. ASSUME ServerCatchesUp PROVE Handled'
  BY <1>3 DEF ServerCatchesUp, curlVars, Handled, Transferred
<1>4. ASSUME NEW t \in Clients, NEW c \in owned, NEW u \in EntryUris,
             RegisterCollectable(t, c, u)
      PROVE  Handled'
  BY <1>4 DEF RegisterCollectable, curlVars, Handled, Transferred
<1>5. ASSUME NEW t \in Clients, NEW h \in ExtraHeaders, AddHttpHeader(t, h)
      PROVE  Handled'
  BY <1>5, GatewayThreads DEF AddHttpHeader, CurlLocks, Handled
<1>6. ASSUME NEW t \in Clients, NEW m \in Pushing, PushLocks(t, m, "push")
      PROVE  Handled'
  BY <1>6 DEF PushLocks, Begins, Goto, curlVars, Handled, Transferred
<1>7. ASSUME NEW t \in Clients, NEW m \in Pushing, PushLocks(t, m, "spawn")
      PROVE  Handled'
  BY <1>7 DEF PushLocks, Begins, Goto, curlVars, Handled, Transferred
<1>8. ASSUME NEW t \in Clients, NEW u \in Uris, DeleteCalls(t, u) PROVE Handled'
  BY <1>8 DEF DeleteCalls, Begins, Goto, curlVars, Types, Handled, Transferred
<1>9. ASSUME NEW t \in Clients, NEW k \in Tasks, NEW u \in Uris, AsyncDelete(t, k, u)
      PROVE  Handled'
  BY <1>9 DEF AsyncDelete, Runs, Goto, curlVars, Handled, Transferred
<1>10. ASSUME NEW t \in Clients, PushSkips(t) PROVE Handled'
  BY <1>10 DEF PushSkips, curlVars, Handled, Transferred
<1>11. ASSUME NEW t \in Clients, PushCollects(t) PROVE Handled'
  BY <1>11 DEF PushCollects, Goto, curlVars, Handled, Transferred
<1>12. ASSUME NEW t \in Clients, PushGoesOn(t) PROVE Handled'
  BY <1>12 DEF PushGoesOn, Forgets, Goto, curlVars, Handled, Transferred
<1>13. ASSUME NEW t \in Clients, PushStops(t) PROVE Handled'
  BY <1>13 DEF PushStops, Forgets, Goto, curlVars, Handled, Transferred
<1>14. ASSUME NEW t \in Clients, PushReturns(t) PROVE Handled'
  BY <1>14 DEF PushReturns, Goto, curlVars, Handled, Transferred
<1>15. ASSUME NEW t \in Clients, NEW k \in Tasks, Spawns(t, k) PROVE Handled'
  BY <1>15 DEF Spawns, Runs, Goto, curlVars, Handled, Transferred
<1>16. ASSUME NEW t \in Clients, SpawnEnds(t) PROVE Handled'
  BY <1>16 DEF SpawnEnds, Goto, curlVars, Handled, Transferred
<1>17. ASSUME NEW t \in Clients, FutureReady(t) PROVE Handled'
  BY <1>17 DEF FutureReady, Forgets, curlVars, Handled, Transferred
<1>18. ASSUME NEW t \in Clients, DeleteReturns(t) PROVE Handled'
  BY <1>18 DEF DeleteReturns, Forgets, Goto, curlVars, Handled, Transferred
<1>19. ASSUME NEW t \in Clients, TakesAnswer(t) PROVE Handled'
  BY <1>19 DEF TakesAnswer, curlVars, Handled, Transferred
<1>20. ASSUME NEW p \in Processes, RequestBegins(p) PROVE Handled'
  <2>1. IsRequest(request[p])
    BY <1>20 DEF RequestBegins, Places, Requesting
  <2>2. Transferred' = request[p] /\ curl'.headers = headers /\ curl'.presetup
    BY <1>20, <2>1, OptionsTransferred DEF RequestBegins
  <2> QED
    BY <1>20, <2>2, GatewayThreads DEF RequestBegins, Handled, CurlLocks, Goto
<1>21. ASSUME NEW p \in Processes, NEW x \in Statuses, RequestPerforms(p, x)
       PROVE  Handled'
  BY <1>21 DEF RequestPerforms, Goto, Types, Handled
<1>22. ASSUME UNCHANGED vars PROVE Handled'
  BY <1>22 DEF vars, Handled, Transferred
<1> QED
  BY StepCases, <1>1, <1>2, <1>3, <1>4, <1>5, <1>6, <1>7, <1>8, <1>9, <1>10, <1>11,
    <1>12, <1>13, <1>14, <1>15, <1>16, <1>17, <1>18, <1>19, <1>20, <1>21, <1>22

\* The pushes that have a request to make had it before the step.
NoNewPush ==
  \A t \in Clients \cap Requesting' : op'[t] \in Pushing =>
    t \in Requesting /\ op[t] \in Pushing /\ request'[t] = request[t]

\* Where no body is new, and no push comes to its request, all stays as it was.
LEMMA NothingNew ==
  ASSUME Dated, version' = version, Known' \subseteq Known, NoNewPush
  PROVE  Dated'
<1> HIDE DEF Known, Requesting
<1>1. \A b \in Known' : InTime(b)'
  BY DEF Dated, InTime
<1> QED
  BY <1>1 DEF Dated, NoNewPush

\* Each step keeps the bodies in time, and a push ahead of what was sent.
LEMMA DatedKept ==
  ASSUME Types, Places, Handled, Dated, [Next]_vars
  PROVE  Dated'
<1>1. ASSUME NEW c \in Collectables, MetricsChange(c) PROVE Dated'
  <2>1. Known' = Known /\ Requesting' = Requesting
    BY <1>1 DEF MetricsChange, serverVars, Known, Requesting
  <2>2. \A b \in Known : InTime(b)'
    BY <1>1 DEF MetricsChange, Types, Dated, InTime, Bodies
  <2> HIDE DEF Known, Requesting
  <2> QED
    BY <1>1, <2>1, <2>2 DEF MetricsChange, Dated, callVars
<1>2. ASSUME NEW c \in Collectables, OwnerDrops(c) PROVE Dated'
  <2>1. Known' \subseteq Known
    BY <1>2 DEF OwnerDrops, serverVars, Known, Requesting
  <2>2. NoNewPush
    BY <1>2 DEF OwnerDrops, Types, Requesting, NoNewPush
  <2> QED
    BY <1>2, <2>1, <2>2, NothingNew DEF OwnerDrops
<1>3. ASSUME ServerCatchesUp PROVE Dated'
  <2>1. PICK i \in DOMAIN late : store' = Applied(late[i]) /\ late' = RemoveAt(late, i)
    BY <1>3 DEF ServerCatchesUp
  <2>2. \A j \in DOMAIN late' : \E k \in DOMAIN late : late'[j] = late[k]
    <3>1. Elements(late') \subseteq Elements(late)
      BY <2>1, RemoveAtElements DEF Types
    <3> QED
      BY <3>1 DEF Elements
  <2>3. \A u \in Uris : store'[u] # Null => store'[u] \in Known
    BY <2>1 DEF Types, Applied, Known
  <2>4. \A p \in Requesting' : p \in Requesting /\ request'[p] = request[p]
    BY <1>3 DEF ServerCatchesUp, Requesting
  <2>5. Known' \subseteq Known
    BY <2>2, <2>3, <2>4 DEF Known
  <2> QED
    BY <1>3, <2>4, <2>5, NothingNew DEF ServerCatchesUp, heapVars, callVars, NoNewPush
<1>4. ASSUME NEW t \in Clients, NEW c \in owned, NEW u \in EntryUris,
             RegisterCollectable(t, c, u)
      PROVE  Dated'
  <2>1. Known' \subseteq Known
    BY <1>4 DEF RegisterCollectable, serverVars, Known, Requesting
  <2>2. NoNewPush
    BY <1>4 DEF RegisterCollectable, callVars, Types, Requesting, NoNewPush
  <2> QED
    BY <1>4, <2>1, <2>2, NothingNew DEF RegisterCollectable, heapVars
<1>5. ASSUME NEW t \in Clients, NEW h \in ExtraHeaders, AddHttpHeader(t, h) PROVE Dated'
  <2>1. Known' \subseteq Known
    BY <1>5 DEF AddHttpHeader, serverVars, Known, Requesting
  <2>2. NoNewPush
    BY <1>5 DEF AddHttpHeader, callVars, Types, Requesting, NoNewPush
  <2> QED
    BY <1>5, <2>1, <2>2, NothingNew DEF AddHttpHeader, heapVars
<1>6. ASSUME NEW t \in Clients, NEW m \in Pushing, PushLocks(t, m, "push") PROVE Dated'
  <2>1. Known' \subseteq Known
    BY <1>6 DEF PushLocks, Begins, Goto, serverVars, Known, Requesting
  <2>2. NoNewPush
    BY <1>6 DEF PushLocks, Begins, Goto, Types, Requesting, NoNewPush
  <2> QED
    BY <1>6, <2>1, <2>2, NothingNew DEF PushLocks, heapVars
<1>7. ASSUME NEW t \in Clients, NEW m \in Pushing, PushLocks(t, m, "spawn") PROVE Dated'
  <2>1. Known' \subseteq Known
    BY <1>7 DEF PushLocks, Begins, Goto, serverVars, Known, Requesting
  <2>2. NoNewPush
    BY <1>7 DEF PushLocks, Begins, Goto, Types, Requesting, NoNewPush
  <2> QED
    BY <1>7, <2>1, <2>2, NothingNew DEF PushLocks, heapVars
<1>8. ASSUME NEW t \in Clients, NEW u \in Uris, DeleteCalls(t, u) PROVE Dated'
  <2>1. Known' \subseteq Known \cup {EmptyBody}
    BY <1>8 DEF DeleteCalls, Begins, Goto, serverVars, Types, DeleteRequest, Known,
      Requesting, Processes
  <2>2. NoNewPush
    BY <1>8, GatewayThreads DEF DeleteCalls, Begins, Goto, Types, Requesting, Pushing,
      NoNewPush
  <2>3. InTime(EmptyBody)
    BY NullIsNothing DEF InTime, EmptyBody, Bodies
  <2>4. \A b \in Known' : InTime(b)
    BY <2>1, <2>3 DEF Dated
  <2>5. \A s \in Clients \cap Requesting' : op'[s] \in Pushing =>
          request'[s].body.version \in Nat
    BY <2>2 DEF Places, IsRequest, Bodies, NoNewPush
  <2> HIDE DEF Known, Requesting
  <2>6. \A b \in Known' : InTime(b)'
    BY <1>8, <2>4 DEF DeleteCalls, InTime, heapVars
  <2>7. ASSUME NEW s \in Clients \cap Requesting', op'[s] \in Pushing, NEW b \in Known',
               b.ptr = request'[s].body.ptr
        PROVE  b.version <= request'[s].body.version
    <3>1. CASE b \in Known
      BY <2>2, <2>7, <3>1 DEF Dated, NoNewPush
    <3>2. CASE b = EmptyBody
      BY <2>5, <2>7, <3>2 DEF EmptyBody
    <3> QED
      BY <2>1, <3>1, <3>2
  <2> QED
    BY <2>6, <2>7 DEF Dated
<1>9. ASSUME NEW t \in Clients, NEW k \in Tasks, NEW u \in Uris, AsyncDelete(t, k, u)
      PROVE  Dated'
  <2>1. Known' \subseteq Known \cup {EmptyBody}
    BY <1>9 DEF AsyncDelete, Runs, Goto, serverVars, Types, DeleteRequest, Known,
      Requesting, Processes
  <2>2. NoNewPush
    BY <1>9, GatewayThreads DEF AsyncDelete, Runs, Goto, Types, Requesting, Pushing,
      NoNewPush
  <2>3. InTime(EmptyBody)
    BY NullIsNothing DEF InTime, EmptyBody, Bodies
  <2>4. \A b \in Known' : InTime(b)
    BY <2>1, <2>3 DEF Dated
  <2>5. \A s \in Clients \cap Requesting' : op'[s] \in Pushing =>
          request'[s].body.version \in Nat
    BY <2>2 DEF Places, IsRequest, Bodies, NoNewPush
  <2> HIDE DEF Known, Requesting
  <2>6. \A b \in Known' : InTime(b)'
    BY <1>9, <2>4 DEF AsyncDelete, InTime, heapVars
  <2>7. ASSUME NEW s \in Clients \cap Requesting', op'[s] \in Pushing, NEW b \in Known',
               b.ptr = request'[s].body.ptr
        PROVE  b.version <= request'[s].body.version
    <3>1. CASE b \in Known
      BY <2>2, <2>7, <3>1 DEF Dated, NoNewPush
    <3>2. CASE b = EmptyBody
      BY <2>5, <2>7, <3>2 DEF EmptyBody
    <3> QED
      BY <2>1, <3>1, <3>2
  <2> QED
    BY <2>6, <2>7 DEF Dated
<1>10. ASSUME NEW t \in Clients, PushSkips(t) PROVE Dated'
  <2>1. Known' \subseteq Known
    BY <1>10 DEF PushSkips, serverVars, Known, Requesting
  <2>2. NoNewPush
    BY <1>10 DEF PushSkips, Types, Requesting, NoNewPush
  <2> QED
    BY <1>10, <2>1, <2>2, NothingNew DEF PushSkips, heapVars
<1>11. ASSUME NEW t \in Clients, PushCollects(t) PROVE Dated'
  <2>1. PICK c \in Collectables : PushRequest(t).body = Body(c)
    BY <1>11, PushIsRequest DEF PushCollects, Places
  <2>2. Known' \subseteq Known \cup {Body(c)}
    BY <1>11, <2>1 DEF PushCollects, Goto, serverVars, Types, Known, Requesting
  <2>3. /\ InTime(Body(c))
        /\ \A b : InTime(b) /\ b.ptr = Body(c).ptr => b.version <= Body(c).version
    BY BodyIsNewest
  <2>4. \A b \in Known' : InTime(b)
    BY <2>2, <2>3 DEF Dated
  <2>5. \A s \in Clients \cap Requesting' : op'[s] \in Pushing =>
          request'[s].body = Body(c)
    BY <1>11, <2>1 DEF PushCollects, Goto, MutexKept, curlVars, callVars, serverVars,
      Types, Places, Requesting
  <2> HIDE DEF Known, Requesting
  <2>6. \A b \in Known' : InTime(b)'
    BY <1>11, <2>4 DEF PushCollects, InTime
  <2> QED
    BY <2>3, <2>4, <2>5, <2>6 DEF Dated
<1>12. ASSUME NEW t \in Clients, PushGoesOn(t) PROVE Dated'
  <2>1. Known' \subseteq Known
    BY <1>12 DEF PushGoesOn, Forgets, Goto, serverVars, Known, Requesting
  <2>2. NoNewPush
    BY <1>12 DEF PushGoesOn, Forgets, Goto, Types, Requesting, NoNewPush
  <2> QED
    BY <1>12, <2>1, <2>2, NothingNew DEF PushGoesOn
<1>13. ASSUME NEW t \in Clients, PushStops(t) PROVE Dated'
  <2>1. Known' \subseteq Known
    BY <1>13 DEF PushStops, Forgets, Goto, serverVars, Known, Requesting
  <2>2. NoNewPush
    BY <1>13 DEF PushStops, Returns, Forgets, Goto, Types, Requesting, NoNewPush
  <2> QED
    BY <1>13, <2>1, <2>2, NothingNew DEF PushStops
<1>14. ASSUME NEW t \in Clients, PushReturns(t) PROVE Dated'
  <2>1. Known' \subseteq Known
    BY <1>14 DEF PushReturns, Goto, serverVars, Known, Requesting
  <2>2. NoNewPush
    BY <1>14 DEF PushReturns, Returns, Goto, Types, Requesting, NoNewPush
  <2> QED
    BY <1>14, <2>1, <2>2, NothingNew DEF PushReturns, heapVars
<1>15. ASSUME NEW t \in Clients, NEW k \in Tasks, Spawns(t, k) PROVE Dated'
  <2>1. PICK c \in Collectables : PushRequest(t).body = Body(c)
    BY <1>15, PushIsRequest DEF Spawns, Places
  <2>2. Known' \subseteq Known \cup {Body(c)}
    BY <1>15, <2>1 DEF Spawns, Runs, Goto, serverVars, Types, Known, Requesting,
      Processes
  <2>3. InTime(Body(c))
    BY BodyIsNewest
  <2>4. \A b \in Known' : InTime(b)
    BY <2>2, <2>3 DEF Dated
  <2>5. \A s \in Clients \cap Requesting' : op'[s] \notin Pushing
    BY <1>15, GatewayThreads DEF Spawns, Runs, Goto, listVars, heapVars, curlVars,
      serverVars, Types, Places, Requesting
  <2> HIDE DEF Known, Requesting
  <2>6. \A b \in Known' : InTime(b)'
    BY <1>15, <2>4 DEF Spawns, InTime, heapVars
  <2> QED
    BY <2>5, <2>6 DEF Dated
<1>16. ASSUME NEW t \in Clients, SpawnEnds(t) PROVE Dated'
  <2>1. Known' \subseteq Known
    BY <1>16 DEF SpawnEnds, Goto, serverVars, Known, Requesting
  <2>2. NoNewPush
    BY <1>16 DEF SpawnEnds, Goto, callVars, Types, Requesting, NoNewPush
  <2> QED
    BY <1>16, <2>1, <2>2, NothingNew DEF SpawnEnds, heapVars
<1>17. ASSUME NEW t \in Clients, FutureReady(t) PROVE Dated'
  <2>1. Known' \subseteq Known
    BY <1>17 DEF FutureReady, Forgets, serverVars, Known, Requesting
  <2>2. NoNewPush
    BY <1>17 DEF FutureReady, Returns, Forgets, Types, Requesting, NoNewPush
  <2> QED
    BY <1>17, <2>1, <2>2, NothingNew DEF FutureReady, heapVars
<1>18. ASSUME NEW t \in Clients, DeleteReturns(t) PROVE Dated'
  <2>1. Known' \subseteq Known
    BY <1>18 DEF DeleteReturns, Forgets, Goto, serverVars, Known, Requesting
  <2>2. NoNewPush
    BY <1>18 DEF DeleteReturns, Returns, Forgets, Goto, Types, Requesting, NoNewPush
  <2> QED
    BY <1>18, <2>1, <2>2, NothingNew DEF DeleteReturns, heapVars
<1>19. ASSUME NEW t \in Clients, TakesAnswer(t) PROVE Dated'
  <2>1. Known' \subseteq Known
    BY <1>19 DEF TakesAnswer, serverVars, Known, Requesting
  <2>2. NoNewPush
    BY <1>19 DEF TakesAnswer, Types, Requesting, NoNewPush
  <2> QED
    BY <1>19, <2>1, <2>2, NothingNew DEF TakesAnswer, heapVars
<1>20. ASSUME NEW p \in Processes, RequestBegins(p) PROVE Dated'
  <2>1. Known' \subseteq Known
    BY <1>20 DEF RequestBegins, Goto, serverVars, Known, Requesting
  <2>2. NoNewPush
    BY <1>20 DEF RequestBegins, Goto, callVars, Types, Requesting, NoNewPush
  <2> QED
    BY <1>20, <2>1, <2>2, NothingNew DEF RequestBegins, heapVars
<1>21. ASSUME NEW p \in Processes, NEW x \in Statuses, RequestPerforms(p, x)
       PROVE  Dated'
  <2>1. Transferred = request[p] /\ p \in Requesting
    BY <1>21 DEF RequestPerforms, Handled, Requesting
  <2>2. \A j \in DOMAIN late' : late'[j].body \in Known
    <3>1. \A j \in DOMAIN late : late[j].body \in Known
      BY DEF Known
    <3>2. Transferred.body \in Known
      BY <2>1 DEF Known
    <3>3. \A j \in DOMAIN Append(late, Transferred) :
            Append(late, Transferred)[j] \in Elements(late) \cup {Transferred}
      BY AppendElements DEF Types, Elements
    <3> QED
      BY <1>21, <3>1, <3>2, <3>3 DEF RequestPerforms, Elements
  <2>3. \A u \in Uris : store'[u] # Null => store'[u] \in Known
    BY <1>21, <2>1 DEF RequestPerforms, Types, Applied, Known
  <2>4. \A q \in Requesting' : q \in Requesting /\ request'[q] = request[q]
    BY <1>21 DEF RequestPerforms, Types, Goto, Requesting
  <2>5. Known' \subseteq Known
    BY <2>2, <2>3, <2>4 DEF Known
  <2> QED
    BY <1>21, <2>4, <2>5, NothingNew DEF RequestPerforms, heapVars, callVars, NoNewPush
<1>22. ASSUME UNCHANGED vars PROVE Dated'
  BY <1>22 DEF vars, Dated, InTime, Known, Requesting
<1> QED
  BY StepCases, <1>1, <1>2, <1>3, <1>4, <1>5, <1>6, <1>7, <1>8, <1>9, <1>10, <1>11,
    <1>12, <1>13, <1>14, <1>15, <1>16, <1>17, <1>18, <1>19, <1>20, <1>21, <1>22

\* Where the store changes as a client has its answer, its request is performed.
LEMMA StoreChanges ==
  ASSUME Types, NEW q \in Clients, pc[q] = "perform", pc'[q] = "done",
         store' # store, [Next]_vars
  PROVE  \E y \in Statuses : RequestPerforms(q, y)
<1>1. ASSUME NEW c \in Collectables, MetricsChange(c)
      PROVE  \E y \in Statuses : RequestPerforms(q, y)
  BY <1>1 DEF MetricsChange
<1>2. ASSUME NEW c \in Collectables, OwnerDrops(c)
      PROVE  \E y \in Statuses : RequestPerforms(q, y)
  BY <1>2 DEF OwnerDrops
<1>3. ASSUME ServerCatchesUp PROVE \E y \in Statuses : RequestPerforms(q, y)
  BY <1>3 DEF ServerCatchesUp
<1>4. ASSUME NEW t \in Clients, NEW c \in owned, NEW u \in EntryUris,
             RegisterCollectable(t, c, u)
      PROVE  \E y \in Statuses : RequestPerforms(q, y)
  BY <1>4 DEF RegisterCollectable
<1>5. ASSUME NEW t \in Clients, NEW h \in ExtraHeaders, AddHttpHeader(t, h)
      PROVE  \E y \in Statuses : RequestPerforms(q, y)
  BY <1>5 DEF AddHttpHeader
<1>6. ASSUME NEW t \in Clients, NEW m \in Pushing, PushLocks(t, m, "push")
      PROVE  \E y \in Statuses : RequestPerforms(q, y)
  BY <1>6 DEF PushLocks, Begins, Goto
<1>7. ASSUME NEW t \in Clients, NEW m \in Pushing, PushLocks(t, m, "spawn")
      PROVE  \E y \in Statuses : RequestPerforms(q, y)
  BY <1>7 DEF PushLocks, Begins, Goto
<1>8. ASSUME NEW t \in Clients, NEW u \in Uris, DeleteCalls(t, u)
      PROVE  \E y \in Statuses : RequestPerforms(q, y)
  BY <1>8 DEF DeleteCalls, Begins, Goto
<1>9. ASSUME NEW t \in Clients, NEW k \in Tasks, NEW u \in Uris, AsyncDelete(t, k, u)
      PROVE  \E y \in Statuses : RequestPerforms(q, y)
  BY <1>9 DEF AsyncDelete, Goto
<1>10. ASSUME NEW t \in Clients, PushSkips(t)
       PROVE  \E y \in Statuses : RequestPerforms(q, y)
  BY <1>10 DEF PushSkips
<1>11. ASSUME NEW t \in Clients, PushCollects(t)
       PROVE  \E y \in Statuses : RequestPerforms(q, y)
  BY <1>11 DEF PushCollects, Goto
<1>12. ASSUME NEW t \in Clients, PushGoesOn(t)
       PROVE  \E y \in Statuses : RequestPerforms(q, y)
  BY <1>12 DEF PushGoesOn, Goto
<1>13. ASSUME NEW t \in Clients, PushStops(t)
       PROVE  \E y \in Statuses : RequestPerforms(q, y)
  BY <1>13 DEF PushStops, Goto
<1>14. ASSUME NEW t \in Clients, PushReturns(t)
       PROVE  \E y \in Statuses : RequestPerforms(q, y)
  BY <1>14 DEF PushReturns, Goto
<1>15. ASSUME NEW t \in Clients, NEW k \in Tasks, Spawns(t, k)
       PROVE  \E y \in Statuses : RequestPerforms(q, y)
  BY <1>15 DEF Spawns, Goto
<1>16. ASSUME NEW t \in Clients, SpawnEnds(t)
       PROVE  \E y \in Statuses : RequestPerforms(q, y)
  BY <1>16 DEF SpawnEnds, Goto
<1>17. ASSUME NEW t \in Clients, FutureReady(t)
       PROVE  \E y \in Statuses : RequestPerforms(q, y)
  BY <1>17 DEF FutureReady, serverVars
<1>18. ASSUME NEW t \in Clients, DeleteReturns(t)
       PROVE  \E y \in Statuses : RequestPerforms(q, y)
  BY <1>18 DEF DeleteReturns, Goto
<1>19. ASSUME NEW t \in Clients, TakesAnswer(t)
       PROVE  \E y \in Statuses : RequestPerforms(q, y)
  BY <1>19 DEF TakesAnswer
<1>20. ASSUME NEW p \in Processes, RequestBegins(p)
       PROVE  \E y \in Statuses : RequestPerforms(q, y)
  BY <1>20 DEF RequestBegins, Goto
<1>21. ASSUME NEW p \in Processes, NEW x \in Statuses, RequestPerforms(p, x)
       PROVE  \E y \in Statuses : RequestPerforms(q, y)
  <2>1. p = q
    BY <1>21 DEF RequestPerforms, Goto
  <2> QED
    BY <1>21, <2>1
<1>22. ASSUME UNCHANGED vars PROVE \E y \in Statuses : RequestPerforms(q, y)
  BY <1>22 DEF vars
<1> QED
  BY StepCases, <1>1, <1>2, <1>3, <1>4, <1>5, <1>6, <1>7, <1>8, <1>9, <1>10, <1>11,
    <1>12, <1>13, <1>14, <1>15, <1>16, <1>17, <1>18, <1>19, <1>20, <1>21, <1>22

-----------------------------------------------------------------------------
(* The theorems.                                                           *)

\* Init: the list, the handle and the server are empty.
LEMMA InvariantInit == Init => IInv
<1> SUFFICES ASSUME Init PROVE IInv
  OBVIOUS
<1>1. late = <<>> /\ <<>> \in Seq({}) /\ Elements(<<>>) = {}
  BY EmptySeq DEF Init, Elements
<1>2. Types
  BY <1>1 DEF Init, Types
<1>3. Requesting = {} /\ Known = {}
  BY <1>1 DEF Init, Requesting, Known
<1>4. Places
  BY <1>3 DEF Init, Places, Processes
<1>5. Handled
  BY DEF Init, Handled
<1>6. Dated
  BY <1>3 DEF Dated
<1> QED
  BY <1>2, <1>4, <1>5, <1>6 DEF IInv

\* Every step keeps the invariant.
LEMMA InvariantStep == IInv /\ [Next]_vars => IInv'
BY TypesKept, PlacesKept, HandledKept, DatedKept DEF IInv

\* The invariant holds of every state of every behaviour.
LEMMA Invariant == Spec => []IInv
BY InvariantInit, InvariantStep, PTL DEF Spec

\* performHttpRequest: what goes out is the request of the call that has the
\* handle, whatever other threads, tasks and earlier requests have set.
THEOREM RequestsAreIntact == Spec => []RequestsIntact
<1>1. IInv => RequestsIntact
  BY DEF IInv, Handled, RequestsIntact
<1> QED
  BY Invariant, <1>1, PTL

\* push: a synchronous push never gives a group older metrics than it has.
THEOREM PushesAreOrdered == Spec => NeverOlder
<1> DEFINE Ordered ==
      \A t \in Clients, u \in Uris :
        (pc[t] = "perform" /\ pc'[t] = "done" /\ store[u] # Null /\ store'[u] # Null) =>
          (store[u].ptr = store'[u].ptr => store[u].version <= store'[u].version)
<1>1. ASSUME IInv, [Next]_vars PROVE Ordered
  <2> SUFFICES ASSUME NEW t \in Clients, NEW u \in Uris,
                      pc[t] = "perform", pc'[t] = "done",
                      store[u] # Null, store'[u] # Null,
                      store[u].ptr = store'[u].ptr
               PROVE  store[u].version <= store'[u].version
    OBVIOUS
  <2>1. store[u] \in Bodies
    BY <1>1 DEF IInv, Types
  <2>2. CASE store'[u] = store[u]
    BY <2>1, <2>2 DEF Bodies
  <2>3. CASE store'[u] # store[u]
    <3>1. PICK x \in Statuses : RequestPerforms(t, x)
      BY <1>1, <2>3, StoreChanges DEF IInv
    <3>2. t \in Clients \cap Requesting /\ Transferred = request[t]
      BY <1>1, <3>1 DEF IInv, Handled, RequestPerforms, Requesting, Processes
    <3>3. store' = Applied(request[t])
      BY <2>3, <3>1, <3>2 DEF RequestPerforms
    <3>4. request[t].method # "DELETE" /\ store'[u] = request[t].body
      BY <1>1, <2>3, <3>3 DEF IInv, Applied
    <3>5. op[t] \in Pushing
      BY <1>1, <3>2, <3>4 DEF IInv, Places, IsRequest, Methods, Pushing
    <3>6. store[u] \in Known
      BY DEF Known
    <3> QED
      BY <1>1, <3>2, <3>4, <3>5, <3>6 DEF IInv, Dated
  <2> QED
    BY <2>2, <2>3
<1> QED
  BY Invariant, <1>1, PTL DEF Spec, NeverOlder
-----------------------------------------------------------------------------
(* Induction over data: the numbers are well-founded, so a set of them that *)
(* is not empty has a least element.                                       *)

\* A set of natural numbers that is not empty has a least element.
LEMMA LeastNatural ==
  ASSUME NEW T \in SUBSET Nat, T # {}
  PROVE  \E x \in T : \A y \in T : x <= y
<1>1. PICK R : R = {p \in Nat \X Nat : p[1] < p[2]}
  OBVIOUS
<1>2. IsWellFoundedOn(R, Nat)
  BY <1>1, NatLessThanWellFounded DEF OpToRel
<1>3. PICK x \in T : \A y \in T : ~ <<y, x>> \in R
  BY <1>2, WFMin, Zenon
<1>4. \A y \in T : y \in Nat /\ x \in Nat /\ ~ (y < x)
  BY <1>1, <1>3
<1> QED
  BY <1>4

\* A set with 0 and the successor of each of its numbers has them all.
LEMMA Induction ==
  ASSUME NEW T, 0 \in T, \A n \in Nat : n \in T => n + 1 \in T
  PROVE  Nat \subseteq T
<1> SUFFICES ASSUME Nat \ T # {} PROVE FALSE
  OBVIOUS
<1>1. PICK x \in Nat \ T : \A y \in Nat \ T : x <= y
  BY LeastNatural
<1>2. x - 1 \in Nat /\ x - 1 \in T
  BY <1>1
<1> QED
  BY <1>1, <1>2

\* Max, of the indices of a sequence: it is one of them, and none is greater.
LEMMA GreatestIndex ==
  ASSUME NEW n \in Nat, NEW T \in SUBSET (1 .. n), T # {}
  PROVE  Max(T) \in T /\ \A y \in T : y <= Max(T)
<1>1. PICK D : D = {n - y : y \in T}
  OBVIOUS
<1>2. D \in SUBSET Nat /\ D # {}
  <2>1. \A y \in T : n - y \in Nat
    OBVIOUS
  <2> QED
    BY <1>1, <2>1
<1>3. PICK d \in D : \A e \in D : d <= e
  BY <1>2, LeastNatural
<1>4. PICK m \in T : d = n - m
  BY <1>1, <1>3
<1>5. \A y \in T : n - y \in D
  BY <1>1
<1>6. \A y \in T : m >= y
  BY <1>3, <1>4, <1>5
<1> QED
  BY <1>6 DEF Max

\* f starts with b, and each value follows from the one before it.
Follows(f, n, b, step) == f[0] = b /\ \A i \in 1 .. n : f[i] = step[i][f[i - 1]]

\* A recursive definition on 0 .. n has a solution.
LEMMA Recursion ==
  ASSUME NEW S, NEW n \in Nat, NEW b \in S, NEW step \in [1 .. n -> [S -> S]]
  PROVE  \E f \in [0 .. n -> S] : Follows(f, n, b, step)
<1> DEFINE T == {m \in Nat : m <= n => \E f \in [0 .. m -> S] : Follows(f, m, b, step)}
<1>1. 0 \in T
  <2>1. [i \in 0 .. 0 |-> b] \in [0 .. 0 -> S] /\ Follows([i \in 0 .. 0 |-> b], 0, b, step)
    BY DEF Follows
  <2> QED
    BY <2>1
<1>2. ASSUME NEW m \in Nat, m \in T PROVE m + 1 \in T
  <2> SUFFICES ASSUME m + 1 <= n
               PROVE  \E f \in [0 .. m + 1 -> S] : Follows(f, m + 1, b, step)
    OBVIOUS
  <2>1. PICK f \in [0 .. m -> S] : Follows(f, m, b, step)
    BY <1>2
  <2>2. PICK g : g = [i \in 0 .. m + 1 |-> IF i = m + 1 THEN step[m + 1][f[m]] ELSE f[i]]
    OBVIOUS
  <2>3. step[m + 1] \in [S -> S] /\ f[m] \in S
    OBVIOUS
  <2>4. step[m + 1][f[m]] \in S
    BY <2>3
  <2>5. g \in [0 .. m + 1 -> S]
    BY <2>2, <2>4
  <2>6. Follows(g, m + 1, b, step)
    BY <2>1, <2>2 DEF Follows
  <2> QED
    BY <2>5, <2>6
<1>3. Nat \subseteq T
  <2> HIDE DEF T
  <2> QED
    BY <1>1, <1>2, Induction
<1> QED
  BY <1>3
-----------------------------------------------------------------------------
(* What AnswersHonest needs.                                               *)

Entry == [ptr : Collectables, uri : EntryUris]

\* CleanupStalePointers: what is left of a list of entries is one.
LEMMA CleanedUp ==
  ASSUME NEW E, NEW l \in Seq(E)
  PROVE  CleanupStalePointers(l) \in Seq(E)
<1>1. PICK n, S, b : n = Len(l) /\ S = Seq(E) /\ b = <<>>
  OBVIOUS
<1>2. n \in Nat /\ b \in S /\ \A i \in 1 .. n : l[i] \in E
  BY <1>1, LenProperties, EmptySeq, ElementOfSeq
<1> DEFINE Next1(i, x) == IF Alive(l[i].ptr) THEN Append(x, l[i]) ELSE x
           Kept(f) == [i \in 0 .. n |-> IF i = 0 THEN b ELSE Next1(i, f[i - 1])]
<1>3. CleanupStalePointers(l) = (CHOOSE f : f = Kept(f))[n]
  BY <1>1, Zenon DEF CleanupStalePointers
<1>4. \A i \in 1 .. n, x \in S : Next1(i, x) \in S
  BY <1>1, <1>2, AppendProperties
<1> HIDE DEF Next1
<1>5. PICK step : step = [i \in 1 .. n |-> [x \in S |-> Next1(i, x)]]
  OBVIOUS
<1>6. step \in [1 .. n -> [S -> S]]
  BY <1>4, <1>5
<1>7. PICK f \in [0 .. n -> S] : Follows(f, n, b, step)
  BY <1>2, <1>6, Recursion
<1>8. f = Kept(f)
  <2>1. f[0] = b
    BY <1>7 DEF Follows
  <2>2. \A i \in 1 .. n : f[i - 1] \in S /\ f[i] = step[i][f[i - 1]]
    BY <1>2, <1>7 DEF Follows
  <2>3. \A i \in 1 .. n : f[i] = Next1(i, f[i - 1])
    BY <1>5, <2>2
  <2>4. \A i \in 0 .. n : f[i] = IF i = 0 THEN b ELSE Next1(i, f[i - 1])
    BY <1>2, <2>1, <2>3
  <2>5. f = [i \in 0 .. n |-> f[i]]
    OBVIOUS
  <2>6. [i \in 0 .. n |-> f[i]] = Kept(f)
    BY <2>4
  <2> QED
    BY <2>5, <2>6, Zenon
<1> HIDE DEF Kept
<1>9. PICK g : g = Kept(g) /\ CleanupStalePointers(l) = g[n]
  BY <1>3, <1>8
<1>10. /\ g[0] = b
       /\ \A i \in 1 .. n : g[i] = Next1(i, g[i - 1])
  <2>1. \A i \in 0 .. n : g[i] = IF i = 0 THEN b ELSE Next1(i, g[i - 1])
    BY <1>9 DEF Kept
  <2> QED
    BY <1>2, <2>1
<1> DEFINE T == {m \in Nat : m <= n => g[m] \in S}
<1>11. 0 \in T
  BY <1>2, <1>10
<1>12. ASSUME NEW m \in Nat, m \in T PROVE m + 1 \in T
  <2> SUFFICES ASSUME m + 1 <= n PROVE g[m + 1] \in S
    OBVIOUS
  <2>1. m + 1 \in 1 .. n /\ g[m] \in S
    BY <1>2, <1>12
  <2>2. g[m + 1] = Next1(m + 1, g[m])
    BY <1>10, <2>1
  <2> QED
    BY <1>4, <2>1, <2>2
<1>13. n \in T
  <2> HIDE DEF T
  <2>1. Nat \subseteq T
    BY <1>11, <1>12, Induction
  <2> QED
    BY <1>2, <2>1
<1> QED
  BY <1>1, <1>2, <1>9, <1>13

\* push: a status is good or bad, and what is bad is not good.
LEMMA GoodOrBad == ASSUME NEW s \in Int PROVE Good(s) <=> ~ Bad(s)
BY DEF Good, Bad

\* reduceFutures: 200 where all is good, and otherwise a bad status.
LEMMA ReducedIsHonest ==
  ASSUME NEW l \in Seq(Int)
  PROVE  \/ (\A i \in DOMAIN l : Good(l[i])) /\ Reduced(l) = 200
         \/ \E i \in DOMAIN l : ~ Good(l[i]) /\ Reduced(l) = l[i]
<1>1. Len(l) \in Nat /\ DOMAIN l = 1 .. Len(l) /\ \A i \in DOMAIN l : l[i] \in Int
  BY LenProperties
<1>2. PICK n, D : n = Len(l) /\ D = {i \in DOMAIN l : Bad(l[i])}
  OBVIOUS
<1>3. \A i \in DOMAIN l : i \in D <=> ~ Good(l[i])
  BY <1>1, <1>2, GoodOrBad
<1>4. Reduced(l) = IF D = {} THEN 200 ELSE l[Max(D)]
  BY <1>2 DEF Reduced
<1>5. CASE D = {}
  BY <1>3, <1>4, <1>5
<1>6. CASE D # {}
  <2>1. n \in Nat /\ D \in SUBSET (1 .. n)
    BY <1>1, <1>2
  <2>2. Max(D) \in D
    BY <1>6, <2>1, GreatestIndex
  <2> QED
    BY <1>1, <1>2, <1>3, <1>4, <1>6, <2>2
<1> QED
  BY <1>5, <1>6

\* A sequence that is not empty has its head, and the elements of its tail.
LEMMA CoveredOn ==
  ASSUME NEW E, NEW l \in Seq(E), l # <<>>
  PROVE  /\ Head(l) \in E /\ Tail(l) \in Seq(E)
         /\ Elements(l) = {Head(l)} \cup Elements(Tail(l))
<1>1. /\ Head(l) \in E /\ Tail(l) \in Seq(E) /\ Len(Tail(l)) = Len(l) - 1
      /\ Head(l) = l[1] /\ \A i \in 1 .. Len(l) - 1 : Tail(l)[i] = l[i + 1]
  BY HeadTailProperties
<1>2. /\ Len(l) \in Nat /\ DOMAIN l = 1 .. Len(l) /\ Len(l) > 0
      /\ DOMAIN Tail(l) = 1 .. Len(l) - 1
  BY <1>1, LenProperties, EmptySeq
<1>3. PICK n, t, h : n = Len(l) /\ t = Tail(l) /\ h = Head(l)
  OBVIOUS
<1>4. \A i \in 1 .. n : i = 1 \/ (i - 1 \in 1 .. n - 1 /\ l[i] = t[i - 1])
  BY <1>1, <1>2, <1>3
<1>5. \A i \in 1 .. n - 1 : i + 1 \in 1 .. n /\ t[i] = l[i + 1]
  BY <1>1, <1>2, <1>3
<1>6. 1 \in 1 .. n /\ h = l[1]
  BY <1>1, <1>2, <1>3
<1>7. Elements(l) \subseteq {h} \cup Elements(t)
  <2>1. \A i \in 1 .. n - 1 : t[i] \in Elements(t)
    BY <1>2, <1>3 DEF Elements
  <2>2. \A i \in 1 .. n : l[i] \in {h} \cup Elements(t)
    BY <1>4, <1>6, <2>1
  <2>3. \A x \in Elements(l) : \E i \in 1 .. n : x = l[i]
    BY <1>2, <1>3 DEF Elements
  <2> QED
    BY <2>2, <2>3
<1>8. {h} \cup Elements(t) \subseteq Elements(l)
  <2>1. \A i \in 1 .. n : l[i] \in Elements(l)
    BY <1>2, <1>3 DEF Elements
  <2>2. \A i \in 1 .. n - 1 : t[i] \in Elements(l)
    BY <1>5, <2>1
  <2>3. \A x \in Elements(t) : \E i \in 1 .. n - 1 : x = t[i]
    BY <1>2, <1>3 DEF Elements
  <2> QED
    BY <1>6, <2>1, <2>2, <2>3
<1> QED
  BY <1>1, <1>3, <1>7, <1>8

\* Append: what was there keeps its place, and the new element is the last.
LEMMA AppendHas ==
  ASSUME NEW E, NEW l \in Seq(E), NEW e \in E
  PROVE  /\ Append(l, e) \in Seq(E) /\ Append(l, e) # <<>>
         /\ Len(Append(l, e)) = Len(l) + 1
         /\ DOMAIN Append(l, e) = DOMAIN l \cup {Len(l) + 1}
         /\ Len(l) \in Nat /\ DOMAIN l = 1 .. Len(l)
         /\ \A i \in DOMAIN l : Append(l, e)[i] = l[i]
         /\ Append(l, e)[Len(l) + 1] = e
<1>1. /\ Append(l, e) \in Seq(E) /\ Append(l, e) # <<>>
      /\ Len(Append(l, e)) = Len(l) + 1
      /\ \A i \in 1 .. Len(l) : Append(l, e)[i] = l[i]
      /\ Append(l, e)[Len(l) + 1] = e
  BY AppendProperties
<1>2. Len(l) \in Nat /\ DOMAIN l = 1 .. Len(l)
  BY LenProperties
<1>3. DOMAIN Append(l, e) = 1 .. Len(l) + 1
  BY <1>1, LenProperties
<1>4. PICK n : n = Len(l)
  OBVIOUS
<1>5. 1 .. n + 1 = 1 .. n \cup {n + 1}
  BY <1>2, <1>4
<1> QED
  BY <1>1, <1>2, <1>3, <1>4, <1>5

\* The types of what a call goes through and what it leaves behind.
Lists ==
  /\ collectables \in Seq(Entry)
  /\ status \in [Processes -> Int]
  /\ todo \in [Clients -> Seq(Entry)]
  /\ sent \in [Clients -> Seq(Entry \X Int)]
  /\ due \in [Clients -> SUBSET Entry]
  /\ futures \in [Clients -> Seq([task : Tasks, entry : Entry \cup {Null}])]
  /\ DOMAIN answer = Clients

\* An entry the call of t has sent, or has a task for, or comes to.
Covered(t, e) ==
  \/ e \in Elements(todo[t])
  \/ \E i \in DOMAIN sent[t] : sent[t][i][1] = e
  \/ \E i \in DOMAIN futures[t] : futures[t][i].entry = e

\* A push that has a request to make is at the head of its list, and only such
\* a push keeps a collectable alive.
Holds(t) ==
  /\ held[t] # Null => pc[t] \in {"request", "perform", "done"} /\ op[t] \in Pushing
  /\ pc[t] \in {"request", "perform", "done"} /\ op[t] \in Pushing => todo[t] # <<>>

\* What the call of t has done so far: no response was an error, and what it has to
\* send is alive and will be.
Promise(t) ==
  /\ op[t] = Null => pc[t] = "idle" /\ futures[t] = <<>>
  /\ pc[t] \notin {"idle", "spawn"} => futures[t] = <<>>
  /\ pc[t] = "idle" => todo[t] = <<>>
  /\ pc[t] \in {"idle", "spawn"} => sent[t] = <<>>
  /\ op[t] = "DELETE" => due[t] = {} /\ (pc[t] = "idle" => Len(futures[t]) = 1)
  /\ \A i \in DOMAIN sent[t] : Good(sent[t][i][2])
  /\ \A e \in due[t] : e.ptr \in owned /\ Covered(t, e)
  /\ op[t] = Null => due[t] = {}

Promised == \A t \in Clients : Holds(t) /\ Promise(t)

IHonest == Lists /\ Promised /\ AnswersHonest

\* Returns: the lists of a call are empty after it.
LEMMA ReturnsLists ==
  ASSUME Lists, NEW t \in Clients, NEW s, NEW made, Returns(t, s, made)
  PROVE  /\ todo' \in [Clients -> Seq(Entry)]
         /\ sent' \in [Clients -> Seq(Entry \X Int)]
         /\ due' \in [Clients -> SUBSET Entry]
         /\ DOMAIN answer' = Clients
<1>1. \A S : <<>> \in Seq(S)
  BY EmptySeq
<1> QED
  BY <1>1 DEF Returns, Lists

\* Forgets: the status of a request that is done with is 0.
LEMMA ForgetsStatus ==
  ASSUME Lists, NEW P, Forgets(P)
  PROVE  status' \in [Processes -> Int]
BY DEF Forgets, Lists

\* Each step keeps the types of the lists.
LEMMA ListsKept ==
  ASSUME Types, Lists, Promised, [Next]_vars
  PROVE  Lists'
<1>1. ASSUME NEW c \in Collectables, MetricsChange(c) PROVE Lists'
  BY <1>1 DEF MetricsChange, listVars, callVars, Lists
<1>2. ASSUME NEW c \in Collectables, OwnerDrops(c) PROVE Lists'
  BY <1>2 DEF OwnerDrops, listVars, Lists
<1>3. ASSUME ServerCatchesUp PROVE Lists'
  BY <1>3 DEF ServerCatchesUp, listVars, callVars, Lists
<1>4. ASSUME NEW t \in Clients, NEW c \in owned, NEW u \in EntryUris,
             RegisterCollectable(t, c, u)
      PROVE  Lists'
  <2>1. PICK l, e : l = CleanupStalePointers(collectables) /\ e = [ptr |-> c, uri |-> u]
    OBVIOUS
  <2>2. l \in Seq(Entry)
    BY <2>1, CleanedUp DEF Lists
  <2>3. e \in Entry
    BY <2>1 DEF Types, Entry
  <2>4. collectables' = Append(l, e)
    BY <1>4, <2>1 DEF RegisterCollectable
  <2>5. collectables' \in Seq(Entry)
    BY <2>2, <2>3, <2>4, AppendProperties
  <2> QED
    BY <1>4, <2>5 DEF RegisterCollectable, callVars, Lists
<1>5. ASSUME NEW t \in Clients, NEW h \in ExtraHeaders, AddHttpHeader(t, h) PROVE Lists'
  BY <1>5 DEF AddHttpHeader, listVars, callVars, Lists
<1>6. ASSUME NEW t \in Clients, NEW m \in Pushing, NEW loc, PushLocks(t, m, loc)
      PROVE  Lists'
  <2>1. Entries \subseteq Entry
    BY LenProperties DEF Entries, Lists
  <2>2. todo' \in [Clients -> Seq(Entry)] /\ due' \in [Clients -> SUBSET Entry]
    BY <1>6, <2>1 DEF PushLocks, Lists
  <2> QED
    BY <1>6, <2>2 DEF PushLocks, Lists
<1>7. ASSUME NEW t \in Clients, NEW u \in Uris, DeleteCalls(t, u) PROVE Lists'
  BY <1>7 DEF DeleteCalls, listVars, Lists
<1>8. ASSUME NEW t \in Clients, NEW k \in Tasks, NEW u \in Uris, AsyncDelete(t, k, u)
      PROVE  Lists'
  <2>1. <<[task |-> k, entry |-> Null]>> \in Seq([task : Tasks, entry : Entry \cup {Null}])
    OBVIOUS
  <2> QED
    BY <1>8, <2>1 DEF AsyncDelete, listVars, Lists
<1>9. ASSUME NEW t \in Clients, PushSkips(t) PROVE Lists'
  <2>1. todo[t] \in Seq(Entry) /\ todo[t] # <<>>
    BY <1>9 DEF PushSkips, Lists
  <2>2. Tail(todo[t]) \in Seq(Entry)
    BY <2>1, HeadTailProperties
  <2> QED
    BY <1>9, <2>2 DEF PushSkips, listVars, Lists
<1>10. ASSUME NEW t \in Clients, PushCollects(t) PROVE Lists'
  BY <1>10 DEF PushCollects, callVars, Lists
<1>11. ASSUME NEW t \in Clients, PushGoesOn(t) PROVE Lists'
  <2>1. todo[t] \in Seq(Entry) /\ todo[t] # <<>>
    BY <1>11 DEF PushGoesOn, Lists, Promised, Holds, Pushing
  <2>2. Tail(todo[t]) \in Seq(Entry) /\ Head(todo[t]) \in Entry
    BY <2>1, HeadTailProperties
  <2>3. <<Head(todo[t]), status[t]>> \in Entry \X Int
    BY <2>2 DEF Lists, Processes
  <2>4. Append(sent[t], <<Head(todo[t]), status[t]>>) \in Seq(Entry \X Int)
    BY <2>3, AppendProperties DEF Lists
  <2>5. status' \in [Processes -> Int]
    BY <1>11, ForgetsStatus DEF PushGoesOn
  <2> QED
    BY <1>11, <2>2, <2>4, <2>5 DEF PushGoesOn, listVars, Lists
<1>12. ASSUME NEW t \in Clients, PushStops(t) PROVE Lists'
  <2>1. status' \in [Processes -> Int]
    BY <1>12, ForgetsStatus DEF PushStops
  <2>2. PICK s, made : Returns(t, s, made)
    BY <1>12 DEF PushStops
  <2>3. /\ todo' \in [Clients -> Seq(Entry)] /\ sent' \in [Clients -> Seq(Entry \X Int)]
        /\ due' \in [Clients -> SUBSET Entry] /\ DOMAIN answer' = Clients
    BY <2>2, ReturnsLists
  <2> QED
    BY <1>12, <2>1, <2>3 DEF PushStops, Lists
<1>13. ASSUME NEW t \in Clients, PushReturns(t) PROVE Lists'
  <2>1. PICK s, made : Returns(t, s, made)
    BY <1>13 DEF PushReturns
  <2>2. /\ todo' \in [Clients -> Seq(Entry)] /\ sent' \in [Clients -> Seq(Entry \X Int)]
        /\ due' \in [Clients -> SUBSET Entry] /\ DOMAIN answer' = Clients
    BY <2>1, ReturnsLists
  <2> QED
    BY <1>13, <2>2 DEF PushReturns, Lists
<1>14. ASSUME NEW t \in Clients, NEW k \in Tasks, Spawns(t, k) PROVE Lists'
  <2>1. todo[t] \in Seq(Entry) /\ todo[t] # <<>>
    BY <1>14 DEF Spawns, Lists
  <2>2. Tail(todo[t]) \in Seq(Entry) /\ Head(todo[t]) \in Entry
    BY <2>1, HeadTailProperties
  <2>3. PICK F, e : /\ F = [task : Tasks, entry : Entry \cup {Null}]
                    /\ e = [task |-> k, entry |-> Head(todo[t])]
    OBVIOUS
  <2>4. e \in F /\ futures \in [Clients -> Seq(F)]
    BY <2>2, <2>3 DEF Lists
  <2>5. Append(futures[t], e) \in Seq(F)
    BY <2>4, AppendProperties
  <2>6. futures' = [futures EXCEPT ![t] = Append(futures[t], e)]
    BY <1>14, <2>3 DEF Spawns
  <2>7. futures' \in [Clients -> Seq(F)]
    BY <2>4, <2>5, <2>6
  <2> QED
    BY <1>14, <2>2, <2>3, <2>7 DEF Spawns, listVars, Lists
<1>15. ASSUME NEW t \in Clients, SpawnEnds(t) PROVE Lists'
  BY <1>15 DEF SpawnEnds, callVars, Lists
<1>16. ASSUME NEW t \in Clients, FutureReady(t) PROVE Lists'
  <2>1. PICK s, made, done : Returns(t, s, made) /\ Forgets(done)
    BY <1>16 DEF FutureReady
  <2>2. /\ todo' \in [Clients -> Seq(Entry)] /\ sent' \in [Clients -> Seq(Entry \X Int)]
        /\ due' \in [Clients -> SUBSET Entry] /\ DOMAIN answer' = Clients
    BY <2>1, ReturnsLists
  <2>3. status' \in [Processes -> Int]
    BY <2>1, ForgetsStatus
  <2>4. futures' = [futures EXCEPT ![t] = <<>>] /\ collectables' = collectables
    BY <1>16 DEF FutureReady, listVars
  <2>5. PICK F : F = [task : Tasks, entry : Entry \cup {Null}]
    OBVIOUS
  <2>6. futures \in [Clients -> Seq(F)] /\ <<>> \in Seq(F)
    BY <2>5, EmptySeq DEF Lists
  <2>7. futures' \in [Clients -> Seq(F)]
    BY <2>4, <2>6
  <2> QED
    BY <2>2, <2>3, <2>4, <2>5, <2>7 DEF Lists
<1>17. ASSUME NEW t \in Clients, DeleteReturns(t) PROVE Lists'
  <2>1. status' \in [Processes -> Int]
    BY <1>17, ForgetsStatus DEF DeleteReturns
  <2>2. PICK s, made : Returns(t, s, made)
    BY <1>17 DEF DeleteReturns
  <2>3. /\ todo' \in [Clients -> Seq(Entry)] /\ sent' \in [Clients -> Seq(Entry \X Int)]
        /\ due' \in [Clients -> SUBSET Entry] /\ DOMAIN answer' = Clients
    BY <2>2, ReturnsLists
  <2> QED
    BY <1>17, <2>1, <2>3 DEF DeleteReturns, listVars, Lists
<1>18. ASSUME NEW t \in Clients, TakesAnswer(t) PROVE Lists'
  BY <1>18 DEF TakesAnswer, listVars, Lists
<1>19. ASSUME NEW p \in Processes, RequestBegins(p) PROVE Lists'
  BY <1>19 DEF RequestBegins, listVars, callVars, Lists
<1>20. ASSUME NEW p \in Processes, NEW x \in Statuses, RequestPerforms(p, x)
       PROVE  Lists'
  BY <1>20, StatusesAssumption DEF RequestPerforms, listVars, callVars, Lists
<1>21. ASSUME UNCHANGED vars PROVE Lists'
  BY <1>21 DEF vars, Lists
<1> QED
  BY StepCases, <1>1, <1>2, <1>3, <1>4, <1>5, <1>6, <1>7, <1>8, <1>9, <1>10, <1>11,
    <1>12, <1>13, <1>14, <1>15, <1>16, <1>17, <1>18, <1>19, <1>20, <1>21

\* What is said of a call does not change where nothing of it does.
CallUntouched(s) ==
  /\ pc'[s] = pc[s] /\ op'[s] = op[s] /\ held'[s] = held[s]
  /\ todo'[s] = todo[s] /\ sent'[s] = sent[s] /\ due'[s] = due[s]
  /\ futures'[s] = futures[s]

\* The call of a client that has no part in a step keeps its promise.
LEMMA UntouchedKept ==
  ASSUME Promised, owned' = owned, NEW s \in Clients, CallUntouched(s)
  PROVE  Holds(s)' /\ Promise(s)'
<1>1. Holds(s) /\ Promise(s)
  BY DEF Promised
<1>2. Holds(s)'
  BY <1>1 DEF Holds, CallUntouched
<1>3. \A e : Covered(s, e)' <=> Covered(s, e)
  BY DEF CallUntouched, Covered
<1>4. Promise(s)'
  BY <1>1, <1>3 DEF Promise, CallUntouched
<1> QED
  BY <1>2, <1>4

\* A step of one client leaves the calls of the others as they were.
LEMMA OthersUntouched ==
  ASSUME Promised, owned' = owned, NEW t \in Clients,
         \A s \in Clients \ {t} : CallUntouched(s),
         Holds(t)', Promise(t)'
  PROVE  Promised'
<1>1. ASSUME NEW s \in Clients PROVE Holds(s)' /\ Promise(s)'
  <2>1. CASE s = t
    BY <2>1
  <2>2. CASE s # t
    BY <2>2, UntouchedKept
  <2> QED
    BY <2>1, <2>2
<1> QED
  BY <1>1 DEF Promised

\* The same where no client has a part in it.
LEMMA AllUntouched ==
  ASSUME Promised, owned' = owned, \A s \in Clients : CallUntouched(s)
  PROVE  Promised'
<1>1. ASSUME NEW s \in Clients PROVE Holds(s)' /\ Promise(s)'
  BY UntouchedKept
<1> QED
  BY <1>1 DEF Promised

\* Returns: a call that has returned promises nothing.
LEMMA ReturnsPromise ==
  ASSUME Types, Lists, NEW t \in Clients, NEW s, NEW made, Returns(t, s, made),
         pc'[t] = "idle", futures'[t] = <<>>, held'[t] = Null
  PROVE  Holds(t)' /\ Promise(t)'
<1>1. op'[t] = Null /\ todo'[t] = <<>> /\ sent'[t] = <<>> /\ due'[t] = {}
  BY DEF Returns, Types, Lists
<1>2. \A i : i \notin DOMAIN sent'[t]
  BY <1>1
<1>3. Null \notin Pushing /\ Null # "DELETE"
  BY NullIsNothing DEF Pushing
<1>4. Holds(t)'
  BY <1>1, <1>3 DEF Holds
<1>5. Promise(t)'
  BY <1>1, <1>2, <1>3 DEF Promise
<1> QED
  BY <1>4, <1>5

\* Each step keeps what the calls have promised.
LEMMA PromisedKept ==
  ASSUME Types, Places, Lists, Promised, [Next]_vars
  PROVE  Promised'
<1>a. Null \notin Pushing /\ Null # "DELETE" /\ "DELETE" \notin Pushing
  BY NullIsNothing DEF Pushing
<1>b. \A s : (s \in Clients => s \in Processes) /\ (s \in Tasks => s \notin Clients)
  BY GatewayThreads DEF Processes
<1>1. ASSUME NEW c \in Collectables, MetricsChange(c) PROVE Promised'
  <2>1. owned' = owned /\ \A s \in Clients : CallUntouched(s)
    BY <1>1 DEF MetricsChange, callVars, CallUntouched
  <2> QED
    BY <2>1, AllUntouched
<1>2. ASSUME NEW c \in Collectables, OwnerDrops(c) PROVE Promised'
  <2> SUFFICES ASSUME NEW s \in Clients PROVE Holds(s)' /\ Promise(s)'
    BY DEF Promised
  <2>1. Holds(s) /\ Promise(s)
    BY DEF Promised
  <2>2. /\ pc' = pc /\ op' = op /\ held' = held /\ todo' = todo /\ sent' = sent
        /\ futures' = futures /\ owned' = owned \ {c}
        /\ due'[s] = {e \in due[s] : e.ptr # c}
    BY <1>2 DEF OwnerDrops
  <2>3. Holds(s)'
    BY <2>1, <2>2 DEF Holds
  <2>4. \A e : Covered(s, e)' <=> Covered(s, e)
    BY <2>2 DEF Covered
  <2>5. \A e \in due'[s] : e.ptr \in owned' /\ Covered(s, e)'
    <3> HIDE DEF Covered
    <3> QED
      BY <2>1, <2>2, <2>4 DEF Promise
  <2>6. due[s] = {} => due'[s] = {}
    BY <2>2
  <2>7. Promise(s)'
    BY <2>1, <2>2, <2>5, <2>6 DEF Promise
  <2> QED
    BY <2>3, <2>7
<1>3. ASSUME ServerCatchesUp PROVE Promised'
  <2>1. owned' = owned /\ \A s \in Clients : CallUntouched(s)
    BY <1>3 DEF ServerCatchesUp, heapVars, callVars, CallUntouched
  <2> QED
    BY <2>1, AllUntouched
<1>4. ASSUME NEW t \in Clients, NEW c \in owned, NEW u \in EntryUris,
             RegisterCollectable(t, c, u)
      PROVE  Promised'
  <2>1. owned' = owned /\ \A s \in Clients : CallUntouched(s)
    BY <1>4 DEF RegisterCollectable, heapVars, callVars, CallUntouched
  <2> QED
    BY <2>1, AllUntouched
<1>5. ASSUME NEW t \in Clients, NEW h \in ExtraHeaders, AddHttpHeader(t, h)
      PROVE  Promised'
  <2>1. owned' = owned /\ \A s \in Clients : CallUntouched(s)
    BY <1>5 DEF AddHttpHeader, heapVars, callVars, CallUntouched
  <2> QED
    BY <2>1, AllUntouched
<1>6. ASSUME NEW t \in Clients, NEW m \in Pushing, NEW l \in {"push", "spawn"},
             PushLocks(t, m, l)
      PROVE  Promised'
  <2>1. Holds(t) /\ Promise(t) /\ pc[t] = "idle" /\ op[t] = Null
    BY <1>6 DEF Promised, PushLocks, Begins, Free
  <2>2. \A s \in Clients : held[s] = Null
    <3>1. ASSUME NEW s \in Clients, held[s] # Null PROVE mutex = s
      BY <3>1 DEF Promised, Holds, Places
    <3>2. mutex = NoThread
      BY <1>6 DEF PushLocks
    <3> QED
      BY <1>b, <3>1, <3>2, GatewayThreads
  <2>3. /\ pc'[t] = l /\ op'[t] = m /\ todo'[t] = collectables
        /\ due'[t] = {e \in Entries : Alive(e.ptr)} /\ held'[t] = Null
        /\ sent'[t] = <<>> /\ futures'[t] = <<>> /\ owned' = owned
    BY <1>6, <1>b, <2>1, <2>2 DEF PushLocks, Begins, Goto, heapVars, Types, Lists, Promise
  <2>4. \A s \in Clients \ {t} : CallUntouched(s)
    BY <1>6 DEF PushLocks, Begins, Goto, heapVars, CallUntouched
  <2>5. \A c : Alive(c) => c \in owned
    BY <2>2 DEF Alive
  <2>6. \A e \in due'[t] : e.ptr \in owned' /\ Covered(t, e)'
    BY <2>3, <2>5 DEF Covered, Entries, Elements
  <2>7. \A i : i \notin DOMAIN sent'[t]
    BY <2>3
  <2>8. m # "DELETE" /\ m # Null /\ l \notin {"idle", "request", "perform", "done"}
    BY <1>a
  <2>9. Holds(t)'
    BY <2>3, <2>8 DEF Holds
  <2>10. Promise(t)'
    BY <2>3, <2>6, <2>7, <2>8 DEF Promise
  <2> QED
    BY <2>3, <2>4, <2>9, <2>10, OthersUntouched
<1>7. ASSUME NEW t \in Clients, NEW u \in Uris, DeleteCalls(t, u) PROVE Promised'
  <2>1. Holds(t) /\ Promise(t) /\ pc[t] = "idle" /\ op[t] = Null
    BY <1>7 DEF Promised, DeleteCalls, Begins, Free
  <2>2. /\ pc'[t] = "request" /\ op'[t] = "DELETE" /\ todo'[t] = <<>> /\ due'[t] = {}
        /\ held'[t] = Null /\ sent'[t] = <<>> /\ futures'[t] = <<>> /\ owned' = owned
    BY <1>7, <1>a, <1>b, <2>1 DEF DeleteCalls, Begins, Goto, heapVars, Types, Holds, Promise
  <2>3. \A s \in Clients \ {t} : CallUntouched(s)
    BY <1>7 DEF DeleteCalls, Begins, Goto, heapVars, CallUntouched
  <2>4. \A i : i \notin DOMAIN sent'[t]
    BY <2>2
  <2>5. Holds(t)' /\ Promise(t)'
    BY <1>a, <2>2, <2>4 DEF Holds, Promise
  <2> QED
    BY <2>2, <2>3, <2>5, OthersUntouched
<1>8. ASSUME NEW t \in Clients, NEW k \in Tasks, NEW u \in Uris, AsyncDelete(t, k, u)
      PROVE  Promised'
  <2>1. Holds(t) /\ Promise(t) /\ pc[t] = "idle" /\ op[t] = Null
    BY <1>8 DEF Promised, AsyncDelete, Free
  <2>2. /\ op'[t] = "DELETE" /\ todo'[t] = <<>> /\ due'[t] = {} /\ held'[t] = Null
        /\ sent'[t] = <<>> /\ futures'[t] = <<[task |-> k, entry |-> Null]>>
        /\ owned' = owned
    BY <1>8, <1>a, <2>1 DEF AsyncDelete, heapVars, Types, Lists, Holds, Promise
  <2>3. \A s \in Clients : pc'[s] = pc[s]
    BY <1>8, <1>b DEF AsyncDelete, Goto
  <2>4. \A s \in Clients \ {t} : CallUntouched(s)
    BY <1>8, <2>3 DEF AsyncDelete, heapVars, CallUntouched
  <2>5. Len(futures'[t]) = 1 /\ \A i : i \notin DOMAIN sent'[t]
    BY <2>2
  <2>6. Holds(t)' /\ Promise(t)'
    BY <1>a, <2>1, <2>2, <2>3, <2>5 DEF Holds, Promise
  <2> QED
    BY <2>2, <2>4, <2>6, OthersUntouched
<1>9. ASSUME NEW t \in Clients, PushSkips(t) PROVE Promised'
  <2>1. /\ Holds(t) /\ Promise(t) /\ pc[t] \in {"push", "spawn"}
        /\ todo[t] \in Seq(Entry) /\ todo[t] # <<>>
    BY <1>9 DEF Promised, PushSkips, Lists
  <2>2. /\ pc' = pc /\ op' = op /\ held' = held /\ sent' = sent /\ due' = due
        /\ futures' = futures /\ owned' = owned /\ todo'[t] = Tail(todo[t])
    BY <1>9 DEF PushSkips, heapVars, Lists
  <2>3. \A s \in Clients \ {t} : CallUntouched(s)
    BY <1>9, <2>2 DEF PushSkips, CallUntouched
  <2>4. Elements(todo[t]) = {Head(todo[t])} \cup Elements(todo'[t])
    BY <2>1, <2>2, CoveredOn
  <2>5. \A e \in due[t] : e # Head(todo[t])
    BY <1>9, <2>1 DEF PushSkips, Promise, Alive
  <2>6. \A e \in due[t] : Covered(t, e)'
    BY <2>1, <2>2, <2>4, <2>5 DEF Promise, Covered
  <2>7. Holds(t)'
    BY <2>1, <2>2 DEF Holds
  <2>8. Promise(t)'
    BY <2>1, <2>2, <2>6 DEF Promise
  <2> QED
    BY <2>2, <2>3, <2>7, <2>8, OthersUntouched
<1>10. ASSUME NEW t \in Clients, PushCollects(t) PROVE Promised'
  <2>1. Holds(t) /\ Promise(t) /\ pc[t] = "push" /\ todo[t] # <<>> /\ op[t] \in Pushing
    BY <1>10, <1>b DEF Promised, PushCollects, Places
  <2>2. /\ pc'[t] = "request" /\ op' = op /\ todo' = todo /\ sent' = sent /\ due' = due
        /\ futures' = futures /\ owned' = owned
    BY <1>10, <1>b DEF PushCollects, Goto, callVars, Types
  <2>3. \A s \in Clients \ {t} : CallUntouched(s)
    BY <1>10 DEF PushCollects, Goto, callVars, CallUntouched
  <2>4. \A e : Covered(t, e)' <=> Covered(t, e)
    BY <2>2 DEF Covered
  <2>5. Holds(t)'
    BY <2>1, <2>2 DEF Holds
  <2>6. Promise(t)'
    BY <1>a, <2>1, <2>2, <2>4 DEF Promise
  <2> QED
    BY <2>2, <2>3, <2>5, <2>6, OthersUntouched
<1>11. ASSUME NEW t \in Clients, PushGoesOn(t) PROVE Promised'
  <2>1. /\ Holds(t) /\ Promise(t) /\ pc[t] = "done" /\ op[t] \in Pushing
        /\ todo[t] \in Seq(Entry) /\ todo[t] # <<>>
    BY <1>11 DEF Promised, PushGoesOn, Lists, Holds, Pushing
  <2>2. PICK x : x = <<Head(todo[t]), status[t]>>
    OBVIOUS
  <2>3. /\ pc'[t] = "push" /\ op' = op /\ held'[t] = Null /\ due' = due
        /\ futures' = futures /\ owned' = owned
        /\ todo'[t] = Tail(todo[t]) /\ sent'[t] = Append(sent[t], x)
    BY <1>11, <1>b, <2>2 DEF PushGoesOn, Goto, Types, Lists
  <2>4. \A s \in Clients \ {t} : CallUntouched(s)
    BY <1>11 DEF PushGoesOn, Goto, CallUntouched
  <2>5. /\ Elements(todo[t]) = {Head(todo[t])} \cup Elements(todo'[t])
        /\ Head(todo[t]) \in Entry
    BY <2>1, <2>3, CoveredOn
  <2>6. status[t] \in Int /\ Good(status[t])
    BY <1>11, <1>b, GoodOrBad DEF PushGoesOn, Lists
  <2>7. x \in Entry \X Int /\ x[1] = Head(todo[t]) /\ x[2] = status[t]
    BY <2>2, <2>5, <2>6
  <2>8. PICK n, q : n = Len(sent[t]) + 1 /\ q = sent[t]
    OBVIOUS
  <2>9. /\ DOMAIN sent'[t] = DOMAIN q \cup {n}
        /\ \A i \in DOMAIN q : sent'[t][i] = q[i]
        /\ sent'[t][n] = x
    BY <2>3, <2>7, <2>8, AppendHas DEF Lists
  <2>10. \A i \in DOMAIN sent'[t] : Good(sent'[t][i][2])
    BY <2>1, <2>6, <2>7, <2>8, <2>9 DEF Promise
  <2>11. \A e \in due[t] : Covered(t, e)'
    <3>1. ASSUME NEW e \in due[t] PROVE Covered(t, e)'
      <4>1. CASE e = Head(todo[t])
        BY <2>7, <2>9, <4>1 DEF Covered
      <4>2. CASE e \in Elements(todo'[t])
        BY <4>2 DEF Covered
      <4>3. CASE \E i \in DOMAIN q : q[i][1] = e
        BY <2>9, <4>3 DEF Covered
      <4>4. CASE \E i \in DOMAIN futures[t] : futures[t][i].entry = e
        BY <2>3, <4>4 DEF Covered
      <4> QED
        BY <2>1, <2>5, <2>8, <4>1, <4>2, <4>3, <4>4 DEF Promise, Covered
    <3> QED
      BY <3>1
  <2>12. Holds(t)'
    BY <2>3 DEF Holds
  <2>13. Promise(t)'
    BY <1>a, <2>1, <2>3, <2>10, <2>11 DEF Promise
  <2> QED
    BY <2>3, <2>4, <2>12, <2>13, OthersUntouched
<1>12. ASSUME NEW t \in Clients, PushStops(t) PROVE Promised'
  <2>1. PICK s, made : Returns(t, s, made)
    BY <1>12 DEF PushStops
  <2>2. pc'[t] = "idle" /\ held'[t] = Null /\ futures'[t] = <<>> /\ owned' = owned
    BY <1>12, <1>b DEF PushStops, Goto, Types, Promised, Promise
  <2>3. \A z \in Clients \ {t} : CallUntouched(z)
    BY <1>12, <2>1 DEF PushStops, Returns, Goto, CallUntouched
  <2> QED
    BY <2>1, <2>2, <2>3, ReturnsPromise, OthersUntouched
<1>13. ASSUME NEW t \in Clients, PushReturns(t) PROVE Promised'
  <2>1. PICK s, made : Returns(t, s, made)
    BY <1>13 DEF PushReturns
  <2>2. pc'[t] = "idle" /\ held'[t] = Null /\ futures'[t] = <<>> /\ owned' = owned
    BY <1>13, <1>b DEF PushReturns, Goto, heapVars, Types, Promised, Holds, Promise
  <2>3. \A z \in Clients \ {t} : CallUntouched(z)
    BY <1>13, <2>1 DEF PushReturns, Returns, Goto, heapVars, CallUntouched
  <2> QED
    BY <2>1, <2>2, <2>3, ReturnsPromise, OthersUntouched
<1>14. ASSUME NEW t \in Clients, NEW k \in Tasks, Spawns(t, k) PROVE Promised'
  <2>1. /\ Holds(t) /\ Promise(t) /\ pc[t] = "spawn" /\ op[t] \in Pushing
        /\ todo[t] \in Seq(Entry) /\ todo[t] # <<>>
    BY <1>14, <1>b DEF Promised, Spawns, Lists, Places
  <2>2. PICK x : x = [task |-> k, entry |-> Head(todo[t])]
    OBVIOUS
  <2>3. \A z \in Clients : pc'[z] = pc[z]
    BY <1>14, <1>b DEF Spawns, Goto
  <2>4. /\ op' = op /\ held' = held /\ due' = due /\ sent' = sent /\ owned' = owned
        /\ todo'[t] = Tail(todo[t]) /\ futures'[t] = Append(futures[t], x)
    BY <1>14, <2>2 DEF Spawns, heapVars, Lists
  <2>5. \A s \in Clients \ {t} : CallUntouched(s)
    BY <1>14, <2>3, <2>4 DEF Spawns, CallUntouched
  <2>6. /\ Elements(todo[t]) = {Head(todo[t])} \cup Elements(todo'[t])
        /\ Head(todo[t]) \in Entry
    BY <2>1, <2>4, CoveredOn
  <2>7. PICK F : F = [task : Tasks, entry : Entry \cup {Null}]
    OBVIOUS
  <2>8. x \in F /\ x.entry = Head(todo[t]) /\ futures[t] \in Seq(F)
    BY <2>2, <2>6, <2>7 DEF Lists
  <2>9. PICK n, q : n = Len(futures[t]) + 1 /\ q = futures[t]
    OBVIOUS
  <2>10. /\ DOMAIN futures'[t] = DOMAIN q \cup {n}
         /\ \A i \in DOMAIN q : futures'[t][i] = q[i]
         /\ futures'[t][n] = x
    BY <2>4, <2>8, <2>9, AppendHas
  <2>11. \A e \in due[t] : Covered(t, e)'
    <3>1. ASSUME NEW e \in due[t] PROVE Covered(t, e)'
      <4>1. CASE e = Head(todo[t])
        BY <2>8, <2>10, <4>1 DEF Covered
      <4>2. CASE e \in Elements(todo'[t])
        BY <4>2 DEF Covered
      <4>3. CASE \E i \in DOMAIN sent[t] : sent[t][i][1] = e
        BY <2>4, <4>3 DEF Covered
      <4>4. CASE \E i \in DOMAIN q : q[i].entry = e
        BY <2>10, <4>4 DEF Covered
      <4> QED
        BY <2>1, <2>6, <2>9, <4>1, <4>2, <4>3, <4>4 DEF Promise, Covered
    <3> QED
      BY <3>1
  <2>12. Holds(t)'
    BY <2>1, <2>3, <2>4 DEF Holds
  <2>13. Promise(t)'
    BY <1>a, <2>1, <2>3, <2>4, <2>11 DEF Promise
  <2> QED
    BY <2>4, <2>5, <2>12, <2>13, OthersUntouched
<1>15. ASSUME NEW t \in Clients, SpawnEnds(t) PROVE Promised'
  <2>1. Holds(t) /\ Promise(t) /\ pc[t] = "spawn" /\ todo[t] = <<>> /\ op[t] \in Pushing
    BY <1>15, <1>b DEF Promised, SpawnEnds, Places
  <2>2. /\ pc'[t] = "idle" /\ op' = op /\ held' = held /\ todo' = todo /\ sent' = sent
        /\ due' = due /\ futures' = futures /\ owned' = owned
    BY <1>15, <1>b DEF SpawnEnds, Goto, heapVars, callVars, Types
  <2>3. \A s \in Clients \ {t} : CallUntouched(s)
    BY <1>15 DEF SpawnEnds, Goto, heapVars, callVars, CallUntouched
  <2>4. \A e : Covered(t, e)' <=> Covered(t, e)
    BY <2>2 DEF Covered
  <2>5. Holds(t)'
    BY <2>1, <2>2 DEF Holds
  <2>6. Promise(t)'
    BY <1>a, <2>1, <2>2, <2>4 DEF Promise
  <2> QED
    BY <2>2, <2>3, <2>5, <2>6, OthersUntouched
<1>16. ASSUME NEW t \in Clients, FutureReady(t) PROVE Promised'
  <2>1. PICK s, made : Returns(t, s, made)
    BY <1>16 DEF FutureReady
  <2>2. PICK done : /\ done = {futures[t][i].task : i \in DOMAIN futures[t]}
                    /\ pc' = [p \in Processes |-> IF p \in done THEN "idle" ELSE pc[p]]
    BY <1>16 DEF FutureReady
  <2>3. done \subseteq Tasks
    <3>1. PICK F : F = [task : Tasks, entry : Entry \cup {Null}]
      OBVIOUS
    <3>2. futures[t] \in Seq(F)
      BY <3>1 DEF Lists
    <3>3. \A i \in DOMAIN futures[t] : futures[t][i] \in F
      BY <3>2, LenProperties
    <3> QED
      BY <2>2, <3>1, <3>3
  <2>4. \A z \in Clients : pc'[z] = pc[z]
    BY <1>b, <2>2, <2>3
  <2>5. pc[t] = "idle" /\ held' = held /\ owned' = owned
        /\ futures' = [futures EXCEPT ![t] = <<>>] /\ futures'[t] = <<>>
    BY <1>16 DEF FutureReady, heapVars, Lists
  <2>6. pc'[t] = "idle" /\ held'[t] = Null
    BY <2>4, <2>5 DEF Promised, Holds
  <2>7. \A z \in Clients \ {t} : CallUntouched(z)
    BY <2>1, <2>4, <2>5 DEF Returns, CallUntouched
  <2> QED
    BY <2>1, <2>5, <2>6, <2>7, ReturnsPromise, OthersUntouched
<1>17. ASSUME NEW t \in Clients, DeleteReturns(t) PROVE Promised'
  <2>1. PICK s, made : Returns(t, s, made)
    BY <1>17 DEF DeleteReturns
  <2>2. pc'[t] = "idle" /\ held'[t] = Null /\ futures'[t] = <<>> /\ owned' = owned
    BY <1>17, <1>a, <1>b DEF DeleteReturns, Goto, heapVars, Types, Promised, Holds, Promise
  <2>3. \A z \in Clients \ {t} : CallUntouched(z)
    BY <1>17, <2>1 DEF DeleteReturns, Returns, Goto, heapVars, CallUntouched
  <2> QED
    BY <2>1, <2>2, <2>3, ReturnsPromise, OthersUntouched
<1>18. ASSUME NEW t \in Clients, TakesAnswer(t) PROVE Promised'
  <2>1. owned' = owned /\ \A s \in Clients : CallUntouched(s)
    BY <1>18 DEF TakesAnswer, heapVars, CallUntouched
  <2> QED
    BY <2>1, AllUntouched
<1>19. ASSUME NEW p \in Processes, NEW loc \in {"perform", "done"},
              pc[p] \in {"request", "perform"}, pc' = [pc EXCEPT ![p] = loc],
              UNCHANGED <<heapVars, callVars>>
       PROVE  Promised'
  <2>1. owned' = owned /\ \A s \in Clients \ {p} : CallUntouched(s)
    BY <1>19 DEF heapVars, callVars, CallUntouched
  <2>2. CASE p \in Clients
    <3>1. Holds(p) /\ Promise(p) /\ pc'[p] = loc
      BY <1>19, <2>2 DEF Promised, Types
    <3>2. \A e : Covered(p, e)' <=> Covered(p, e)
      BY <1>19 DEF callVars, Covered
    <3>3. Holds(p)'
      BY <1>19, <3>1 DEF Holds, heapVars, callVars
    <3>4. Promise(p)'
      BY <1>19, <3>1, <3>2 DEF Promise, heapVars, callVars
    <3> QED
      BY <2>1, <2>2, <3>3, <3>4, OthersUntouched
  <2>3. CASE p \notin Clients
    BY <2>1, <2>3, AllUntouched
  <2> QED
    BY <2>2, <2>3
<1>20. ASSUME NEW p \in Processes, RequestBegins(p) PROVE Promised'
  BY <1>19, <1>20 DEF RequestBegins, Goto
<1>21. ASSUME NEW p \in Processes, NEW x \in Statuses, RequestPerforms(p, x)
       PROVE  Promised'
  BY <1>19, <1>21 DEF RequestPerforms, Goto
<1>22. ASSUME UNCHANGED vars PROVE Promised'
  <2>1. owned' = owned /\ \A s \in Clients : CallUntouched(s)
    BY <1>22 DEF vars, CallUntouched
  <2> QED
    BY <2>1, AllUntouched
<1> QED
  BY StepCases, <1>1, <1>2, <1>3, <1>4, <1>5, <1>6, <1>7, <1>8, <1>9, <1>10, <1>11,
    <1>12, <1>13, <1>14, <1>15, <1>16, <1>17, <1>18, <1>20, <1>21, <1>22

\* Returns: the answers stay honest where the new one is.
LEMMA Answered ==
  ASSUME Lists, AnswersHonest, NEW t \in Clients, NEW s, NEW made, Returns(t, s, made),
         \A a : a = [op |-> op[t], status |-> s, sent |-> made,
                     missed |-> due[t] \ {made[i][1] : i \in DOMAIN made},
                     async |-> futures[t] # <<>>]
                => Honest(a)
  PROVE  AnswersHonest'
<1>1. PICK a : /\ a = [op |-> op[t], status |-> s, sent |-> made,
                       missed |-> due[t] \ {made[i][1] : i \in DOMAIN made},
                       async |-> futures[t] # <<>>]
               /\ answer' = [answer EXCEPT ![t] = a]
  BY DEF Returns
<1>2. Honest(a)
  BY <1>1
<1> HIDE DEF Honest
<1>3. ASSUME NEW z \in Clients, answer'[z] # Null PROVE Honest(answer'[z])
  <2>1. CASE z = t
    BY <1>1, <1>2, <2>1 DEF Lists
  <2>2. CASE z # t
    BY <1>1, <1>3, <2>2 DEF Lists, AnswersHonest
  <2> QED
    BY <2>1, <2>2
<1> QED
  BY <1>3 DEF AnswersHonest

\* The answer of a Delete has the status of its one request.
LEMMA HonestDelete ==
  ASSUME NEW a, a.op = "DELETE", DOMAIN a.sent # {},
         \A i \in DOMAIN a.sent : a.sent[i][2] = a.status
  PROVE  Honest(a)
BY DEF Honest

\* The answer of a push that sent all it had to.
LEMMA HonestDone ==
  ASSUME NEW a, a.op # "DELETE", \A i \in DOMAIN a.sent : Good(a.sent[i][2]),
         a.status = 200, a.missed = {}
  PROVE  Honest(a)
<1> HIDE DEF Good
<1> QED
  BY DEF Honest

\* The answer of a push that met a bad status.
LEMMA HonestBad ==
  ASSUME NEW a, a.op # "DELETE", NEW j \in DOMAIN a.sent,
         a.status = a.sent[j][2], ~ Good(a.status),
         IF a.async THEN a.missed = {}
         ELSE \A i \in DOMAIN a.sent : ~ Good(a.sent[i][2]) <=> i = Len(a.sent)
  PROVE  Honest(a)
<1> HIDE DEF Good
<1> QED
  BY DEF Honest

\* push: the first bad status is the answer, and nothing is sent after it.
LEMMA StopsHonest ==
  ASSUME Types, Lists, Promised, AnswersHonest, NEW t \in Clients, PushStops(t)
  PROVE  AnswersHonest'
<1>1. /\ Promise(t) /\ pc[t] = "done" /\ op[t] \in Pushing
      /\ todo[t] \in Seq(Entry) /\ todo[t] # <<>>
  BY DEF Promised, PushStops, Lists, Holds, Pushing
<1>2. Head(todo[t]) \in Entry
  BY <1>1, HeadTailProperties
<1>3. status[t] \in Int /\ ~ Good(status[t])
  BY GoodOrBad DEF PushStops, Lists, Processes
<1>4. PICK x : x = <<Head(todo[t]), status[t]>>
  OBVIOUS
<1>5. x \in Entry \X Int /\ x[2] = status[t]
  BY <1>2, <1>3, <1>4
<1>6. PICK q, n, made : q = sent[t] /\ n = Len(q) + 1 /\ made = Append(q, x)
  OBVIOUS
<1>7. /\ DOMAIN made = DOMAIN q \cup {n} /\ n \notin DOMAIN q /\ Len(made) = n
      /\ \A i \in DOMAIN q : made[i] = q[i]
      /\ made[n] = x
  <2>1. q \in Seq(Entry \X Int)
    BY <1>6 DEF Lists
  <2>2. /\ DOMAIN made = DOMAIN q \cup {n} /\ Len(made) = n
        /\ \A i \in DOMAIN q : made[i] = q[i]
        /\ made[n] = x /\ Len(q) \in Nat /\ DOMAIN q = 1 .. Len(q)
    BY <1>5, <1>6, <2>1, AppendHas
  <2> QED
    BY <1>6, <2>2
<1>8. \A i \in DOMAIN q : Good(q[i][2])
  BY <1>1, <1>6 DEF Promise
<1>9. futures[t] = <<>>
  BY <1>1 DEF Promise
<1>10. Returns(t, status[t], made)
  BY <1>4, <1>6 DEF PushStops
<1> SUFFICES ASSUME NEW a, a = [op |-> op[t], status |-> status[t], sent |-> made,
                                missed |-> due[t] \ {made[i][1] : i \in DOMAIN made},
                                async |-> futures[t] # <<>>]
             PROVE  Honest(a)
  BY <1>10, Answered
<1>11. a.op = op[t] /\ a.status = status[t] /\ a.sent = made /\ a.async = (futures[t] # <<>>)
  OBVIOUS
<1>12. a.op # "DELETE" /\ ~ a.async
  BY <1>1, <1>9, <1>11 DEF Pushing
<1>13. n \in DOMAIN a.sent /\ a.status = a.sent[n][2] /\ ~ Good(a.status)
  BY <1>3, <1>5, <1>7, <1>11
<1>14. \A i \in DOMAIN a.sent : ~ Good(a.sent[i][2]) <=> i = Len(a.sent)
  <2> HIDE DEF Good
  <2> QED
    BY <1>3, <1>5, <1>7, <1>8, <1>11
<1> QED
  BY <1>12, <1>13, <1>14, HonestBad

\* push: 200 is the answer where every entry has been sent.
LEMMA PushReturnsHonest ==
  ASSUME Types, Places, Lists, Promised, AnswersHonest, NEW t \in Clients, PushReturns(t)
  PROVE  AnswersHonest'
<1>1. Promise(t) /\ pc[t] = "push" /\ op[t] \in Pushing /\ todo[t] = <<>> /\ futures[t] = <<>>
  BY DEF Promised, Promise, PushReturns, Places, Processes
<1>2. PICK made : made = sent[t]
  OBVIOUS
<1>3. Returns(t, 200, made)
  BY <1>2 DEF PushReturns
<1>4. \A e \in due[t] : \E i \in DOMAIN made : made[i][1] = e
  BY <1>1, <1>2 DEF Promise, Covered, Elements
<1>5. \A i \in DOMAIN made : Good(made[i][2])
  BY <1>1, <1>2 DEF Promise
<1> SUFFICES ASSUME NEW a, a = [op |-> op[t], status |-> 200, sent |-> made,
                                missed |-> due[t] \ {made[i][1] : i \in DOMAIN made},
                                async |-> futures[t] # <<>>]
             PROVE  Honest(a)
  BY <1>3, Answered
<1>6. /\ a.op = op[t] /\ a.status = 200 /\ a.sent = made
      /\ a.missed = due[t] \ {made[i][1] : i \in DOMAIN made}
  OBVIOUS
<1>7. a.missed = {}
  BY <1>4, <1>6
<1>8. a.op # "DELETE"
  BY <1>1, <1>6 DEF Pushing
<1> QED
  BY <1>5, <1>6, <1>7, <1>8, HonestDone

\* async_push, AsyncDelete: the answer of a future is honest about its tasks.
LEMMA FutureHonest ==
  ASSUME Types, Lists, Promised, AnswersHonest, NEW t \in Clients, FutureReady(t)
  PROVE  AnswersHonest'
<1>1. Promise(t) /\ pc[t] = "idle" /\ op[t] # Null /\ todo[t] = <<>> /\ sent[t] = <<>>
  BY DEF Promised, Promise, FutureReady
<1>2. PICK F, f : F = [task : Tasks, entry : Entry \cup {Null}] /\ f = futures[t]
  OBVIOUS
<1>3. /\ f \in Seq(F) /\ Len(f) \in Nat /\ DOMAIN f = 1 .. Len(f)
      /\ \A i \in DOMAIN f : f[i] \in F
  <2>1. f \in Seq(F)
    BY <1>2 DEF Lists
  <2>2. Len(f) \in Nat /\ DOMAIN f = 1 .. Len(f) /\ f \in [1 .. Len(f) -> F]
    BY <2>1, LenProperties
  <2> QED
    BY <2>1, <2>2
<1>4. PICK made : made = [i \in DOMAIN f |-> <<f[i].entry, status[f[i].task]>>]
  OBVIOUS
<1>5. PICK statuses : statuses = [i \in DOMAIN made |-> made[i][2]]
  OBVIOUS
<1>6. DOMAIN made = DOMAIN f /\ DOMAIN statuses = DOMAIN f
  BY <1>4, <1>5
<1>7. \A i \in DOMAIN f : /\ made[i][1] = f[i].entry /\ made[i][2] = statuses[i]
                          /\ statuses[i] \in Int
  <2>1. \A i \in DOMAIN f : status[f[i].task] \in Int
    BY <1>2, <1>3 DEF Lists, Processes
  <2> QED
    BY <1>4, <1>5, <1>6, <2>1
<1>8. statuses \in Seq(Int)
  BY <1>3, <1>6, <1>7, <1>5, SeqDef
<1>9. PICK s : /\ s = IF op[t] = "DELETE" THEN Head(statuses) ELSE Reduced(statuses)
               /\ Returns(t, s, made)
  BY <1>2, <1>4, <1>5 DEF FutureReady
<1>10. \A e \in due[t] : \E i \in DOMAIN made : made[i][1] = e
  <2>1. \A e \in due[t] : \E i \in DOMAIN f : f[i].entry = e
    BY <1>1, <1>2 DEF Promise, Covered, Elements
  <2> QED
    BY <1>6, <1>7, <2>1
<1> SUFFICES ASSUME NEW a, a = [op |-> op[t], status |-> s, sent |-> made,
                                missed |-> due[t] \ {made[i][1] : i \in DOMAIN made},
                                async |-> futures[t] # <<>>]
             PROVE  Honest(a)
  BY <1>9, Answered
<1>11. /\ a.op = op[t] /\ a.status = s /\ a.sent = made
       /\ a.missed = due[t] \ {made[i][1] : i \in DOMAIN made}
       /\ a.async = (f # <<>>)
  BY <1>2
<1>12. a.missed = {}
  BY <1>10, <1>11
<1>13. CASE op[t] = "DELETE"
  <2>1. Len(f) = 1
    BY <1>1, <1>2, <1>13 DEF Promise
  <2>2. DOMAIN made = {1} /\ s = statuses[1]
    <3>1. Len(statuses) = 1
      BY <1>3, <1>6, <1>8, <2>1, LenProperties
    <3>2. statuses # <<>>
      BY <3>1, EmptySeq
    <3> QED
      BY <1>3, <1>6, <1>8, <1>9, <1>13, <2>1, <3>2, HeadTailProperties
  <2> QED
    <3>1. made[1][2] = s
      BY <1>6, <1>7, <2>2
    <3>2. DOMAIN a.sent = {1} /\ a.sent[1][2] = a.status /\ a.op = "DELETE"
      BY <1>11, <1>13, <2>2, <3>1
    <3> QED
      BY <3>2, HonestDelete
<1>14. CASE op[t] # "DELETE"
  <2>1. s = Reduced(statuses)
    BY <1>9, <1>14
  <2>2. CASE (\A i \in DOMAIN statuses : Good(statuses[i])) /\ s = 200
    <3> HIDE DEF Good
    <3>1. \A i \in DOMAIN a.sent : Good(a.sent[i][2])
      BY <1>6, <1>7, <1>11, <2>2
    <3> QED
      BY <1>11, <1>12, <1>14, <2>2, <3>1, HonestDone
  <2>3. ASSUME NEW i \in DOMAIN statuses, ~ Good(statuses[i]), s = statuses[i]
        PROVE  Honest(a)
    <3> HIDE DEF Good
    <3>1. i \in DOMAIN a.sent /\ a.status = a.sent[i][2] /\ ~ Good(a.status)
      BY <1>6, <1>7, <1>11, <2>3
    <3>2. f # <<>>
      BY <1>3, <1>6, <2>3
    <3> QED
      BY <1>11, <1>12, <1>14, <3>1, <3>2, HonestBad
  <2> QED
    BY <1>8, <2>1, <2>2, <2>3, ReducedIsHonest
<1> QED
  BY <1>13, <1>14

\* Delete: the answer is the status of the request.
LEMMA DeleteHonest ==
  ASSUME Types, Lists, Promised, AnswersHonest, NEW t \in Clients, DeleteReturns(t)
  PROVE  AnswersHonest'
<1>1. PICK x, made : x = <<Null, status[t]>> /\ made = <<x>>
  OBVIOUS
<1>2. Returns(t, status[t], made) /\ op[t] = "DELETE"
  BY <1>1 DEF DeleteReturns
<1>3. DOMAIN made = {1} /\ made[1] = x /\ x[2] = status[t]
  BY <1>1
<1> SUFFICES ASSUME NEW a, a = [op |-> op[t], status |-> status[t], sent |-> made,
                                missed |-> due[t] \ {made[i][1] : i \in DOMAIN made},
                                async |-> futures[t] # <<>>]
             PROVE  Honest(a)
  BY <1>2, Answered
<1>4. a.op = op[t] /\ a.status = status[t] /\ a.sent = made
  OBVIOUS
<1>5. DOMAIN a.sent # {} /\ \A i \in DOMAIN a.sent : a.sent[i][2] = a.status
  BY <1>3, <1>4
<1> QED
  BY <1>2, <1>4, <1>5, HonestDelete

\* No step makes an answer dishonest.
LEMMA AnswersKept ==
  ASSUME Types, Places, Lists, Promised, AnswersHonest, [Next]_vars
  PROVE  AnswersHonest'
<1>1. ASSUME NEW t \in Clients, TakesAnswer(t) PROVE AnswersHonest'
  BY <1>1 DEF TakesAnswer, Lists, AnswersHonest
<1>2. ASSUME answer' = answer PROVE AnswersHonest'
  BY <1>2 DEF AnswersHonest
<1>3. ASSUME NEW c \in Collectables, MetricsChange(c) PROVE answer' = answer
  BY <1>3 DEF MetricsChange, callVars
<1>4. ASSUME NEW c \in Collectables, OwnerDrops(c) PROVE answer' = answer
  BY <1>4 DEF OwnerDrops
<1>5. ASSUME ServerCatchesUp PROVE answer' = answer
  BY <1>5 DEF ServerCatchesUp, callVars
<1>6. ASSUME NEW t \in Clients, NEW c \in owned, NEW u \in EntryUris,
             RegisterCollectable(t, c, u)
      PROVE  answer' = answer
  BY <1>6 DEF RegisterCollectable, callVars
<1>7. ASSUME NEW t \in Clients, NEW h \in ExtraHeaders, AddHttpHeader(t, h)
      PROVE  answer' = answer
  BY <1>7 DEF AddHttpHeader, callVars
<1>8. ASSUME NEW t \in Clients, NEW m \in Pushing, NEW l, PushLocks(t, m, l)
      PROVE  answer' = answer
  BY <1>8 DEF PushLocks
<1>9. ASSUME NEW t \in Clients, NEW u \in Uris, DeleteCalls(t, u) PROVE answer' = answer
  BY <1>9 DEF DeleteCalls
<1>10. ASSUME NEW t \in Clients, NEW k \in Tasks, NEW u \in Uris, AsyncDelete(t, k, u)
       PROVE  answer' = answer
  BY <1>10 DEF AsyncDelete
<1>11. ASSUME NEW t \in Clients, PushSkips(t) PROVE answer' = answer
  BY <1>11 DEF PushSkips
<1>12. ASSUME NEW t \in Clients, PushCollects(t) PROVE answer' = answer
  BY <1>12 DEF PushCollects, callVars
<1>13. ASSUME NEW t \in Clients, PushGoesOn(t) PROVE answer' = answer
  BY <1>13 DEF PushGoesOn
<1>14. ASSUME NEW t \in Clients, NEW k \in Tasks, Spawns(t, k) PROVE answer' = answer
  BY <1>14 DEF Spawns
<1>15. ASSUME NEW t \in Clients, SpawnEnds(t) PROVE answer' = answer
  BY <1>15 DEF SpawnEnds, callVars
<1>16. ASSUME NEW p \in Processes, RequestBegins(p) PROVE answer' = answer
  BY <1>16 DEF RequestBegins, callVars
<1>17. ASSUME NEW p \in Processes, NEW x \in Statuses, RequestPerforms(p, x)
       PROVE  answer' = answer
  BY <1>17 DEF RequestPerforms, callVars
<1>18. ASSUME UNCHANGED vars PROVE answer' = answer
  BY <1>18 DEF vars
<1> QED
  BY StepCases, StopsHonest, PushReturnsHonest, FutureHonest, DeleteHonest, <1>1, <1>2,
    <1>3, <1>4, <1>5, <1>6, <1>7, <1>8, <1>9, <1>10, <1>11, <1>12, <1>13, <1>14, <1>15,
    <1>16, <1>17, <1>18

\* Init: nothing has been called.
LEMMA HonestInit == Init => IHonest
<1> SUFFICES ASSUME Init PROVE IHonest
  OBVIOUS
<1>1. \A S : <<>> \in Seq(S)
  BY EmptySeq
<1>2. Lists
  BY <1>1 DEF Init, Lists
<1>3. Null \notin Pushing /\ Null # "DELETE"
  BY NullIsNothing DEF Pushing
<1>4. ASSUME NEW t \in Clients PROVE Holds(t) /\ Promise(t)
  <2>1. /\ pc[t] = "idle" /\ op[t] = Null /\ held[t] = Null /\ todo[t] = <<>>
        /\ sent[t] = <<>> /\ due[t] = {} /\ futures[t] = <<>>
    BY DEF Init, Processes
  <2>2. \A i : i \notin DOMAIN sent[t]
    BY <2>1
  <2> QED
    BY <1>3, <2>1, <2>2 DEF Holds, Promise
<1>5. AnswersHonest
  BY DEF Init, AnswersHonest
<1> QED
  BY <1>2, <1>4, <1>5 DEF IHonest, Promised

\* Every call keeps its promise in every state of every behaviour.
LEMMA HonestInvariant == Spec => []IHonest
<1>1. IInv /\ IHonest /\ [Next]_vars => IHonest'
  BY ListsKept, PromisedKept, AnswersKept DEF IInv, IHonest
<1> QED
  BY Invariant, HonestInit, <1>1, PTL DEF Spec

\* Push, AsyncPush, Delete: 200 is returned only when every collectable registered
\* before the call and alive to its end was sent and no response was an error (a
\* redirection is none), any other status is that of a request of this call, and a
\* synchronous push sends nothing after it; for any number of clients, tasks and
\* collectables, and whatever the server answers.
THEOREM AnswersAreHonest == Spec => []AnswersHonest
<1>1. IHonest => AnswersHonest
  BY DEF IHonest
<1> QED
  BY HonestInvariant, <1>1, PTL

-----------------------------------------------------------------------------
(* The types of every variable.                                            *)

Requests == [method : Methods, uri : Uris, body : Bodies]
Headers == {ContentType} \cup ExtraHeaders
Handles ==
  [url : Uris \cup {Null}, headers : Seq(Headers), presetup : BOOLEAN,
   fields : Bodies \cup {Null}, post : BOOLEAN, custom : Methods \cup {Null}]
Made == Seq((Entry \cup {Null}) \X Int)
Answers ==
  [op : Methods, status : Int, sent : Made, missed : SUBSET Entry, async : BOOLEAN]

\* What TypeOK says beyond Types and Lists.
Typed ==
  /\ headers \in Seq(Headers)
  /\ curl \in Handles
  /\ request \in [Processes -> Requests \cup {Null}]
  /\ Elements(late) \subseteq Requests
  /\ answer \in [Clients -> Answers \cup {Null}]

\* The requests that are to be made.
Asked == \A p \in Requesting : request[p] \in Requests

TypeOK ==
  /\ collectables \in Seq(Entry)
  /\ mutex \in Clients \cup {NoThread}
  /\ owned \subseteq Collectables
  /\ held \in [Clients -> Collectables \cup {Null}]
  /\ version \in [Collectables -> Nat]
  /\ curlMutex \in Processes \cup {NoThread}
  /\ curl \in Handles
  /\ headers \in Seq(Headers)
  /\ pc \in [Processes -> {"idle", "push", "spawn", "request", "perform", "done"}]
  /\ op \in [Clients -> Methods \cup {Null}]
  /\ request \in [Processes -> Requests \cup {Null}]
  /\ status \in [Processes -> Int]
  /\ todo \in [Clients -> Seq(Entry)]
  /\ sent \in [Clients -> Seq(Entry \X Int)]
  /\ due \in [Clients -> SUBSET Entry]
  /\ futures \in [Clients -> Seq([task : Tasks, entry : Entry \cup {Null}])]
  /\ answer \in [Clients -> Answers \cup {Null}]
  /\ store \in [Uris -> Bodies \cup {Null}]
  /\ late \in Seq(Requests)

\* push: the request for an entry has a group's path, a method and a body.
LEMMA PushRequestType ==
  ASSUME Types, Places, Lists, NEW t \in Clients, pc[t] \in {"push", "spawn"},
         todo[t] # <<>>, Alive(Head(todo[t]).ptr)
  PROVE  PushRequest(t) \in Requests
<1>1. IsRequest(PushRequest(t))
  BY PushIsRequest DEF Places
<1>2. Head(todo[t]) \in Entry
  BY HeadTailProperties DEF Lists
<1>3. PushRequest(t).uri \in Uris
  BY <1>2 DEF PushRequest, Entry, Uris
<1> QED
  BY <1>1, <1>3 DEF IsRequest, Requests

\* Delete, DeleteForInstance: so has theirs.
LEMMA DeleteRequestType ==
  ASSUME NEW u \in Uris
  PROVE  DeleteRequest(u) \in Requests
BY DEF DeleteRequest, Requests, EmptyBody, Bodies, Methods

\* A process that has not begun a request, or has the one it had, asks for nothing new.
LEMMA AskedFrame ==
  ASSUME Asked, \A p \in Processes : \/ pc'[p] \notin {"request", "perform"}
                                     \/ pc[p] \in {"request", "perform"}
                                        /\ request'[p] = request[p]
                                     \/ request'[p] \in Requests
  PROVE  Asked'
BY DEF Asked, Requesting

\* Each step keeps the requests that are to be made.
LEMMA AskedKept ==
  ASSUME Types, Places, Lists, Asked, [Next]_vars
  PROVE  Asked'
<1> USE DEF listVars, heapVars, curlVars, serverVars, callVars
<1>0. /\ pc \in [Processes -> {"idle", "push", "spawn", "request", "perform", "done"}]
      /\ request = [p \in Processes |-> request[p]]
  BY DEF Types
<1>1. ASSUME UNCHANGED <<pc, request>> PROVE Asked'
  BY <1>1 DEF Asked, Requesting
<1>2. ASSUME NEW t \in Clients, NEW m \in Pushing, NEW l \in {"push", "spawn"},
             PushLocks(t, m, l)
      PROVE  Asked'
  BY <1>0, <1>2, AskedFrame DEF PushLocks, Begins, Goto
<1>3. ASSUME NEW t \in Clients, NEW u \in Uris, DeleteCalls(t, u) PROVE Asked'
  BY <1>0, <1>3, AskedFrame, DeleteRequestType DEF DeleteCalls, Begins, Goto, Processes
<1>4. ASSUME NEW t \in Clients, NEW k \in Tasks, NEW u \in Uris, AsyncDelete(t, k, u)
      PROVE  Asked'
  BY <1>0, <1>4, AskedFrame, DeleteRequestType DEF AsyncDelete, Runs, Goto, Processes
<1>5. ASSUME NEW t \in Clients, PushCollects(t) PROVE Asked'
  BY <1>0, <1>5, AskedFrame, PushRequestType DEF PushCollects, Goto, Processes
<1>6. ASSUME NEW t \in Clients, PushGoesOn(t) PROVE Asked'
  BY <1>0, <1>6, AskedFrame DEF PushGoesOn, Forgets, Goto
<1>7. ASSUME NEW t \in Clients, PushStops(t) PROVE Asked'
  BY <1>0, <1>7, AskedFrame DEF PushStops, Forgets, Goto
<1>8. ASSUME NEW t \in Clients, PushReturns(t) \/ SpawnEnds(t) PROVE Asked'
  BY <1>0, <1>8, AskedFrame DEF PushReturns, SpawnEnds, Goto
<1>9. ASSUME NEW t \in Clients, NEW k \in Tasks, Spawns(t, k) PROVE Asked'
  BY <1>0, <1>9, AskedFrame, PushRequestType DEF Spawns, Runs, Goto, Processes
<1>10. ASSUME NEW t \in Clients, FutureReady(t) PROVE Asked'
  <2>1. PICK done :
          /\ Forgets(done)
          /\ pc' = [p \in Processes |-> IF p \in done THEN "idle" ELSE pc[p]]
    BY <1>10 DEF FutureReady
  <2>2. \A p \in Processes : pc'[p] = "idle" \/ (pc'[p] = pc[p] /\ request'[p] = request[p])
    BY <2>1 DEF Forgets
  <2> QED
    BY <2>2, AskedFrame
<1>11. ASSUME NEW t \in Clients, DeleteReturns(t) PROVE Asked'
  BY <1>0, <1>11, AskedFrame DEF DeleteReturns, Forgets, Goto
<1>12. ASSUME NEW p \in Processes, RequestBegins(p) PROVE Asked'
  BY <1>0, <1>12, AskedFrame DEF RequestBegins, Goto
<1>13. ASSUME NEW p \in Processes, NEW x \in Statuses, RequestPerforms(p, x) PROVE Asked'
  BY <1>0, <1>13, AskedFrame DEF RequestPerforms, Goto
<1>14. ASSUME NEW c \in Collectables, MetricsChange(c) \/ OwnerDrops(c)
       PROVE  UNCHANGED <<pc, request>>
  BY <1>14 DEF MetricsChange, OwnerDrops
<1>15. ASSUME NEW t \in Clients, NEW c \in owned, NEW u \in EntryUris,
              RegisterCollectable(t, c, u)
       PROVE  UNCHANGED <<pc, request>>
  BY <1>15 DEF RegisterCollectable
<1>16. ASSUME NEW t \in Clients, NEW h \in ExtraHeaders, AddHttpHeader(t, h)
       PROVE  UNCHANGED <<pc, request>>
  BY <1>16 DEF AddHttpHeader
<1>17. ASSUME NEW t \in Clients, PushSkips(t) \/ TakesAnswer(t)
       PROVE  UNCHANGED <<pc, request>>
  BY <1>17 DEF PushSkips, TakesAnswer
<1>18. ASSUME ServerCatchesUp \/ UNCHANGED vars PROVE UNCHANGED <<pc, request>>
  BY <1>18 DEF ServerCatchesUp, vars
<1> QED
  BY StepCases, <1>1, <1>2, <1>3, <1>4, <1>5, <1>6, <1>7, <1>8, <1>9, <1>10, <1>11, <1>12,
    <1>13, <1>14, <1>15, <1>16, <1>17, <1>18

\* performHttpRequest: the options of the handle.
LEMMA OptionsType ==
  ASSUME NEW r \in Requests, headers \in Seq(Headers)
  PROVE  Options(r) \in Handles
<1>1. /\ r.uri \in Uris /\ r.body \in Bodies /\ r.method \in Methods
  BY DEF Requests
<1>2. PICK o : o = Options(r)
  OBVIOUS
<1>3. /\ o.url = r.uri /\ o.fields = r.body /\ o.headers = headers /\ o.presetup = TRUE
      /\ o.post = (r.method = "POST")
      /\ o.custom = IF r.method = "POST" THEN Null ELSE r.method
  BY <1>2 DEF Options, FreshOptions, Defaults
<1>4. o = [url |-> o.url, headers |-> o.headers, presetup |-> o.presetup,
           fields |-> o.fields, post |-> o.post, custom |-> o.custom]
  BY <1>2 DEF Options, FreshOptions, Defaults
<1>5. o.custom \in Methods \cup {Null} /\ o.post \in BOOLEAN /\ o.presetup \in BOOLEAN
  BY <1>1, <1>3
<1>6. o.url \in Uris \cup {Null} /\ o.fields \in Bodies \cup {Null} /\ o.headers \in Seq(Headers)
  BY <1>1, <1>3
<1>7. o \in Handles
  BY <1>4, <1>5, <1>6 DEF Handles
<1> QED
  BY <1>2, <1>7

\* Returns: what the client is given.
LEMMA AnswerType ==
  ASSUME Lists, Typed, NEW t \in Clients, op[t] \in Methods,
         NEW s \in Int, NEW made \in Made, Returns(t, s, made)
  PROVE  answer' \in [Clients -> Answers \cup {Null}]
<1>1. PICK a : a = [op |-> op[t], status |-> s, sent |-> made,
                    missed |-> due[t] \ {made[i][1] : i \in DOMAIN made},
                    async |-> futures[t] # <<>>]
  OBVIOUS
<1>2. due[t] \ {made[i][1] : i \in DOMAIN made} \in SUBSET Entry
  BY DEF Lists
<1>3. (futures[t] # <<>>) \in BOOLEAN
  OBVIOUS
<1>4. a \in Answers
  <2> HIDE DEF Made
  <2> QED
    BY <1>1, <1>2, <1>3 DEF Answers
<1>5. answer' = [answer EXCEPT ![t] = a]
  BY <1>1, Zenon DEF Returns
<1> QED
  BY <1>4, <1>5 DEF Typed

\* push returns a status, of the requests it has made.
LEMMA StopsTyped ==
  ASSUME Lists, Promised, Typed, NEW t \in Clients, PushStops(t)
  PROVE  answer' \in [Clients -> Answers \cup {Null}]
<1>1. op[t] \in Methods /\ todo[t] \in Seq(Entry) /\ todo[t] # <<>>
  BY DEF Promised, PushStops, Lists, Holds, Pushing, Methods
<1>2. Head(todo[t]) \in Entry /\ status[t] \in Int
  BY <1>1, HeadTailProperties DEF Lists, Processes
<1>3. PICK made : made = Append(sent[t], <<Head(todo[t]), status[t]>>)
  OBVIOUS
<1>4. <<Head(todo[t]), status[t]>> \in Entry \X Int
  BY <1>2
<1>5. made \in Seq(Entry \X Int)
  BY <1>3, <1>4, AppendProperties DEF Lists
<1>6. made \in Made
  BY <1>5, SeqMonotonic DEF Made
<1>7. Returns(t, status[t], made)
  BY <1>3 DEF PushStops
<1> QED
  BY <1>1, <1>2, <1>6, <1>7, AnswerType

\* The same at the end of the list.
LEMMA PushReturnsTyped ==
  ASSUME Types, Places, Lists, Typed, NEW t \in Clients, PushReturns(t)
  PROVE  answer' \in [Clients -> Answers \cup {Null}]
<1>1. op[t] \in Methods /\ sent[t] \in Seq(Entry \X Int)
  BY DEF PushReturns, Places, Lists, Pushing, Methods
<1>2. sent[t] \in Made
  BY <1>1, SeqMonotonic DEF Made
<1> QED
  BY <1>1, <1>2, AnswerType DEF PushReturns

\* The one element of a list.
LEMMA OnlyElement ==
  ASSUME NEW S, NEW s \in Seq(S), Len(s) = 1
  PROVE  Head(s) \in S
<1>1. s # <<>>
  BY EmptySeq
<1> QED
  BY <1>1, HeadTailProperties

\* A future: the statuses of its tasks are numbers, and so is what they reduce to.
LEMMA FutureTyped ==
  ASSUME Types, Lists, Promised, Typed, NEW t \in Clients, FutureReady(t)
  PROVE  answer' \in [Clients -> Answers \cup {Null}]
<1>1. Promise(t) /\ pc[t] = "idle" /\ op[t] \in Methods
  BY DEF Promised, FutureReady, Types
<1>2. PICK F, f : F = [task : Tasks, entry : Entry \cup {Null}] /\ f = futures[t]
  OBVIOUS
<1>3. /\ f \in Seq(F) /\ Len(f) \in Nat /\ DOMAIN f = 1 .. Len(f)
      /\ \A i \in DOMAIN f : f[i] \in F
  <2>1. f \in Seq(F)
    BY <1>2 DEF Lists
  <2>2. Len(f) \in Nat /\ DOMAIN f = 1 .. Len(f) /\ f \in [1 .. Len(f) -> F]
    BY <2>1, LenProperties
  <2> QED
    BY <2>1, <2>2
<1>4. PICK made : made = [i \in DOMAIN f |-> <<f[i].entry, status[f[i].task]>>]
  OBVIOUS
<1>5. PICK statuses : statuses = [i \in DOMAIN made |-> made[i][2]]
  OBVIOUS
<1>6. \A i \in DOMAIN f : f[i].entry \in Entry \cup {Null} /\ status[f[i].task] \in Int
  BY <1>2, <1>3 DEF Lists, Processes
<1>7. /\ DOMAIN made = DOMAIN f /\ DOMAIN statuses = DOMAIN f
      /\ \A i \in DOMAIN f : /\ made[i] \in (Entry \cup {Null}) \X Int
                             /\ statuses[i] \in Int
  BY <1>4, <1>5, <1>6
<1>8. made \in Made
  <2>1. made \in [1 .. Len(f) -> (Entry \cup {Null}) \X Int]
    BY <1>3, <1>4, <1>7
  <2> QED
    BY <1>3, <2>1, SeqDef DEF Made
<1>9. statuses \in Seq(Int) /\ Len(statuses) = Len(f)
  <2>1. statuses \in [1 .. Len(f) -> Int]
    BY <1>3, <1>5, <1>7
  <2>2. statuses \in Seq(Int)
    BY <1>3, <2>1, SeqDef
  <2> QED
    BY <1>3, <2>1, <2>2, LenProperties
<1>10. PICK s : /\ s = IF op[t] = "DELETE" THEN Head(statuses) ELSE Reduced(statuses)
                /\ Returns(t, s, made)
  BY <1>2, <1>4, <1>5 DEF FutureReady
<1>11. Reduced(statuses) \in Int
  <2>1. \A i \in DOMAIN statuses : statuses[i] \in Int
    BY <1>7
  <2> QED
    BY <1>9, <2>1, ReducedIsHonest
<1>12. ASSUME op[t] = "DELETE" PROVE Head(statuses) \in Int
  <2>1. Len(statuses) = 1
    BY <1>1, <1>2, <1>9, <1>12 DEF Promise
  <2> QED
    BY <1>9, <2>1, OnlyElement
<1>13. s \in Int
  <2>1. CASE op[t] = "DELETE"
    BY <2>1, <1>10, <1>12
  <2>2. CASE op[t] # "DELETE"
    BY <2>2, <1>10, <1>11
  <2> QED BY <2>1, <2>2
<1>14. Returns(t, s, made)
  BY <1>10
<1> QED
  BY <1>1, <1>8, <1>13, <1>14, AnswerType

\* Delete returns the status of its one request.
LEMMA DeleteTyped ==
  ASSUME Lists, Typed, NEW t \in Clients, DeleteReturns(t)
  PROVE  answer' \in [Clients -> Answers \cup {Null}]
<1>1. status[t] \in Int /\ op[t] \in Methods
  BY DEF DeleteReturns, Lists, Processes, Methods
<1>2. <<<<Null, status[t]>>>> \in Made
  BY <1>1 DEF Made
<1> QED
  BY <1>1, <1>2, AnswerType DEF DeleteReturns

\* Each step keeps the types of the requests, of the handle and of the answers.
LEMMA TypedKept ==
  ASSUME Types, Places, Handled, Lists, Promised, Asked, Typed, [Next]_vars
  PROVE  Typed'
<1> USE DEF listVars, heapVars, curlVars, serverVars, callVars
<1>0. request \in [Processes -> Requests \cup {Null}] /\ late \in Seq(Elements(late))
  BY DEF Typed, Types
<1>1. ASSUME NEW P, Forgets(P)
      PROVE  request' \in [Processes -> Requests \cup {Null}]
  BY <1>0, <1>1 DEF Forgets
<1>2. ASSUME NEW c \in Collectables, MetricsChange(c) \/ OwnerDrops(c) PROVE Typed'
  BY <1>2 DEF MetricsChange, OwnerDrops, Typed
<1>3. ASSUME ServerCatchesUp PROVE Typed'
  <2>1. PICK i \in DOMAIN late : late' = RemoveAt(late, i)
    BY <1>3 DEF ServerCatchesUp
  <2>2. Elements(late') \subseteq Elements(late)
    BY <1>0, <2>1, RemoveAtElements
  <2> QED
    BY <1>3, <2>2 DEF ServerCatchesUp, Typed
<1>4. ASSUME NEW t \in Clients, NEW c \in owned, NEW u \in EntryUris,
             RegisterCollectable(t, c, u)
      PROVE  Typed'
  BY <1>4 DEF RegisterCollectable, Typed
<1>5. ASSUME NEW t \in Clients, NEW h \in ExtraHeaders, AddHttpHeader(t, h) PROVE Typed'
  <2>1. Append(headers, h) \in Seq(Headers)
    BY AppendProperties DEF Typed, Headers
  <2> QED
    BY <1>5, <2>1 DEF AddHttpHeader, Typed
<1>6. ASSUME NEW t \in Clients, NEW m \in Pushing, NEW l, PushLocks(t, m, l) PROVE Typed'
  BY <1>6 DEF PushLocks, Typed
<1>7. ASSUME NEW t \in Clients, NEW u \in Uris, DeleteCalls(t, u) PROVE Typed'
  BY <1>7, DeleteRequestType DEF DeleteCalls, Typed
<1>8. ASSUME NEW t \in Clients, NEW k \in Tasks, NEW u \in Uris, AsyncDelete(t, k, u)
      PROVE  Typed'
  BY <1>8, DeleteRequestType DEF AsyncDelete, Runs, Typed
<1>9. ASSUME NEW t \in Clients, PushSkips(t) \/ SpawnEnds(t) PROVE Typed'
  BY <1>9 DEF PushSkips, SpawnEnds, Typed
<1>10. ASSUME NEW t \in Clients, PushCollects(t) PROVE Typed'
  <2>1. PushRequest(t) \in Requests
    BY <1>10, PushRequestType DEF PushCollects
  <2> QED
    BY <1>10, <2>1 DEF PushCollects, Typed
<1>11. ASSUME NEW t \in Clients, PushGoesOn(t) PROVE Typed'
  BY <1>1, <1>11 DEF PushGoesOn, Typed
<1>12. ASSUME NEW t \in Clients, PushStops(t) PROVE Typed'
  BY <1>1, <1>12, StopsTyped DEF PushStops, Typed
<1>13. ASSUME NEW t \in Clients, PushReturns(t) PROVE Typed'
  BY <1>13, PushReturnsTyped DEF PushReturns, Typed
<1>14. ASSUME NEW t \in Clients, NEW k \in Tasks, Spawns(t, k) PROVE Typed'
  <2>1. PushRequest(t) \in Requests
    BY <1>14, PushRequestType DEF Spawns
  <2> QED
    BY <1>14, <2>1 DEF Spawns, Runs, Typed
<1>15. ASSUME NEW t \in Clients, FutureReady(t) PROVE Typed'
  <2>1. PICK done : Forgets(done)
    BY <1>15 DEF FutureReady
  <2> QED
    BY <1>1, <1>15, <2>1, FutureTyped DEF FutureReady, Typed
<1>16. ASSUME NEW t \in Clients, DeleteReturns(t) PROVE Typed'
  BY <1>1, <1>16, DeleteTyped DEF DeleteReturns, Typed
<1>17. ASSUME NEW t \in Clients, TakesAnswer(t) PROVE Typed'
  BY <1>17 DEF TakesAnswer, Typed
<1>18. ASSUME NEW p \in Processes, RequestBegins(p) PROVE Typed'
  <2>1. request[p] \in Requests
    BY <1>18 DEF RequestBegins, Asked, Requesting
  <2>2. Options(request[p]) \in Handles
    BY <2>1, OptionsType DEF Typed
  <2> QED
    BY <1>18, <2>2 DEF RequestBegins, Typed
<1>19. ASSUME NEW p \in Processes, NEW x \in Statuses, RequestPerforms(p, x) PROVE Typed'
  <2>1. Transferred = request[p] /\ request[p] \in Requests
    BY <1>0, <1>19 DEF RequestPerforms, Handled, Asked, Requesting
  <2>2. Elements(Append(late, Transferred)) = Elements(late) \cup {Transferred}
    BY <1>0, AppendElements
  <2>3. Elements(late') \subseteq Requests
    BY <1>19, <2>1, <2>2 DEF RequestPerforms, Typed
  <2> QED
    BY <1>19, <2>3 DEF RequestPerforms, Typed
<1>20. ASSUME UNCHANGED vars PROVE Typed'
  BY <1>20 DEF vars, Typed
<1> QED
  BY StepCases, <1>2, <1>3, <1>4, <1>5, <1>6, <1>7, <1>8, <1>9, <1>10, <1>11, <1>12,
    <1>13, <1>14, <1>15, <1>16, <1>17, <1>18, <1>19, <1>20

\* Init: no request, no answer, a handle as it comes.
LEMMA TypedInit == Init => Asked /\ Typed
<1> SUFFICES ASSUME Init PROVE Asked /\ Typed
  OBVIOUS
<1>1. Asked
  BY DEF Init, Asked, Requesting
<1>2. headers \in Seq(Headers)
  BY DEF Init, Headers
<1>3. curl \in Handles
  <2>1. <<>> \in Seq(Headers)
    BY EmptySeq
  <2> QED
    BY <2>1 DEF Init, Defaults, Handles
<1>4. Elements(late) \subseteq Requests
  BY DEF Init, Elements
<1>5. request \in [Processes -> Requests \cup {Null}] /\ answer \in [Clients -> Answers \cup {Null}]
  BY DEF Init
<1> QED
  BY <1>1, <1>2, <1>3, <1>4, <1>5 DEF Typed

\* Every variable keeps its type, for any number of clients, tasks, entries and late
\* requests: each request a thread has, the server has yet to work on, or the handle is
\* set for is a whole request to a path of this Gateway, and each body, in a request
\* or in the server, is empty or the metrics of a collectable.
THEOREM TypeCorrect == Spec => []TypeOK
<1>1. IInv /\ IHonest /\ Asked /\ Typed /\ [Next]_vars => Asked' /\ Typed'
  BY AskedKept, TypedKept DEF IInv, IHonest
<1>2. IInv /\ IHonest /\ Typed => TypeOK
  <2> SUFFICES ASSUME IInv, IHonest, Typed PROVE TypeOK
    OBVIOUS
  <2>1. Types /\ Lists
    BY DEF IInv, IHonest
  <2>2. late \in Seq(Requests)
    BY <2>1, SeqMonotonic DEF Types, Typed
  <2> QED
    BY <2>1, <2>2 DEF Types, Lists, Typed, TypeOK
<1> QED
  BY Invariant, HonestInvariant, TypedInit, <1>1, <1>2, PTL DEF Spec
=============================================================================
