------------------------------ MODULE Gateway ------------------------------
(***************************************************************************)
(* prometheus::Gateway and its CurlWrapper: clients push collectables and  *)
(* delete groups, in their own thread or in tasks that std::async starts,  *)
(* against a server that accepts, refuses, or is not heard of in time.     *)
(*                                                                         *)
(* Gateway::mutex_ guards the list of collectables: a push keeps it until  *)
(* the last answer is there, an async_push only while it collects, and a   *)
(* delete does not take it.  All requests go through one curl handle,      *)
(* under a mutex of its own.  A collectable's metrics are a version        *)
(* number that grows; version 0 has no metrics, which gives an empty body. *)
(***************************************************************************)
EXTENDS Integers, Sequences, SequencesExt

CONSTANTS
  Clients,       \* the threads that use the Gateway
  Tasks,         \* the threads std::async may start
  NoThread,      \* the owner of a mutex nobody holds
  Null,          \* nothing
  Collectables,
  EntryUris,     \* what getUri gives for the labels of an entry
  JobUri,        \* jobUri_
  InstanceUri,   \* jobUri_ + labels_
  ContentType,   \* the header the constructor sets
  ExtraHeaders,  \* headers a client may add
  Statuses,      \* what performHttpRequest returns: a response, or -curl_error
  MaxEntries,    \* bound: the length of the list
  MaxVersion,    \* bound: the changes of a collectable
  MaxLate        \* bound: the requests the server has yet to work on

Processes == Clients \cup Tasks
Uris == EntryUris \cup {JobUri, InstanceUri}

ASSUME GatewayThreads == NoThread \notin Processes /\ Clients \cap Tasks = {}
ASSUME StatusesAssumption == Statuses \subseteq Int
ASSUME NullIsNothing == Null \notin {"POST", "PUT", "DELETE"} \cup Collectables

VARIABLES
  collectables,  \* Gateway::collectables_: weak_ptr and URI
  mutex,         \* Gateway::mutex_: its owner
  owned,         \* the collectables whose owner still holds them
  held,          \* the shared_ptr a push has locked
  version,       \* the metrics of each collectable
  curlMutex,     \* CurlWrapper::mutex_: its owner
  curl,          \* CurlWrapper::curl_: the options of the handle
  headers,       \* CurlWrapper::optHttpHeader_
  pc,            \* where each process is
  op,            \* the method a client has called
  request,       \* the arguments of performHttpRequest
  status,        \* what it returned
  todo,          \* the entries a push has still to visit
  sent,          \* history: the entries a call has sent, with their status
  due,           \* history: the entries a call has to send
  futures,       \* the tasks whose answers a client has not had yet
  answer,        \* what a call returned, and for what
  store,         \* the server: the body each group holds
  late           \* the server: requests it has received and not worked on

listVars == <<collectables, mutex>>
heapVars == <<owned, held, version>>
curlVars == <<curlMutex, curl, headers>>
serverVars == <<store, late>>
callVars == <<op, todo, sent, due, futures, answer>>
vars == <<collectables, mutex, owned, held, version, curlMutex, curl, headers, pc,
          op, request, status, todo, sent, due, futures, answer, store, late>>

-----------------------------------------------------------------------------
Alive(c) == c \in owned \cup ({held[t] : t \in Clients} \ {Null})
Entries == {collectables[i] : i \in DOMAIN collectables}

\* Serialize: the body with the metrics of c.
EmptyBody == [ptr |-> Null, version |-> 0]
Body(c) == IF version[c] = 0 THEN EmptyBody ELSE [ptr |-> c, version |-> version[c]]

\* The server has taken the request: only a response of success says so.  libcurl
\* is not told to follow a redirection (3xx), which changes no group.
Took(s) == s \in 200 .. 299

\* The requests of the processes in P are done with.
Forgets(P) ==
  /\ request' = [p \in Processes |-> IF p \in P THEN Null ELSE request[p]]
  /\ status' = [p \in Processes |-> IF p \in P THEN 0 ELSE status[p]]

Goto(p, loc) == pc' = [pc EXCEPT ![p] = loc]

\* curl_easy_reset.
Defaults ==
  [url |-> Null, headers |-> <<>>, presetup |-> FALSE, fields |-> Null,
   post |-> FALSE, custom |-> Null]
KeptOptions == curl
FreshOptions == Defaults

\* The curl_easy_setopt calls of performHttpRequest.
Options(r) ==
  [FreshOptions EXCEPT
     !.url = r.uri,
     !.headers = headers,
     !.presetup = TRUE,
     !.fields = r.body,
     !.post = @ \/ r.method = "POST",
     !.custom = IF r.method = "POST" THEN @ ELSE r.method]

\* What libcurl makes of the options.
Transferred ==
  [method |-> IF curl.custom # Null THEN curl.custom
              ELSE IF curl.post THEN "POST" ELSE "GET",
   uri |-> curl.url,
   body |-> curl.fields]

Init ==
  /\ collectables = <<>>
  /\ mutex = NoThread
  /\ owned = Collectables
  /\ held = [t \in Clients |-> Null]
  /\ version = [c \in Collectables |-> 0]
  /\ curlMutex = NoThread
  /\ curl = Defaults
  /\ headers = <<ContentType>>
  /\ pc = [p \in Processes |-> "idle"]
  /\ op = [t \in Clients |-> Null]
  /\ request = [p \in Processes |-> Null]
  /\ status = [p \in Processes |-> 0]
  /\ todo = [t \in Clients |-> <<>>]
  /\ sent = [t \in Clients |-> <<>>]
  /\ due = [t \in Clients |-> {}]
  /\ futures = [t \in Clients |-> <<>>]
  /\ answer = [t \in Clients |-> Null]
  /\ store = [u \in Uris |-> Null]
  /\ late = <<>>

-----------------------------------------------------------------------------
(* The owners of the collectables.                                         *)

MetricsChange(c) ==
  /\ c \in owned /\ version[c] < MaxVersion
  /\ version' = [version EXCEPT ![c] = @ + 1]
  /\ UNCHANGED <<listVars, owned, held, curlVars, pc, request, status, callVars,
                 serverVars>>

OwnerDrops(c) ==
  /\ c \in owned
  /\ owned' = owned \ {c}
  /\ due' = [t \in Clients |-> {e \in due[t] : e.ptr # c}]
  /\ UNCHANGED <<listVars, held, version, curlVars, pc, op, request, status, todo,
                 sent, futures, answer, serverVars>>

\* CleanupStalePointers, remove_if and erase: the entries that have not expired.
CleanupStalePointers(entries) ==
  LET kept[i \in 0 .. Len(entries)] ==
        IF i = 0 THEN <<>>
        ELSE IF Alive(entries[i].ptr) THEN Append(kept[i - 1], entries[i]) ELSE kept[i - 1]
  IN kept[Len(entries)]

\* RegisterCollectable: CleanupStalePointers and emplace_back.
RegisterCollectable(t, c, uri) ==
  /\ pc[t] = "idle" /\ mutex = NoThread
  /\ Len(CleanupStalePointers(collectables)) < MaxEntries
  /\ collectables' =
       Append(CleanupStalePointers(collectables), [ptr |-> c, uri |-> uri])
  /\ UNCHANGED <<mutex, heapVars, curlVars, pc, request, status, callVars, serverVars>>

-----------------------------------------------------------------------------
(* CurlWrapper.                                                            *)

CurlLocks == curlMutex = NoThread

\* performHttpRequest: the options are set, then curl_easy_perform talks to the
\* server, which accepts, refuses, sends elsewhere, or does not answer in time; in
\* the last case it may have taken the request all the same, now or later.
RequestBegins(p) ==
  /\ pc[p] = "request" /\ CurlLocks
  /\ curlMutex' = p
  /\ curl' = Options(request[p])
  /\ Goto(p, "perform")
  /\ UNCHANGED <<listVars, heapVars, headers, request, status, callVars, serverVars>>

Applied(r) ==
  [store EXCEPT ![r.uri] = IF r.method = "DELETE" THEN Null ELSE r.body]

RequestPerforms(p, s) ==
  /\ pc[p] = "perform"
  /\ \/ Took(s) /\ store' = Applied(Transferred) /\ UNCHANGED late
     \/ ~ Took(s) /\ UNCHANGED <<store, late>>
     \/ s < 0 /\ store' = Applied(Transferred) /\ UNCHANGED late
     \/ /\ s < 0 /\ Len(late) < MaxLate
        /\ late' = Append(late, Transferred) /\ UNCHANGED store
  /\ status' = [status EXCEPT ![p] = s]
  /\ curlMutex' = NoThread
  /\ Goto(p, "done")
  /\ UNCHANGED <<listVars, heapVars, curl, headers, request, callVars>>

ServerCatchesUp ==
  /\ late # <<>>
  /\ \E i \in DOMAIN late : store' = Applied(late[i]) /\ late' = RemoveAt(late, i)
  /\ UNCHANGED <<listVars, heapVars, curlVars, pc, request, status, callVars>>

\* addHttpHeader: curl_slist_append appends to the list, or fails and nothing
\* changes.  As a bound, each extra header is added once.
AddHttpHeader(t, h) ==
  /\ pc[t] = "idle" /\ CurlLocks
  /\ h \notin ToSet(headers)
  /\ headers' = Append(headers, h)
  /\ UNCHANGED <<listVars, heapVars, curlMutex, curl, pc, request, status, callVars,
                 serverVars>>

-----------------------------------------------------------------------------
(* Push and PushAdd: push.                                                 *)

Free(t) == pc[t] = "idle" /\ op[t] = Null /\ answer[t] = Null

Begins(t, method, loc) ==
  /\ Free(t)
  /\ op' = [op EXCEPT ![t] = method]
  /\ Goto(t, loc)

\* The lock, and the loop over the list that starts under it.
PushLocks(t, method, loc) ==
  /\ Begins(t, method, loc)
  /\ mutex = NoThread /\ mutex' = t
  /\ todo' = [todo EXCEPT ![t] = collectables]
  /\ due' = [due EXCEPT ![t] = {e \in Entries : Alive(e.ptr)}]
  /\ UNCHANGED <<collectables, heapVars, curlVars, request, status, sent, futures,
                 answer, serverVars>>

\* An expired entry.
PushSkips(t) ==
  /\ pc[t] \in {"push", "spawn"} /\ todo[t] # <<>>
  /\ ~ Alive(Head(todo[t]).ptr)
  /\ todo' = [todo EXCEPT ![t] = Tail(@)]
  /\ UNCHANGED <<listVars, heapVars, curlVars, pc, op, request, status, sent, due,
                 futures, answer, serverVars>>

PushRequest(t) ==
  LET e == Head(todo[t])
  IN [method |-> op[t], uri |-> e.uri, body |-> Body(e.ptr)]

MutexReleased(t) == mutex' = NoThread
MutexKept(t) == UNCHANGED mutex

PushCollects(t) ==
  /\ pc[t] = "push" /\ todo[t] # <<>>
  /\ Alive(Head(todo[t]).ptr)
  /\ held' = [held EXCEPT ![t] = Head(todo[t]).ptr]
  /\ request' = [request EXCEPT ![t] = PushRequest(t)]
  /\ Goto(t, "request")
  /\ MutexKept(t)
  /\ UNCHANGED <<collectables, owned, version, curlVars, status, callVars, serverVars>>

\* The test of a status code.
Refused(s) == s >= 400
Bad(s) == s < 100 \/ s >= 400

\* A good answer: the next entry.  The shared_ptr goes out of scope.
PushGoesOn(t) ==
  /\ pc[t] = "done" /\ op[t] \in {"POST", "PUT"}
  /\ ~ Bad(status[t])
  /\ sent' = [sent EXCEPT ![t] = Append(@, <<Head(todo[t]), status[t]>>)]
  /\ todo' = [todo EXCEPT ![t] = Tail(@)]
  /\ held' = [held EXCEPT ![t] = Null]
  /\ Forgets({t})
  /\ Goto(t, "push")
  /\ UNCHANGED <<listVars, owned, version, curlVars, op, due, futures, answer,
                 serverVars>>

\* A call returns s after it sent the entries of made.
Returns(t, s, made) ==
  /\ answer' = [answer EXCEPT ![t] =
                  [op |-> op[t], status |-> s, sent |-> made,
                   missed |-> due[t] \ {made[i][1] : i \in DOMAIN made},
                   async |-> futures[t] # <<>>]]
  /\ op' = [op EXCEPT ![t] = Null]
  /\ todo' = [todo EXCEPT ![t] = <<>>]
  /\ sent' = [sent EXCEPT ![t] = <<>>]
  /\ due' = [due EXCEPT ![t] = {}]

\* The first bad status is the result of the push.
PushStops(t) ==
  /\ pc[t] = "done" /\ op[t] \in {"POST", "PUT"}
  /\ Bad(status[t])
  /\ Returns(t, status[t], Append(sent[t], <<Head(todo[t]), status[t]>>))
  /\ mutex' = NoThread
  /\ held' = [held EXCEPT ![t] = Null]
  /\ Forgets({t})
  /\ Goto(t, "idle")
  /\ UNCHANGED <<collectables, owned, version, curlVars, futures, serverVars>>

PushReturns(t) ==
  /\ pc[t] = "push" /\ todo[t] = <<>>
  /\ Returns(t, 200, sent[t])
  /\ mutex' = NoThread
  /\ Goto(t, "idle")
  /\ UNCHANGED <<collectables, heapVars, curlVars, request, status, futures, serverVars>>

-----------------------------------------------------------------------------
(* AsyncPush and AsyncPushAdd: async_push.  A client takes the answer of   *)
(* one future before it makes another call.                                *)

Runs(k, r) ==
  /\ pc[k] = "idle"
  /\ request' = [request EXCEPT ![k] = r]

\* The body is collected here, and sent by a task that std::async starts.
Spawns(t, k) ==
  /\ pc[t] = "spawn" /\ todo[t] # <<>>
  /\ Alive(Head(todo[t]).ptr)
  /\ Runs(k, PushRequest(t)) /\ Goto(k, "request")
  /\ futures' = [futures EXCEPT ![t] = Append(@, [task |-> k, entry |-> Head(todo[t])])]
  /\ todo' = [todo EXCEPT ![t] = Tail(@)]
  /\ UNCHANGED <<listVars, heapVars, curlVars, op, status, sent, due, answer, serverVars>>

\* The list is done: the lock is released, the client has its future.
SpawnEnds(t) ==
  /\ pc[t] = "spawn" /\ todo[t] = <<>>
  /\ mutex' = NoThread
  /\ Goto(t, "idle")
  /\ UNCHANGED <<collectables, heapVars, curlVars, request, status, callVars, serverVars>>

\* reduceFutures: the last bad status, if any.
Reduced(statuses) ==
  LET bad == {i \in DOMAIN statuses : Bad(statuses[i])}
  IN IF bad = {} THEN 200 ELSE statuses[Max(bad)]

\* The future of a client becomes ready: all its tasks have ended.
FutureReady(t) ==
  LET done == {futures[t][i].task : i \in DOMAIN futures[t]}
      made == [i \in DOMAIN futures[t] |->
                 <<futures[t][i].entry, status[futures[t][i].task]>>]
      statuses == [i \in DOMAIN made |-> made[i][2]]
  IN /\ pc[t] = "idle" /\ op[t] # Null
     /\ \A k \in done : pc[k] = "done"
     /\ Returns(t, IF op[t] = "DELETE" THEN Head(statuses) ELSE Reduced(statuses), made)
     /\ futures' = [futures EXCEPT ![t] = <<>>]
     /\ Forgets(done)
     /\ pc' = [p \in Processes |-> IF p \in done THEN "idle" ELSE pc[p]]
     /\ UNCHANGED <<listVars, heapVars, curlVars, serverVars>>

-----------------------------------------------------------------------------
(* Delete, DeleteForInstance and their asynchronous forms.                 *)

DeleteRequest(uri) == [method |-> "DELETE", uri |-> uri, body |-> EmptyBody]

DeleteCalls(t, uri) ==
  /\ Begins(t, "DELETE", "request")
  /\ request' = [request EXCEPT ![t] = DeleteRequest(uri)]
  /\ UNCHANGED <<listVars, heapVars, curlVars, status, todo, sent, due, futures,
                 answer, serverVars>>

DeleteReturns(t) ==
  /\ pc[t] = "done" /\ op[t] = "DELETE"
  /\ Returns(t, status[t], <<<<Null, status[t]>>>>)
  /\ Forgets({t})
  /\ Goto(t, "idle")
  /\ UNCHANGED <<listVars, heapVars, curlVars, futures, serverVars>>

AsyncDelete(t, k, uri) ==
  /\ Free(t)
  /\ op' = [op EXCEPT ![t] = "DELETE"]
  /\ Runs(k, DeleteRequest(uri)) /\ Goto(k, "request")
  /\ futures' = [futures EXCEPT ![t] = <<[task |-> k, entry |-> Null]>>]
  /\ UNCHANGED <<listVars, heapVars, curlVars, status, todo, sent, due, answer, serverVars>>

\* The client has the result.
TakesAnswer(t) ==
  /\ answer[t] # Null
  /\ answer' = [answer EXCEPT ![t] = Null]
  /\ UNCHANGED <<listVars, heapVars, curlVars, pc, op, request, status, todo, sent, due,
                 futures, serverVars>>

-----------------------------------------------------------------------------
Calls(t) ==
  \/ \E c \in owned, u \in EntryUris : RegisterCollectable(t, c, u)
  \/ \E h \in ExtraHeaders : AddHttpHeader(t, h)
  \/ \E m \in {"POST", "PUT"} : PushLocks(t, m, "push") \/ PushLocks(t, m, "spawn")
  \/ \E u \in {JobUri, InstanceUri} :
       DeleteCalls(t, u) \/ \E k \in Tasks : AsyncDelete(t, k, u)

Continues(t) ==
  \/ PushSkips(t) \/ PushCollects(t) \/ PushGoesOn(t) \/ PushStops(t) \/ PushReturns(t)
  \/ (\E k \in Tasks : Spawns(t, k)) \/ SpawnEnds(t) \/ FutureReady(t)
  \/ DeleteReturns(t) \/ TakesAnswer(t)

Environment ==
  \/ \E c \in Collectables : MetricsChange(c) \/ OwnerDrops(c)
  \/ ServerCatchesUp

Performs(p) == \E s \in Statuses : RequestPerforms(p, s)

Next ==
  \/ Environment
  \/ \E t \in Clients : Calls(t) \/ Continues(t)
  \/ \E p \in Processes : RequestBegins(p) \/ Performs(p)

Spec == Init /\ [][Next]_vars

-----------------------------------------------------------------------------
\* performHttpRequest: what goes out is the request of the call that has the
\* handle, whole, and nothing an earlier request or another thread has set.
RequestsIntact ==
  \A p \in Processes : pc[p] = "perform" =>
    Transferred = request[p] /\ curl.headers = headers /\ curl.presetup

\* A response that is not one of the errors of HTTP, 4xx and 5xx.
Good(s) == s \in 100 .. 399

\* What an answer says is true of what the call did.
Honest(a) ==
  LET all == {a.sent[i][2] : i \in DOMAIN a.sent}
  IN IF a.op = "DELETE" THEN all = {a.status}
     ELSE IF \A s \in all : Good(s) THEN a.status = 200 /\ a.missed = {}
     ELSE /\ a.status \in {s \in all : ~ Good(s)}
          /\ IF a.async THEN a.missed = {}
             ELSE \A i \in DOMAIN a.sent : ~ Good(a.sent[i][2]) <=> i = Len(a.sent)

\* Push, AsyncPush, Delete: the status a call gives is honest.  200 means that every
\* collectable registered before the call and alive to its end was sent and none of
\* the responses was an error; any other says of a request of this call what became
\* of it, and a synchronous push sends nothing more after a bad one.  (200 is not
\* yet that the server has taken everything: a redirection is no error either.)
AnswersHonest == \A t \in Clients : answer[t] # Null => Honest(answer[t])

\* Push, PushAdd: synchronous pushes do not overtake one another: a group never
\* gets back, from a client that waits for the answer, older metrics of a
\* collectable than it has.
NeverOlder ==
  [][\A t \in Clients, u \in Uris :
       (pc[t] = "perform" /\ pc'[t] = "done" /\ store[u] # Null /\ store'[u] # Null) =>
         (store[u].ptr = store'[u].ptr => store[u].version <= store'[u].version)]_vars

=============================================================================
