------------------------------ MODULE Exposer ------------------------------
(***************************************************************************)
(* prometheus::Exposer and prometheus::detail::Endpoint on a CivetServer:  *)
(* clients register and remove collectables and protect URIs while the     *)
(* server works on requests, until the Exposer is destroyed; the server    *)
(* may be shared, outlive it and be given to another Exposer.              *)
(*                                                                         *)
(* What an endpoint exposes is the set that CollectableSet promises and    *)
(* MetricsHandler implements.  The server is external: it keeps one        *)
(* request handler and one authorization handler for each URI and does not *)
(* take a request handler away while a request uses it.  Whether it does   *)
(* the same for an authorization handler that it replaces is left open.    *)
(***************************************************************************)
EXTENDS Naturals, Sequences

CONSTANTS
  Clients,       \* the threads that use the Exposer
  Workers,       \* the worker threads of the server
  NoThread,      \* the owner of a mutex nobody holds
  Null,          \* no object, no credentials
  Uris,
  Collectables,
  Own,           \* the registry an endpoint has for itself
  EndpointAddrs, \* the addresses there are for Endpoint objects
  AuthAddrs,     \* the addresses there are for BasicAuthHandler objects
  Passwords      \* the credentials that an authorization callback accepts

ASSUME ExposerThreads == NoThread \notin Clients /\ Clients \cap Workers = {}
ASSUME ExposerObjects ==
  Null \notin EndpointAddrs \cup AuthAddrs \cup Passwords /\ Own \notin Collectables

VARIABLES
  endpoints,     \* Exposer::endpoints_
  mutex,         \* Exposer::mutex_: its owner
  gone,          \* no Exposer uses the server
  endpoint,      \* the live Endpoint objects
  exposed,       \* what the MetricsHandler of each Endpoint exposes
  auth,          \* the live BasicAuthHandler objects: what they accept
  handlers,      \* CivetServer: the Endpoint whose MetricsHandler serves a URI
  authHandlers,  \* CivetServer: the BasicAuthHandler that guards a URI
  waits,         \* CivetServer: addAuthHandler waits for the requests that run in
                 \* the handler it replaces
  pc,            \* where each thread is
  call,          \* the call a client has made
  reached,       \* the Endpoint a call works on
  request,       \* the request a worker has in hand
  pinned,        \* the Endpoint whose handler a request uses
  asked,         \* the BasicAuthHandler whose authorize a request runs in
  accepted,      \* history: the credentials that open a URI
  valid,         \* history: the credentials that open a request
  wanted         \* history: what has been registered for a URI

serverVars == <<handlers, authHandlers, waits>>
requestVars == <<request, pinned, asked, valid>>
objectVars == <<endpoint, exposed, auth>>
vars == <<endpoints, mutex, gone, endpoint, exposed, auth, handlers, authHandlers, waits,
          pc, call, reached, request, pinned, asked, accepted, valid, wanted>>

Threads == Clients \cup Workers
Calls ==
  [op : {"register", "remove"}, uri : Uris, arg : Collectables]
    \cup [op : {"auth"}, uri : Uris, arg : Passwords]
Credentials == Passwords \cup {Null}
Endpoints == [uri : Uris, auth : AuthAddrs \cup {Null}]
Requests == [uri : Uris, cred : Credentials]
PendingCalls == Calls \cup [op : {"auth"}, uri : Uris, arg : AuthAddrs]

\* Null is no object: neither an endpoint nor a call nor a request.
ASSUME ExposerRecords == Null \notin Endpoints \cup PendingCalls \cup Requests

-----------------------------------------------------------------------------
Init ==
  /\ endpoints = <<>>
  /\ mutex = NoThread
  /\ gone = FALSE
  /\ endpoint = [e \in EndpointAddrs |-> Null]
  /\ exposed = [e \in EndpointAddrs |-> {}]
  /\ auth = [a \in AuthAddrs |-> Null]
  /\ handlers = [u \in Uris |-> Null]
  /\ authHandlers = [u \in Uris |-> Null]
  /\ waits \in BOOLEAN
  /\ pc = [t \in Threads |-> "idle"]
  /\ call = [t \in Clients |-> Null]
  /\ reached = [t \in Clients |-> Null]
  /\ request = [w \in Workers |-> Null]
  /\ pinned = [w \in Workers |-> Null]
  /\ asked = [w \in Workers |-> Null]
  /\ accepted = [u \in Uris |-> Credentials]
  /\ valid = [w \in Workers |-> {}]
  /\ wanted = [u \in Uris |-> {}]

Goto(t, loc) == pc' = [pc EXCEPT ![t] = loc]

\* GetEndpointForUri: the first endpoint with this URI.
EndpointOf(u) == {e \in EndpointAddrs :
  \E i \in DOMAIN endpoints :
    /\ endpoints[i] = e /\ endpoint[e].uri = u
    /\ \A j \in 1 .. i - 1 : endpoint[endpoints[j]].uri # u}

\* std::lock_guard<std::mutex> lock{mutex_}.
Unlocked == TRUE
Locks == mutex = NoThread

\* CivetServer::addHandler and removeHandler wait for the requests that use the
\* handler they replace, and meanwhile no other request gets it.
Unused(u) == \A w \in Workers : pinned[w] # Null => pinned[w] # handlers[u]
BeingRemoved(u) ==
  \E t \in Clients :
    pc[t] = "destroy" /\ endpoints # <<>> /\ endpoint[Head(endpoints)].uri = u

-----------------------------------------------------------------------------
(* RegisterCollectable, RemoveCollectable and RegisterAuth of the Exposer. *)
(* Each finds its endpoint, or builds one, a RemoveCollectable too.        *)

\* From now on the new password is good for the requests that are there.
Opens(c) ==
  [w \in Workers |->
     IF c.op = "auth" /\ request[w] # Null /\ request[w].uri = c.uri
       THEN valid[w] \cup {c.arg} ELSE valid[w]]

CallFinds(t, c) ==
  /\ pc[t] = "idle" /\ Locks /\ ~ gone
  /\ mutex' = t
  /\ call' = [call EXCEPT ![t] = c]
  /\ \E e \in EndpointOf(c.uri) : reached' = [reached EXCEPT ![t] = e]
  /\ Goto(t, c.op)
  /\ valid' = Opens(c)
  /\ UNCHANGED <<endpoints, gone, objectVars, serverVars, request, pinned,
                 asked, accepted, wanted>>

\* The constructor of Endpoint: the registry is registered with the handler
\* before the server knows the handler.
RegistersOwn == {Own}

CallBuilds(t, c) ==
  /\ pc[t] = "idle" /\ Locks /\ ~ gone
  /\ EndpointOf(c.uri) = {}
  /\ \E e \in EndpointAddrs :
       /\ endpoint[e] = Null
       /\ endpoint' = [endpoint EXCEPT ![e] = [uri |-> c.uri, auth |-> Null]]
       /\ exposed' = [exposed EXCEPT ![e] = RegistersOwn]
       /\ reached' = [reached EXCEPT ![t] = e]
  /\ mutex' = t
  /\ call' = [call EXCEPT ![t] = c]
  /\ Goto(t, "install")
  /\ valid' = Opens(c)
  /\ UNCHANGED <<endpoints, gone, auth, serverVars, request, pinned, asked, accepted,
                 wanted>>

InstallsHandler(t) ==
  /\ pc[t] = "install" /\ Unused(call[t].uri)
  /\ handlers' = [handlers EXCEPT ![call[t].uri] = reached[t]]
  /\ Goto(t, "append")
  /\ UNCHANGED <<endpoints, mutex, gone, objectVars, authHandlers, waits, call, reached,
                 requestVars, accepted, wanted>>

AppendsEndpoint(t) ==
  /\ pc[t] = "append"
  /\ endpoints' = Append(endpoints, reached[t])
  /\ Goto(t, call[t].op)
  /\ UNCHANGED <<mutex, gone, objectVars, serverVars, call, reached, requestVars,
                 accepted, wanted>>

Return(t) ==
  /\ mutex' = NoThread
  /\ Goto(t, "idle")
  /\ call' = [call EXCEPT ![t] = Null]
  /\ reached' = [reached EXCEPT ![t] = Null]

\* MetricsHandler::RegisterCollectable and RemoveCollectable.
Registers(t) ==
  /\ pc[t] = "register"
  /\ exposed' = [exposed EXCEPT ![reached[t]] = @ \cup {call[t].arg}]
  /\ wanted' = [wanted EXCEPT ![call[t].uri] = @ \cup {call[t].arg}]
  /\ Return(t)
  /\ UNCHANGED <<endpoints, gone, endpoint, auth, serverVars, requestVars, accepted>>

Removes(t) ==
  /\ pc[t] = "remove"
  /\ exposed' = [exposed EXCEPT ![reached[t]] = @ \ {call[t].arg}]
  /\ wanted' = [wanted EXCEPT ![call[t].uri] = @ \ {call[t].arg}]
  /\ Return(t)
  /\ UNCHANGED <<endpoints, gone, endpoint, auth, serverVars, requestVars, accepted>>

\* Endpoint::RegisterAuth: create, install, and only then let go of the handler
\* that was installed before.  The address of an object is not used again while a
\* request runs in it, so that what is gone can be told from what is new.
AuthRemoved(t) ==
  /\ authHandlers' = [authHandlers EXCEPT ![call[t].uri] = Null]
  /\ UNCHANGED <<handlers, waits>>
AuthStays(t) == UNCHANGED serverVars

OldDestroyed(t) == [a \in AuthAddrs |-> IF a = endpoint[reached[t]].auth THEN Null ELSE auth[a]]
OldKept(t) == auth

CreatesAuth(t) ==
  /\ pc[t] = "auth"
  /\ \E a \in AuthAddrs :
       /\ auth[a] = Null /\ \A w \in Workers : asked[w] # a
       /\ auth' = [OldKept(t) EXCEPT ![a] = call[t].arg]
       /\ call' = [call EXCEPT ![t].arg = a]
  /\ AuthStays(t)
  /\ Goto(t, "install_auth")
  /\ UNCHANGED <<endpoints, mutex, gone, endpoint, exposed, reached, requestVars,
                 accepted, wanted>>

\* CivetServer::addAuthHandler.
AuthUnused(u) == \A w \in Workers : asked[w] # Null => asked[w] # authHandlers[u]

InstallsAuth(t) ==
  /\ pc[t] = "install_auth"
  /\ waits => AuthUnused(call[t].uri)
  /\ authHandlers' = [authHandlers EXCEPT ![call[t].uri] = call[t].arg]
  /\ Goto(t, "store_auth")
  /\ UNCHANGED <<endpoints, mutex, gone, objectVars, handlers, waits, call, reached,
                 requestVars, accepted, wanted>>

StoresAuth(t) ==
  /\ pc[t] = "store_auth"
  /\ endpoint' = [endpoint EXCEPT ![reached[t]].auth = call[t].arg]
  /\ auth' = [a \in AuthAddrs |->
                IF a = endpoint[reached[t]].auth THEN Null ELSE auth[a]]
  /\ accepted' = [accepted EXCEPT ![call[t].uri] = {auth[call[t].arg]}]
  /\ Return(t)
  /\ UNCHANGED <<endpoints, gone, exposed, serverVars, requestVars, wanted>>

-----------------------------------------------------------------------------
(* ~Exposer, once no client is inside a call: one endpoint after the       *)
(* other, and then a new Exposer on the same server.                       *)

DestructionBegins(t) ==
  /\ \A u \in Clients : pc[u] = "idle"
  /\ ~ gone
  /\ gone' = TRUE
  /\ Goto(t, "destroy")
  /\ UNCHANGED <<endpoints, mutex, objectVars, serverVars, call, reached,
                 requestVars, accepted, wanted>>

\* ~Endpoint: removeHandler, removeAuthHandler, and the members.
RemovesHandler(t) ==
  /\ pc[t] = "destroy" /\ endpoints # <<>>
  /\ Unused(endpoint[Head(endpoints)].uri)
  /\ handlers' = [handlers EXCEPT ![endpoint[Head(endpoints)].uri] = Null]
  /\ Goto(t, "unguard")
  /\ UNCHANGED <<endpoints, mutex, gone, objectVars, authHandlers, waits, call, reached,
                 requestVars, accepted, wanted>>

RemovesAuth(t) ==
  /\ pc[t] = "unguard"
  /\ authHandlers' =
       IF endpoint[Head(endpoints)].auth = Null THEN authHandlers
       ELSE [authHandlers EXCEPT ![endpoint[Head(endpoints)].uri] = Null]
  /\ Goto(t, "free")
  /\ UNCHANGED <<endpoints, mutex, gone, objectVars, handlers, waits, call, reached,
                 requestVars, accepted, wanted>>

FreesEndpoint(t) ==
  /\ pc[t] = "free"
  /\ LET e == Head(endpoints) IN
       /\ auth' = [a \in AuthAddrs |-> IF a = endpoint[e].auth THEN Null ELSE auth[a]]
       /\ accepted' = [accepted EXCEPT ![endpoint[e].uri] = Credentials]
       /\ wanted' = [wanted EXCEPT ![endpoint[e].uri] = {}]
       /\ endpoint' = [endpoint EXCEPT ![e] = Null]
       /\ exposed' = [exposed EXCEPT ![e] = {}]
  /\ endpoints' = Tail(endpoints)
  /\ Goto(t, "destroy")
  /\ UNCHANGED <<mutex, gone, serverVars, call, reached, requestVars>>

DestructionEnds(t) ==
  /\ pc[t] = "destroy" /\ endpoints = <<>>
  /\ Goto(t, "idle")
  /\ UNCHANGED <<endpoints, mutex, gone, objectVars, serverVars, call, reached,
                 requestVars, accepted, wanted>>

ExposerBegins(t) ==
  /\ gone /\ \A u \in Clients : pc[u] = "idle"
  /\ gone' = FALSE
  /\ UNCHANGED <<endpoints, mutex, objectVars, serverVars, pc, call, reached,
                 requestVars, accepted, wanted>>

-----------------------------------------------------------------------------
(* A request: the server finds the handler, which from now on is in use,   *)
(* looks for an authorization handler and runs the request in it if there  *)
(* is one, and calls the handler.                                          *)

Password(t) ==
  IF pc[t] \in {"install_auth", "store_auth"} THEN auth[call[t].arg] ELSE call[t].arg

BeingAdded(u) ==
  {Password(t) : t \in {s \in Clients : /\ call[s] # Null
                                        /\ call[s].op = "auth" /\ call[s].uri = u}}

RequestArrives(w, u, cred) ==
  /\ pc[w] = "idle" /\ handlers[u] # Null /\ ~ BeingRemoved(u)
  /\ Goto(w, "authorize")
  /\ request' = [request EXCEPT ![w] = [uri |-> u, cred |-> cred]]
  /\ pinned' = [pinned EXCEPT ![w] = handlers[u]]
  /\ valid' = [valid EXCEPT ![w] = accepted[u] \cup BeingAdded(u)]
  /\ UNCHANGED <<endpoints, mutex, gone, objectVars, serverVars, call, reached,
                 asked, accepted, wanted>>

RequestEnds(w) ==
  /\ Goto(w, "idle")
  /\ request' = [request EXCEPT ![w] = Null]
  /\ pinned' = [pinned EXCEPT ![w] = Null]
  /\ valid' = [valid EXCEPT ![w] = {}]

\* The server calls BasicAuthHandler::authorize, if there is one.
RequestUnguarded(w) ==
  /\ pc[w] = "authorize" /\ authHandlers[request[w].uri] = Null
  /\ Goto(w, "serve")
  /\ UNCHANGED <<endpoints, mutex, gone, objectVars, serverVars, call, reached,
                 requestVars, accepted, wanted>>

AuthorizeBegins(w) ==
  /\ pc[w] = "authorize" /\ authHandlers[request[w].uri] # Null
  /\ asked' = [asked EXCEPT ![w] = authHandlers[request[w].uri]]
  /\ Goto(w, "authorizing")
  /\ UNCHANGED <<endpoints, mutex, gone, objectVars, serverVars, call, reached,
                 request, pinned, valid, accepted, wanted>>

\* AuthorizeInner decodes the header and calls callback_.  What a handler does that
\* is destroyed meanwhile is undefined.
Authorized(w) == request[w].cred = auth[asked[w]]
Destroyed(w) == auth[asked[w]] = Null

RequestPasses(w) ==
  /\ pc[w] = "authorizing" /\ (Authorized(w) \/ Destroyed(w))
  /\ Goto(w, "serve")
  /\ asked' = [asked EXCEPT ![w] = Null]
  /\ UNCHANGED <<endpoints, mutex, gone, objectVars, serverVars, call, reached,
                 request, pinned, valid, accepted, wanted>>

RequestRefused(w) ==
  /\ pc[w] = "authorizing" /\ (~ Authorized(w) \/ Destroyed(w))
  /\ RequestEnds(w)
  /\ asked' = [asked EXCEPT ![w] = Null]
  /\ UNCHANGED <<endpoints, mutex, gone, objectVars, serverVars, call, reached,
                 accepted, wanted>>

RequestServed(w) ==
  /\ pc[w] = "serve"
  /\ RequestEnds(w)
  /\ UNCHANGED <<endpoints, mutex, gone, objectVars, serverVars, call, reached,
                 asked, accepted, wanted>>

-----------------------------------------------------------------------------
ClientContinues(t) ==
  \/ InstallsHandler(t) \/ AppendsEndpoint(t)
  \/ Registers(t) \/ Removes(t)
  \/ CreatesAuth(t) \/ InstallsAuth(t) \/ StoresAuth(t)
  \/ RemovesHandler(t) \/ RemovesAuth(t) \/ FreesEndpoint(t) \/ DestructionEnds(t)

WorkerContinues(w) ==
  \/ RequestUnguarded(w) \/ AuthorizeBegins(w)
  \/ RequestPasses(w) \/ RequestRefused(w) \/ RequestServed(w)

Next ==
  \/ \E t \in Clients :
       \/ \E c \in Calls : CallFinds(t, c) \/ CallBuilds(t, c)
       \/ DestructionBegins(t) \/ ExposerBegins(t)
       \/ ClientContinues(t)
  \/ \E w \in Workers :
       \/ \E u \in Uris, cred \in Credentials : RequestArrives(w, u, cred)
       \/ WorkerContinues(w)

Spec == Init /\ [][Next]_vars

-----------------------------------------------------------------------------
(* Properties.                                                             *)

Locations ==
  {"idle", "install", "append", "register", "remove", "auth", "install_auth",
   "store_auth", "destroy", "unguard", "free", "authorize", "authorizing", "serve"}

\* Every variable has its type, and a client inside a call owns the mutex.
TypeOK ==
  /\ endpoints \in Seq(EndpointAddrs)
  /\ mutex \in Clients \cup {NoThread}
  /\ gone \in BOOLEAN
  /\ endpoint \in [EndpointAddrs -> Endpoints \cup {Null}]
  /\ exposed \in [EndpointAddrs -> SUBSET (Collectables \cup {Own})]
  /\ auth \in [AuthAddrs -> Credentials]
  /\ handlers \in [Uris -> EndpointAddrs \cup {Null}]
  /\ authHandlers \in [Uris -> AuthAddrs \cup {Null}]
  /\ waits \in BOOLEAN
  /\ pc \in [Threads -> Locations]
  /\ call \in [Clients -> PendingCalls \cup {Null}]
  /\ reached \in [Clients -> EndpointAddrs \cup {Null}]
  /\ request \in [Workers -> Requests \cup {Null}]
  /\ pinned \in [Workers -> EndpointAddrs \cup {Null}]
  /\ asked \in [Workers -> AuthAddrs \cup {Null}]
  /\ accepted \in [Uris -> SUBSET Credentials]
  /\ valid \in [Workers -> SUBSET Credentials]
  /\ wanted \in [Uris -> SUBSET Collectables]
  /\ \A t \in Clients : call[t] # Null => mutex = t

\* GetEndpointForUri never makes a second endpoint for a URI, though two clients
\* may ask for it for the first time at once.
OneEndpointPerUri ==
  \A i, j \in DOMAIN endpoints :
    endpoint[endpoints[i]].uri = endpoint[endpoints[j]].uri => i = j

\* The server never has a pointer to a handler that is destroyed, and no request
\* runs in a destroyed MetricsHandler, nor, if addAuthHandler waits for it, in a
\* destroyed BasicAuthHandler: RegisterAuth installs the new handler before the old
\* one goes, and ~Endpoint takes both handlers out of the server.
InstalledAlive ==
  /\ \A u \in Uris :
       /\ handlers[u] # Null =>
            /\ endpoint[handlers[u]] # Null
            /\ endpoint[handlers[u]].uri = u
       /\ authHandlers[u] # Null => auth[authHandlers[u]] # Null
  /\ \A w \in Workers :
       /\ pinned[w] # Null => endpoint[pinned[w]] # Null
       /\ waits /\ asked[w] # Null => auth[asked[w]] # Null

\* A request that comes after RegisterAuth has returned is served only with the
\* credentials of that call, or of a later one: while a handler is replaced and
\* while the Exposer is destroyed as well.  This too needs that addAuthHandler waits,
\* since what authorize returns in a destroyed handler is anything.
GuardKept ==
  waits => \A w \in Workers : pc[w] = "serve" => request[w].cred \in valid[w]

\* A URI is served with the endpoint's own metrics and with all that has been
\* registered for this URI and not removed, and with nothing else.
ServesWhatIsRegistered ==
  \A u \in Uris : handlers[u] # Null =>
    exposed[handlers[u]] = wanted[u] \cup {Own}

=============================================================================
