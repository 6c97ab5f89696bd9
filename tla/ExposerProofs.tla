---------------------------- MODULE ExposerProofs ----------------------------
(***************************************************************************)
(* Theorems about Exposer, for any number of clients, workers and URIs,    *)
(* and Exposers one after the other on one server.                         *)
(***************************************************************************)
EXTENDS Exposer, SequenceTheorems, TLAPS

Elements(s) == {s[i] : i \in DOMAIN s}
Distinct(s) == \A i, j \in DOMAIN s : s[i] = s[j] => i = j

-----------------------------------------------------------------------------
(* The invariant.                                                          *)

InCall == {"install", "append", "register", "remove", "auth", "install_auth", "store_auth"}
InDestructor == {"destroy", "unguard", "free"}

\* A client inside a call has the mutex, and ~Exposer runs by itself.
Places ==
  /\ \A t \in Clients : pc[t] \in {"idle"} \cup InCall \cup InDestructor
  /\ \A t \in Clients : pc[t] \in InCall => mutex = t /\ ~ gone
  /\ \A t \in Clients : pc[t] \in InDestructor => gone
  /\ \A s, t \in Clients : pc[s] # "idle" /\ pc[t] # "idle" => s = t
  /\ \A w \in Workers : pc[w] \in {"idle", "authorize", "authorizing", "serve"}

\* What a call is about, and the endpoint it works on.
Reaches ==
  \A t \in Clients :
    /\ pc[t] \in InCall <=> call[t] # Null
    /\ pc[t] \in {"install", "append", "register", "remove", "auth"} => call[t] \in Calls
    /\ pc[t] \in {"register", "remove"} => call[t].arg \in Collectables
    /\ pc[t] = "auth" => call[t].op = "auth"
    /\ pc[t] \in {"install_auth", "store_auth"} =>
         call[t] \in [op : {"auth"}, uri : Uris, arg : AuthAddrs]
    /\ pc[t] \in InCall =>
         /\ reached[t] \in EndpointAddrs /\ endpoint[reached[t]] # Null
         /\ endpoint[reached[t]].uri = call[t].uri

\* The endpoints there are, one for each URI, are those of the list and the one
\* that is being built.
Listed ==
  /\ Distinct(endpoints)
  /\ \A e \in Elements(endpoints) : endpoint[e] # Null
  /\ \A e \in EndpointAddrs : endpoint[e] # Null =>
       \/ e \in Elements(endpoints)
       \/ \E t \in Clients : pc[t] \in {"install", "append"} /\ reached[t] = e
  /\ \A t \in Clients : pc[t] \in {"install", "append"} =>
       reached[t] \notin Elements(endpoints) /\ endpoint[reached[t]].auth = Null
  /\ \A e, f \in EndpointAddrs :
       endpoint[e] # Null /\ endpoint[f] # Null /\ endpoint[e].uri = endpoint[f].uri => e = f
  /\ \A t \in Clients : pc[t] \in {"unguard", "free"} => endpoints # <<>>

\* The server has the handlers of endpoints only, and those that requests use.
Installed ==
  /\ \A u \in Uris : handlers[u] # Null =>
       endpoint[handlers[u]] # Null /\ endpoint[handlers[u]].uri = u
  /\ \A w \in Workers : pc[w] = "idle" <=> request[w] = Null
  /\ \A w \in Workers : pinned[w] # Null <=> request[w] # Null
  /\ \A w \in Workers : request[w] # Null => pinned[w] = handlers[request[w].uri]
  /\ \A t \in Clients : pc[t] \in {"unguard", "free"} =>
       handlers[endpoint[Head(endpoints)].uri] = Null

\* Each BasicAuthHandler belongs to one endpoint, or to the call that made it, and
\* the server has no other.
Owned ==
  /\ \A e \in EndpointAddrs : endpoint[e] # Null /\ endpoint[e].auth # Null =>
       auth[endpoint[e].auth] # Null
  /\ \A e, f \in EndpointAddrs :
       endpoint[e] # Null /\ endpoint[f] # Null /\ endpoint[e].auth # Null
         /\ endpoint[e].auth = endpoint[f].auth => e = f
  /\ \A t \in Clients : pc[t] \in {"install_auth", "store_auth"} =>
       /\ auth[call[t].arg] # Null
       /\ \A e \in EndpointAddrs : endpoint[e] # Null => endpoint[e].auth # call[t].arg
  /\ \A t \in Clients : pc[t] = "store_auth" => authHandlers[call[t].uri] = call[t].arg
  /\ \A u \in Uris : authHandlers[u] # Null =>
       \/ \E e \in EndpointAddrs :
            endpoint[e] # Null /\ endpoint[e].uri = u /\ endpoint[e].auth = authHandlers[u]
       \/ \E t \in Clients :
            pc[t] = "store_auth" /\ call[t].uri = u /\ call[t].arg = authHandlers[u]
  /\ \A t \in Clients : pc[t] = "free" => authHandlers[endpoint[Head(endpoints)].uri] = Null

\* The server lets through whom the URI accepts, or will accept when the call in
\* progress returns, and a request it has let through had the right credentials.
Guarded ==
  /\ \A u \in Uris : accepted[u] # Credentials =>
       \E e \in EndpointAddrs :
         endpoint[e] # Null /\ endpoint[e].uri = u /\ endpoint[e].auth # Null
  /\ \A u \in Uris : handlers[u] # Null =>
       IF authHandlers[u] = Null THEN accepted[u] = Credentials
       ELSE \/ auth[authHandlers[u]] \in accepted[u]
            \/ \E t \in Clients :
                 pc[t] = "store_auth" /\ call[t].uri = u /\ call[t].arg = authHandlers[u]
  /\ \A w \in Workers : request[w] # Null =>
       IF authHandlers[request[w].uri] = Null THEN Credentials \subseteq valid[w]
       ELSE auth[authHandlers[request[w].uri]] \in valid[w]
  /\ \A w \in Workers, t \in Clients :
       request[w] # Null /\ call[t] # Null /\ call[t].op = "auth" /\ call[t].uri = request[w].uri
         => Password(t) \in valid[w]
  /\ GuardKept

\* A request runs in an authorization handler while it is authorized, and if the server
\* waits for it, in the one that is installed.
Asking ==
  /\ \A w \in Workers : asked[w] # Null <=> pc[w] = "authorizing"
  /\ waits => \A w \in Workers : asked[w] # Null => asked[w] = authHandlers[request[w].uri]

\* An endpoint exposes what is wanted of it, and nothing is wanted of no endpoint.
Wanted ==
  /\ \A e \in EndpointAddrs : endpoint[e] # Null =>
       exposed[e] = wanted[endpoint[e].uri] \cup {Own}
  /\ \A u \in Uris : wanted[u] # {} =>
       \E e \in EndpointAddrs : endpoint[e] # Null /\ endpoint[e].uri = u

Inductive ==
  TypeOK /\ Places /\ Reaches /\ Listed /\ Installed /\ Owned /\ Guarded /\ Asking /\ Wanted

\* The invariant holds when the first Exposer has been constructed.
LEMMA InductiveInit == Init => Inductive
<1> SUFFICES ASSUME Init PROVE Inductive
  OBVIOUS
<1> USE ExposerThreads, ExposerObjects, ExposerRecords
<1>1. TypeOK
  <2>1. endpoints \in Seq(EndpointAddrs) /\ mutex \in Clients \cup {NoThread} /\ gone \in BOOLEAN
    BY EmptySeq DEF Init
  <2>4. /\ auth \in [AuthAddrs -> Credentials]
        /\ exposed \in [EndpointAddrs -> SUBSET (Collectables \cup {Own})]
    BY DEF Init, Credentials
  <2>2. /\ pc \in [Threads -> Locations]
        /\ accepted \in [Uris -> SUBSET Credentials]
    BY DEF Init, Locations
  <2>3. \A t \in Clients : call[t] # Null => mutex = t
    BY DEF Init
  <2> QED BY <2>1, <2>2, <2>3, <2>4 DEF Init, TypeOK
<1>2. Places /\ Reaches
  BY DEF Init, Places, Reaches, InCall, InDestructor, Threads
<1>3. Listed
  BY DEF Init, Listed, Distinct, Elements, Threads
<1>4. Installed /\ Owned
  BY DEF Init, Installed, Owned, Threads
<1>5. Guarded /\ Asking /\ Wanted
  BY DEF Init, Guarded, GuardKept, Asking, Wanted, Threads
<1> QED BY <1>1, <1>2, <1>3, <1>4, <1>5 DEF Inductive

-----------------------------------------------------------------------------
(* Facts that several steps need.                                          *)

\* A client inside a call or a destructor is the only one.
LEMMA Alone ==
  ASSUME Inductive, NEW t \in Clients, pc[t] # "idle"
  PROVE  \A s \in Clients : s # t => pc[s] = "idle" /\ call[s] = Null
BY DEF Inductive, Places, Reaches, InCall

\* While the mutex is free there is none.
LEMMA NobodyInside ==
  ASSUME Inductive, mutex = NoThread, ~ gone
  PROVE  \A s \in Clients : pc[s] = "idle" /\ call[s] = Null
BY ExposerThreads DEF Inductive, Places, Reaches, InCall

\* What an Endpoint object is.
LEMMA EndpointTypes ==
  ASSUME Inductive, NEW e \in EndpointAddrs, endpoint[e] # Null
  PROVE  /\ endpoint[e] \in Endpoints /\ endpoint[e].uri \in Uris
         /\ endpoint[e].auth \in AuthAddrs \cup {Null}
BY DEF Inductive, TypeOK, Endpoints

\* The server points to living handlers.
LEMMA AuthAlive ==
  ASSUME Inductive, NEW u \in Uris, authHandlers[u] # Null
  PROVE  authHandlers[u] \in AuthAddrs /\ auth[authHandlers[u]] # Null
<1>1. authHandlers[u] \in AuthAddrs
  BY DEF Inductive, TypeOK
<1> QED BY <1>1 DEF Inductive, Owned

\* GetEndpointForUri finds the endpoint of a URI if there is one.
LEMMA EndpointFound ==
  ASSUME Inductive, NEW u \in Uris
  PROVE  /\ EndpointOf(u) \subseteq {e \in EndpointAddrs : endpoint[e] # Null /\ endpoint[e].uri = u}
         /\ \A f \in Elements(endpoints) : endpoint[f].uri = u => f \in EndpointOf(u)
<1>1. \A i \in DOMAIN endpoints : endpoints[i] \in EndpointAddrs /\ endpoint[endpoints[i]] # Null
  BY DEF Inductive, TypeOK, Listed, Elements
<1>2. \A e \in EndpointOf(u) : e \in EndpointAddrs /\ endpoint[e] # Null /\ endpoint[e].uri = u
  BY <1>1 DEF EndpointOf
<1>3. ASSUME NEW i \in DOMAIN endpoints, endpoint[endpoints[i]].uri = u
      PROVE  endpoints[i] \in EndpointOf(u)
  <2>1. DOMAIN endpoints = 1 .. Len(endpoints) /\ Len(endpoints) \in Nat
    BY LenProperties DEF Inductive, TypeOK
  <2>2. ASSUME NEW j \in 1 .. i - 1
        PROVE  endpoint[endpoints[j]].uri # u
    <3>1. j \in DOMAIN endpoints /\ j # i
      BY <2>1, <2>2, <1>3
    <3>2. endpoints[j] # endpoints[i]
      BY <1>3, <3>1 DEF Inductive, Listed, Distinct
    <3> QED BY <1>1, <1>3, <3>1, <3>2 DEF Inductive, Listed
  <2> QED BY <1>1, <1>3, <2>2 DEF EndpointOf
<1> QED BY <1>2, <1>3 DEF Elements

\* push_back of something new.
LEMMA AppendElements ==
  ASSUME NEW S, NEW s \in Seq(S), NEW x \in S, x \notin Elements(s), Distinct(s)
  PROVE  /\ Append(s, x) \in Seq(S) /\ Distinct(Append(s, x))
         /\ Elements(Append(s, x)) = Elements(s) \cup {x}
<1>1. /\ Append(s, x) \in Seq(S) /\ DOMAIN Append(s, x) = 1 .. Len(s) + 1
      /\ \A i \in 1 .. Len(s) : Append(s, x)[i] = s[i]
      /\ Append(s, x)[Len(s) + 1] = x
  BY AppendProperties
<1>2. DOMAIN s = 1 .. Len(s) /\ Len(s) \in Nat
  BY LenProperties
<1>3. Elements(Append(s, x)) = Elements(s) \cup {x}
  BY <1>1, <1>2 DEF Elements
<1>4. Distinct(Append(s, x))
  <2> SUFFICES ASSUME NEW i \in 1 .. Len(s) + 1, NEW j \in 1 .. Len(s) + 1,
                      Append(s, x)[i] = Append(s, x)[j]
               PROVE  i = j
    BY <1>1 DEF Distinct
  <2>1. \A k \in 1 .. Len(s) : Append(s, x)[k] # x
    BY <1>1, <1>2 DEF Elements
  <2> QED BY <1>1, <1>2, <2>1 DEF Distinct
<1> QED BY <1>1, <1>3, <1>4

\* The first of a list is taken away.
LEMMA TailElements ==
  ASSUME NEW S, NEW s \in Seq(S), s # <<>>, Distinct(s)
  PROVE  /\ Head(s) \in S /\ Head(s) \in Elements(s) /\ Tail(s) \in Seq(S) /\ Distinct(Tail(s))
         /\ Elements(Tail(s)) = Elements(s) \ {Head(s)}
<1>1. /\ Head(s) \in S /\ Head(s) = s[1] /\ Tail(s) \in Seq(S) /\ Len(Tail(s)) = Len(s) - 1
      /\ \A i \in 1 .. Len(Tail(s)) : Tail(s)[i] = s[i + 1]
  BY HeadTailProperties
<1>2. /\ DOMAIN s = 1 .. Len(s) /\ Len(s) \in Nat /\ Len(s) # 0
      /\ DOMAIN Tail(s) = 1 .. Len(Tail(s))
  BY <1>1, LenProperties, EmptySeq
<1>3. \A i \in DOMAIN Tail(s) :
        i + 1 \in DOMAIN s /\ Tail(s)[i] = s[i + 1] /\ s[i + 1] # Head(s)
  BY <1>1, <1>2 DEF Distinct
<1>4. \A i \in DOMAIN s : s[i] # Head(s) => i - 1 \in DOMAIN Tail(s) /\ Tail(s)[i - 1] = s[i]
  BY <1>1, <1>2
<1>5. Head(s) \in Elements(s)
  BY <1>1, <1>2 DEF Elements
<1>6. Elements(Tail(s)) = Elements(s) \ {Head(s)}
  <2>1. ASSUME NEW x \in Elements(Tail(s)) PROVE x \in Elements(s) \ {Head(s)}
    BY <1>3, <2>1 DEF Elements
  <2>2. ASSUME NEW x \in Elements(s), x # Head(s) PROVE x \in Elements(Tail(s))
    BY <1>4, <2>2 DEF Elements
  <2> QED BY <2>1, <2>2
<1>7. Distinct(Tail(s))
  <2> SUFFICES ASSUME NEW i \in DOMAIN Tail(s), NEW j \in DOMAIN Tail(s),
                      Tail(s)[i] = Tail(s)[j]
               PROVE  i = j
    BY DEF Distinct
  <2>1. i + 1 = j + 1
    BY <1>3 DEF Distinct
  <2> QED BY <1>2, <2>1
<1> QED BY <1>1, <1>5, <1>6, <1>7

\* The endpoint that ~Exposer is about.
LEMMA FirstEndpoint ==
  ASSUME Inductive, endpoints # <<>>
  PROVE  /\ Head(endpoints) \in EndpointAddrs /\ endpoint[Head(endpoints)] # Null
         /\ endpoint[Head(endpoints)].uri \in Uris
         /\ Tail(endpoints) \in Seq(EndpointAddrs) /\ Distinct(Tail(endpoints))
         /\ Elements(Tail(endpoints)) = Elements(endpoints) \ {Head(endpoints)}
<1>1. endpoints \in Seq(EndpointAddrs) /\ Distinct(endpoints)
  BY DEF Inductive, TypeOK, Listed
<1>2. endpoint[Head(endpoints)] # Null /\ Head(endpoints) \in EndpointAddrs
  BY <1>1, TailElements DEF Inductive, Listed
<1> QED BY <1>1, <1>2, TailElements, EndpointTypes

-----------------------------------------------------------------------------
(* What a step that does not concern a part of the invariant keeps.        *)

\* A step that leaves the list and the endpoints' URIs alone keeps the list right.
LEMMA SameListed ==
  ASSUME Listed, UNCHANGED <<endpoints, endpoint>>,
         \A t \in Clients :
           /\ pc'[t] \in {"install", "append"} <=> pc[t] \in {"install", "append"}
           /\ pc[t] \in {"install", "append"} => reached'[t] = reached[t]
           /\ pc'[t] \in {"unguard", "free"} => endpoints # <<>>
  PROVE  Listed'
<1>1. Elements(endpoints)' = Elements(endpoints) /\ Distinct(endpoints)'
  BY DEF Listed, Distinct, Elements
<1> QED BY <1>1 DEF Listed

\* A step that leaves the server alone keeps its handlers right.
LEMMA SameInstalled ==
  ASSUME Installed, UNCHANGED <<endpoint, handlers, request, pinned>>,
         \A w \in Workers : pc'[w] = "idle" <=> pc[w] = "idle",
         \A t \in Clients : pc'[t] \in {"unguard", "free"} =>
           pc[t] \in {"unguard", "free"} /\ UNCHANGED endpoints
  PROVE  Installed'
BY DEF Installed

\* A step that leaves the BasicAuthHandlers and who owns them alone.
LEMMA SameOwned ==
  ASSUME Owned, UNCHANGED <<endpoint, auth, authHandlers>>,
         \A t \in Clients :
           \/ pc'[t] = pc[t] /\ call'[t] = call[t] /\ UNCHANGED endpoints
           \/ {pc[t], pc'[t]} \cap {"install_auth", "store_auth", "free"} = {}
  PROVE  Owned'
<1>1. ASSUME NEW t \in Clients, pc'[t] \in {"install_auth", "store_auth"}
      PROVE  /\ auth'[call'[t].arg] # Null
             /\ \A e \in EndpointAddrs : endpoint'[e] # Null => endpoint'[e].auth # call'[t].arg
             /\ pc'[t] = "store_auth" => authHandlers'[call'[t].uri] = call'[t].arg
  <2>1. pc[t] = pc'[t] /\ call'[t] = call[t]
    BY <1>1
  <2> QED BY <1>1, <2>1 DEF Owned
<1>2. ASSUME NEW u \in Uris, authHandlers'[u] # Null
      PROVE  \/ \E e \in EndpointAddrs :
                  endpoint'[e] # Null /\ endpoint'[e].uri = u /\ endpoint'[e].auth = authHandlers'[u]
             \/ \E t \in Clients :
                  pc'[t] = "store_auth" /\ call'[t].uri = u /\ call'[t].arg = authHandlers'[u]
  <2>1. CASE \E e \in EndpointAddrs :
               endpoint[e] # Null /\ endpoint[e].uri = u /\ endpoint[e].auth = authHandlers[u]
    BY <2>1
  <2>2. ASSUME NEW t \in Clients,
               pc[t] = "store_auth", call[t].uri = u, call[t].arg = authHandlers[u]
        PROVE  pc'[t] = "store_auth" /\ call'[t].uri = u /\ call'[t].arg = authHandlers'[u]
    BY <2>2
  <2> QED BY <1>2, <2>1, <2>2 DEF Owned
<1>3. ASSUME NEW t \in Clients, pc'[t] = "free"
      PROVE  authHandlers'[endpoint'[Head(endpoints')].uri] = Null
  <2>1. pc[t] = "free" /\ endpoints' = endpoints
    BY <1>3
  <2> QED BY <2>1 DEF Owned
<1>4. /\ \A e \in EndpointAddrs : endpoint'[e] # Null /\ endpoint'[e].auth # Null =>
           auth'[endpoint'[e].auth] # Null
      /\ \A e, f \in EndpointAddrs :
           endpoint'[e] # Null /\ endpoint'[f] # Null /\ endpoint'[e].auth # Null
             /\ endpoint'[e].auth = endpoint'[f].auth => e = f
  BY DEF Owned
<1> QED BY <1>1, <1>2, <1>3, <1>4 DEF Owned

\* A step that leaves the credentials and the authorization handlers alone.
LEMMA SameGuarded ==
  ASSUME Guarded, UNCHANGED <<endpoint, auth, accepted, authHandlers, waits>>,
         \A u \in Uris : handlers'[u] = handlers[u] \/ handlers'[u] = Null,
         \A t \in Clients :
           \/ pc[t] # "store_auth" /\ call'[t] = Null
           \/ pc'[t] = pc[t] /\ call'[t] = call[t]
           \/ call'[t] = call[t] /\ {pc[t], pc'[t]} \cap {"install_auth", "store_auth"} = {},
         \A w \in Workers :
           \/ request'[w] = Null /\ pc'[w] # "serve"
           \/ request'[w] = request[w] /\ valid'[w] = valid[w] /\ (pc'[w] = "serve" => pc[w] = "serve")
  PROVE  Guarded'
<1>1. \A u \in Uris : accepted'[u] # Credentials =>
        \E e \in EndpointAddrs :
          endpoint'[e] # Null /\ endpoint'[e].uri = u /\ endpoint'[e].auth # Null
  BY DEF Guarded
<1>2. ASSUME NEW u \in Uris, handlers'[u] # Null, authHandlers'[u] # Null,
             auth'[authHandlers'[u]] \notin accepted'[u]
      PROVE  \E t \in Clients :
               pc'[t] = "store_auth" /\ call'[t].uri = u /\ call'[t].arg = authHandlers'[u]
  <2>1. PICK t \in Clients :
          pc[t] = "store_auth" /\ call[t].uri = u /\ call[t].arg = authHandlers[u]
    BY <1>2 DEF Guarded
  <2> QED BY <2>1
<1>3. \A u \in Uris : handlers'[u] # Null /\ authHandlers'[u] = Null => accepted'[u] = Credentials
  BY DEF Guarded
<1>4. \A w \in Workers : request'[w] # Null =>
        IF authHandlers'[request'[w].uri] = Null THEN Credentials \subseteq valid'[w]
        ELSE auth'[authHandlers'[request'[w].uri]] \in valid'[w]
  BY DEF Guarded
<1>5. ASSUME NEW w \in Workers, NEW t \in Clients, request'[w] # Null, call'[t] # Null,
             call'[t].op = "auth", call'[t].uri = request'[w].uri
      PROVE  Password(t)' \in valid'[w]
  <2>1. request'[w] = request[w] /\ valid'[w] = valid[w] /\ call'[t] = call[t]
    BY <1>5
  <2>2. Password(t)' = Password(t)
    BY <1>5, <2>1 DEF Password
  <2> QED BY <1>5, <2>1, <2>2 DEF Guarded
<1>6. GuardKept'
  <2> SUFFICES ASSUME waits, NEW w \in Workers, pc'[w] = "serve"
               PROVE  request'[w].cred \in valid'[w]
    BY DEF GuardKept
  <2> QED BY DEF Guarded, GuardKept
<1> QED BY <1>1, <1>2, <1>3, <1>4, <1>5, <1>6 DEF Guarded

\* A step that leaves requests and authorization handlers alone.
LEMMA SameAsking ==
  ASSUME Asking, UNCHANGED <<asked, waits, authHandlers, request>>,
         \A w \in Workers : pc'[w] = pc[w]
  PROVE  Asking'
BY DEF Asking

\* A step that leaves what is registered alone.
LEMMA SameWanted ==
  ASSUME Wanted, UNCHANGED <<endpoint, exposed, wanted>>
  PROVE  Wanted'
BY DEF Wanted

-----------------------------------------------------------------------------
(* The steps of the Exposer's functions.                                   *)

\* A call becomes known: from now on a request may show its password.
LEMMA CallGuards ==
  ASSUME Inductive, NEW t \in Clients, NEW c \in Calls,
         \A s \in Clients : pc[s] = "idle" /\ call[s] = Null,
         call' = [call EXCEPT ![t] = c], pc' = [pc EXCEPT ![t] = pc'[t]],
         pc'[t] \notin {"install_auth", "store_auth"}, valid' = Opens(c),
         UNCHANGED <<auth, authHandlers, waits, handlers, request, accepted>>,
         \A e \in EndpointAddrs : endpoint[e] # Null => endpoint'[e] = endpoint[e]
  PROVE  Guarded'
<1>1. /\ DOMAIN call = Clients /\ DOMAIN pc = Threads /\ Threads = Clients \cup Workers
      /\ \A w \in Workers : pc'[w] = pc[w]
      /\ \A s \in Clients : s # t => call'[s] = Null
      /\ call'[t] = c
  BY ExposerThreads DEF Inductive, TypeOK, Threads
<1>2. \A w \in Workers : valid[w] \subseteq valid'[w]
  BY DEF Opens
<1>3. \A u \in Uris : accepted'[u] # Credentials =>
        \E e \in EndpointAddrs :
          endpoint'[e] # Null /\ endpoint'[e].uri = u /\ endpoint'[e].auth # Null
  <2> SUFFICES ASSUME NEW u \in Uris, accepted'[u] # Credentials
               PROVE  \E e \in EndpointAddrs :
                        endpoint'[e] # Null /\ endpoint'[e].uri = u /\ endpoint'[e].auth # Null
    OBVIOUS
  <2>1. PICK e \in EndpointAddrs :
          endpoint[e] # Null /\ endpoint[e].uri = u /\ endpoint[e].auth # Null
    BY DEF Inductive, Guarded
  <2> QED BY <2>1
<1>4. \A u \in Uris : handlers'[u] # Null =>
        IF authHandlers'[u] = Null THEN accepted'[u] = Credentials
        ELSE auth'[authHandlers'[u]] \in accepted'[u]
  BY DEF Inductive, Guarded
<1>5. \A w \in Workers : request'[w] # Null =>
        IF authHandlers'[request'[w].uri] = Null THEN Credentials \subseteq valid'[w]
        ELSE auth'[authHandlers'[request'[w].uri]] \in valid'[w]
  BY <1>2 DEF Inductive, Guarded
<1>6. ASSUME NEW w \in Workers, NEW s \in Clients, request'[w] # Null, call'[s] # Null,
             call'[s].op = "auth", call'[s].uri = request'[w].uri
      PROVE  Password(s)' \in valid'[w]
  <2>1. s = t
    BY <1>1, <1>6
  <2>2. Password(s)' = c.arg
    BY <1>1, <2>1 DEF Password
  <2>3. valid'[w] = valid[w] \cup {c.arg}
    BY <1>1, <1>6, <2>1 DEF Opens
  <2> QED BY <2>2, <2>3
<1>7. GuardKept'
  <2> SUFFICES ASSUME waits, NEW w \in Workers, pc'[w] = "serve"
               PROVE  request'[w].cred \in valid'[w]
    BY DEF GuardKept
  <2> QED BY <1>1, <1>2 DEF Inductive, Guarded, GuardKept
<1> QED BY <1>3, <1>4, <1>5, <1>6, <1>7 DEF Guarded

\* GetEndpointForUri finds the endpoint.
LEMMA CallFindsStep ==
  ASSUME Inductive, NEW t \in Clients, NEW c \in Calls, CallFinds(t, c)
  PROVE  Inductive'
<1>1. /\ pc' = [pc EXCEPT ![t] = c.op] /\ call' = [call EXCEPT ![t] = c] /\ valid' = Opens(c)
      /\ mutex = NoThread /\ mutex' = t /\ ~ gone
      /\ UNCHANGED <<endpoints, gone, endpoint, exposed, auth, handlers, authHandlers, request,
                     pinned, asked, waits, accepted, wanted>>
  BY DEF CallFinds, Locks, Goto, objectVars, serverVars
<1>2. /\ c.op \in {"register", "remove", "auth"} /\ c.uri \in Uris
      /\ c.op \in {"register", "remove"} => c.arg \in Collectables
      /\ c.op = "auth" => c.arg \in Passwords
      /\ c # Null
  BY ExposerRecords DEF Calls, PendingCalls
<1>3. PICK e \in EndpointAddrs :
        /\ reached' = [reached EXCEPT ![t] = e]
        /\ endpoint[e] # Null /\ endpoint[e].uri = c.uri
  BY <1>2, EndpointFound DEF CallFinds
<1>4. \A s \in Clients : pc[s] = "idle" /\ call[s] = Null
  BY <1>1, NobodyInside
<1>5. /\ DOMAIN pc = Threads /\ DOMAIN call = Clients /\ DOMAIN reached = Clients
      /\ \A w \in Workers : w # t /\ w \in Threads /\ pc'[w] = pc[w]
      /\ \A s \in Clients : s # t => pc'[s] = "idle" /\ call'[s] = Null /\ reached'[s] = reached[s]
      /\ pc'[t] = c.op /\ call'[t] = c /\ reached'[t] = e /\ t \in Threads
  BY <1>1, <1>3, <1>4, ExposerThreads DEF Inductive, TypeOK, Threads
<1>6. TypeOK'
  <2>1. valid' \in [Workers -> SUBSET Credentials]
    BY <1>1, <1>2 DEF Inductive, TypeOK, Opens, Credentials
  <2>2. call' \in [Clients -> PendingCalls \cup {Null}]
    BY <1>1 DEF Inductive, TypeOK, PendingCalls
  <2>3. pc' \in [Threads -> Locations]
    BY <1>1, <1>2 DEF Inductive, TypeOK, Locations
  <2>4. \A s \in Clients : call'[s] # Null => mutex' = s
    BY <1>1, <1>5
  <2> QED BY <1>1, <1>3, <2>1, <2>2, <2>3, <2>4 DEF Inductive, TypeOK
<1>7. Places'
  <2>1. \A s \in Clients : pc'[s] # "idle" => s = t /\ pc'[s] \in InCall
    BY <1>2, <1>5 DEF InCall
  <2>2. \A s \in Clients : pc'[s] \notin InDestructor
    BY <2>1 DEF InCall, InDestructor
  <2> QED BY <1>1, <1>5, <2>1, <2>2 DEF Inductive, Places
<1>8. Reaches'
  <2>1. \A s \in Clients : s # t => pc'[s] \notin InCall /\ call'[s] = Null
    BY <1>5 DEF InCall
  <2> QED BY <1>1, <1>2, <1>3, <1>5, <2>1 DEF Reaches, InCall
<1>9. Listed' /\ Installed' /\ Owned' /\ Wanted'
  <2>1. Listed'
    BY <1>1, <1>2, <1>4, <1>5, SameListed DEF Inductive
  <2>2. Installed'
    BY <1>1, <1>2, <1>5, SameInstalled DEF Inductive
  <2>3. Owned'
    BY <1>1, <1>2, <1>4, <1>5, SameOwned DEF Inductive
  <2> QED BY <1>1, <2>1, <2>2, <2>3, SameWanted DEF Inductive
<1>10. Guarded'
  BY <1>1, <1>2, <1>4, <1>5, CallGuards
<1>11. Asking'
  BY <1>1, <1>5, SameAsking DEF Inductive
<1> QED BY <1>6, <1>7, <1>8, <1>9, <1>10, <1>11 DEF Inductive

\* GetEndpointForUri builds it.
LEMMA CallBuildsStep ==
  ASSUME Inductive, NEW t \in Clients, NEW c \in Calls, CallBuilds(t, c)
  PROVE  Inductive'
<1>1. /\ pc' = [pc EXCEPT ![t] = "install"] /\ call' = [call EXCEPT ![t] = c] /\ valid' = Opens(c)
      /\ mutex = NoThread /\ mutex' = t /\ ~ gone /\ EndpointOf(c.uri) = {}
      /\ UNCHANGED <<endpoints, gone, auth, handlers, authHandlers, request, pinned, asked, waits,
                     accepted, wanted>>
  BY DEF CallBuilds, Locks, Goto, serverVars
<1>2. /\ c.uri \in Uris /\ c # Null
      /\ c.op \in {"register", "remove"} => c.arg \in Collectables
      /\ c.op = "auth" => c.arg \in Passwords
  BY ExposerRecords DEF Calls, PendingCalls
<1> DEFINE new == [uri |-> c.uri, auth |-> Null]
<1>3. PICK e \in EndpointAddrs :
        /\ endpoint[e] = Null /\ endpoint' = [endpoint EXCEPT ![e] = new]
        /\ exposed' = [exposed EXCEPT ![e] = {Own}] /\ reached' = [reached EXCEPT ![t] = e]
  BY DEF CallBuilds, RegistersOwn
<1>4. \A s \in Clients : pc[s] = "idle" /\ call[s] = Null
  BY <1>1, NobodyInside
<1>5. /\ DOMAIN pc = Threads /\ DOMAIN call = Clients /\ DOMAIN reached = Clients
      /\ \A w \in Workers : w # t /\ w \in Threads /\ pc'[w] = pc[w]
      /\ \A s \in Clients : s # t => pc'[s] = "idle" /\ call'[s] = Null
      /\ pc'[t] = "install" /\ call'[t] = c /\ reached'[t] = e /\ t \in Threads
  BY <1>1, <1>3, <1>4, ExposerThreads DEF Inductive, TypeOK, Threads
<1>6. /\ new \in Endpoints /\ new # Null /\ new.uri = c.uri /\ new.auth = Null
  BY <1>2, ExposerRecords DEF Endpoints
<1>7. /\ endpoint'[e] = new /\ exposed'[e] = {Own}
      /\ \A f \in EndpointAddrs : f # e => endpoint'[f] = endpoint[f] /\ exposed'[f] = exposed[f]
  BY <1>3 DEF Inductive, TypeOK
<1>8. \A f \in EndpointAddrs : endpoint[f] # Null =>
        f # e /\ f \in Elements(endpoints) /\ endpoint[f].uri # c.uri
  <2>1. \A f \in EndpointAddrs : endpoint[f] # Null => f # e /\ f \in Elements(endpoints)
    BY <1>3, <1>4 DEF Inductive, Listed
  <2> QED BY <1>1, <1>2, <2>1, EndpointFound
<1>9. TypeOK'
  <2>1. valid' \in [Workers -> SUBSET Credentials]
    BY <1>1, <1>2 DEF Inductive, TypeOK, Opens, Credentials
  <2>2. call' \in [Clients -> PendingCalls \cup {Null}]
    BY <1>1 DEF Inductive, TypeOK, PendingCalls
  <2>3. pc' \in [Threads -> Locations]
    BY <1>1 DEF Inductive, TypeOK, Locations
  <2>4. \A s \in Clients : call'[s] # Null => mutex' = s
    BY <1>1, <1>5
  <2>5. endpoint' \in [EndpointAddrs -> Endpoints \cup {Null}]
    BY <1>3, <1>6 DEF Inductive, TypeOK
  <2>6. exposed' \in [EndpointAddrs -> SUBSET (Collectables \cup {Own})]
    BY <1>3 DEF Inductive, TypeOK
  <2> QED BY <1>1, <1>3, <2>1, <2>2, <2>3, <2>4, <2>5, <2>6 DEF Inductive, TypeOK
<1>10. Places'
  <2>1. \A s \in Clients : pc'[s] # "idle" => s = t /\ pc'[s] \in InCall
    BY <1>5 DEF InCall
  <2>2. \A s \in Clients : pc'[s] \notin InDestructor
    BY <2>1 DEF InCall, InDestructor
  <2> QED BY <1>1, <1>5, <2>1, <2>2 DEF Inductive, Places
<1>11. Reaches'
  <2>1. \A s \in Clients : s # t => pc'[s] \notin InCall /\ call'[s] = Null
    BY <1>5 DEF InCall
  <2> QED BY <1>2, <1>5, <1>6, <1>7, <2>1 DEF Reaches, InCall
<1>12. Listed'
  <2>1. Elements(endpoints)' = Elements(endpoints) /\ Distinct(endpoints)'
    BY <1>1 DEF Inductive, Listed, Distinct, Elements
  <2>2. e \notin Elements(endpoints) /\ Elements(endpoints) \subseteq EndpointAddrs
    BY <1>3 DEF Inductive, TypeOK, Listed, Elements
  <2>3. \A f \in Elements(endpoints) : endpoint'[f] # Null
    BY <1>7, <2>2 DEF Inductive, Listed
  <2>4. \A f \in EndpointAddrs : endpoint'[f] # Null => f \in Elements(endpoints) \/ f = reached'[t]
    BY <1>5, <1>7, <1>8
  <2>5. \A f, g \in EndpointAddrs :
          endpoint'[f] # Null /\ endpoint'[g] # Null /\ endpoint'[f].uri = endpoint'[g].uri => f = g
    BY <1>6, <1>7, <1>8 DEF Inductive, Listed
  <2>6. \A s \in Clients : pc'[s] \in {"install", "append"} => s = t
    BY <1>5
  <2>7. \A s \in Clients : pc'[s] \notin {"unguard", "free"}
    BY <1>5
  <2> QED BY <1>5, <1>6, <1>7, <2>1, <2>2, <2>3, <2>4, <2>5, <2>6, <2>7 DEF Listed
<1>13. Installed'
  <2>1. \A u \in Uris : handlers'[u] # Null =>
          endpoint'[handlers'[u]] # Null /\ endpoint'[handlers'[u]].uri = u
    <3> SUFFICES ASSUME NEW u \in Uris, handlers[u] # Null
                 PROVE  endpoint'[handlers[u]] # Null /\ endpoint'[handlers[u]].uri = u
      BY <1>1
    <3>1. handlers[u] \in EndpointAddrs /\ endpoint[handlers[u]] # Null /\ endpoint[handlers[u]].uri = u
      BY DEF Inductive, TypeOK, Installed
    <3> QED BY <1>7, <1>8, <3>1
  <2>2. \A s \in Clients : pc'[s] \notin {"unguard", "free"}
    BY <1>5
  <2> QED BY <1>1, <1>5, <2>1, <2>2 DEF Inductive, Installed
<1>14. Owned'
  <2>1. \A f \in EndpointAddrs : endpoint'[f] # Null /\ endpoint'[f].auth # Null =>
          endpoint[f] # Null /\ endpoint'[f] = endpoint[f]
    BY <1>6, <1>7
  <2>2. \A f, g \in EndpointAddrs :
          endpoint'[f] # Null /\ endpoint'[g] # Null /\ endpoint'[f].auth # Null
            /\ endpoint'[f].auth = endpoint'[g].auth => f = g
    BY <2>1 DEF Inductive, Owned
  <2>3. \A s \in Clients : pc'[s] \notin {"install_auth", "store_auth", "free"}
    BY <1>5
  <2>4. \A u \in Uris : authHandlers[u] # Null =>
          \E f \in EndpointAddrs :
            endpoint'[f] # Null /\ endpoint'[f].uri = u /\ endpoint'[f].auth = authHandlers[u]
    <3> SUFFICES ASSUME NEW u \in Uris, authHandlers[u] # Null
                 PROVE  \E f \in EndpointAddrs :
                   endpoint'[f] # Null /\ endpoint'[f].uri = u /\ endpoint'[f].auth = authHandlers[u]
      OBVIOUS
    <3>1. PICK f \in EndpointAddrs :
            endpoint[f] # Null /\ endpoint[f].uri = u /\ endpoint[f].auth = authHandlers[u]
      BY <1>4 DEF Inductive, Owned
    <3>2. endpoint'[f] = endpoint[f]
      BY <1>7, <1>8, <3>1
    <3> QED BY <3>1, <3>2
  <2>5. \A f \in EndpointAddrs : endpoint'[f] # Null /\ endpoint'[f].auth # Null =>
          auth'[endpoint'[f].auth] # Null
    BY <1>1, <2>1 DEF Inductive, Owned
  <2> QED BY <1>1, <2>2, <2>3, <2>4, <2>5 DEF Owned
<1>15. Guarded'
  BY <1>1, <1>4, <1>5, <1>7, <1>8, CallGuards
<1>16. Wanted'
  <2>1. wanted[c.uri] = {}
    BY <1>2, <1>8 DEF Inductive, Wanted
  <2>2. ASSUME NEW f \in EndpointAddrs, endpoint'[f] # Null
        PROVE  exposed'[f] = wanted'[endpoint'[f].uri] \cup {Own}
    BY <1>1, <1>6, <1>7, <2>1, <2>2 DEF Inductive, Wanted
  <2>3. ASSUME NEW u \in Uris, wanted'[u] # {}
        PROVE  \E f \in EndpointAddrs : endpoint'[f] # Null /\ endpoint'[f].uri = u
    <3>1. PICK f \in EndpointAddrs : endpoint[f] # Null /\ endpoint[f].uri = u
      BY <1>1, <2>3 DEF Inductive, Wanted
    <3> QED BY <1>7, <1>8, <3>1
  <2> QED BY <2>2, <2>3 DEF Wanted
<1>17. Asking'
  BY <1>1, <1>5, SameAsking DEF Inductive
<1> QED BY <1>9, <1>10, <1>11, <1>12, <1>13, <1>14, <1>15, <1>16, <1>17 DEF Inductive

\* CivetServer::addHandler, from the constructor of Endpoint.
LEMMA InstallsHandlerStep ==
  ASSUME Inductive, NEW t \in Clients, InstallsHandler(t)
  PROVE  Inductive'
<1> DEFINE u == call[t].uri
<1>1. /\ pc' = [pc EXCEPT ![t] = "append"] /\ pc[t] = "install" /\ Unused(u)
      /\ handlers' = [handlers EXCEPT ![u] = reached[t]]
      /\ UNCHANGED <<endpoints, mutex, gone, endpoint, exposed, auth, authHandlers, call, reached,
                     request, pinned, asked, waits, valid, accepted, wanted>>
  BY DEF InstallsHandler, Goto, objectVars, requestVars
<1>2. \A s \in Clients : s # t => pc[s] = "idle" /\ call[s] = Null
  BY <1>1, Alone
<1>3. /\ call[t] \in Calls /\ call[t] # Null /\ u \in Uris /\ mutex = t
      /\ reached[t] \in EndpointAddrs /\ endpoint[reached[t]] # Null
      /\ endpoint[reached[t]].uri = u /\ endpoint[reached[t]].auth = Null /\ reached[t] # Null
  BY <1>1, ExposerObjects DEF Inductive, Places, Reaches, Listed, InCall, Calls
<1>4. /\ DOMAIN pc = Threads /\ DOMAIN handlers = Uris
      /\ \A w \in Workers : w # t /\ w \in Threads /\ pc'[w] = pc[w]
      /\ \A s \in Clients : s # t => pc'[s] = "idle"
      /\ pc'[t] = "append" /\ t \in Threads /\ handlers'[u] = reached[t]
      /\ \A v \in Uris : v # u => handlers'[v] = handlers[v]
  BY <1>1, <1>2, <1>3, ExposerThreads DEF Inductive, TypeOK, Threads
<1>5. TypeOK'
  <2>1. pc' \in [Threads -> Locations]
    BY <1>1 DEF Inductive, TypeOK, Locations
  <2> QED BY <1>1, <1>3, <2>1 DEF Inductive, TypeOK
<1>6. Places'
  BY <1>1, <1>2, <1>4 DEF Inductive, Places, InCall, InDestructor
<1>7. Reaches'
  BY <1>1, <1>2, <1>3, <1>4 DEF Inductive, Reaches, InCall
<1>8. Listed' /\ Owned' /\ Wanted'
  <2>1. Listed'
    BY <1>1, <1>2, <1>4, SameListed DEF Inductive
  <2>2. Owned'
    BY <1>1, <1>2, <1>4, SameOwned DEF Inductive
  <2> QED BY <1>1, <2>1, <2>2, SameWanted DEF Inductive
<1>9. \A w \in Workers : request[w] # Null => request[w] \in Requests /\ request[w].uri # u
  BY <1>1 DEF Inductive, TypeOK, Installed, Unused
<1>10. Installed'
  <2>1. \A v \in Uris : handlers'[v] # Null =>
          endpoint'[handlers'[v]] # Null /\ endpoint'[handlers'[v]].uri = v
    BY <1>1, <1>3, <1>4 DEF Inductive, Installed
  <2>2. \A w \in Workers : request'[w] # Null => pinned'[w] = handlers'[request'[w].uri]
    BY <1>1, <1>4, <1>9 DEF Inductive, Installed, Requests
  <2>3. \A s \in Clients : pc'[s] \notin {"unguard", "free"}
    BY <1>4
  <2> QED BY <1>1, <1>4, <2>1, <2>2, <2>3 DEF Inductive, Installed
<1>11. Guarded'
  <2>1. authHandlers[u] = Null
    <3>1. \A s \in Clients : pc[s] # "store_auth"
      BY <1>1, <1>2
    <3> QED BY <1>3, <3>1 DEF Inductive, Owned, Listed
  <2>2. accepted[u] = Credentials
    BY <1>3 DEF Inductive, Guarded, Listed
  <2>3. \A v \in Uris : handlers'[v] # Null =>
          IF authHandlers[v] = Null THEN accepted[v] = Credentials
          ELSE \/ auth[authHandlers[v]] \in accepted[v]
               \/ \E s \in Clients :
                    pc'[s] = "store_auth" /\ call[s].uri = v /\ call[s].arg = authHandlers[v]
    BY <1>1, <1>2, <1>4, <2>1, <2>2 DEF Inductive, Guarded
  <2>4. \A w \in Workers, s \in Clients :
          request[w] # Null /\ call[s] # Null /\ call[s].op = "auth" /\ call[s].uri = request[w].uri
            => s = t /\ FALSE
    BY <1>2, <1>9
  <2>5. GuardKept'
    BY <1>1, <1>4 DEF Inductive, Guarded, GuardKept
  <2> QED BY <1>1, <2>3, <2>4, <2>5 DEF Inductive, Guarded
<1>12. Asking'
  BY <1>1, <1>4, SameAsking DEF Inductive
<1> QED BY <1>5, <1>6, <1>7, <1>8, <1>10, <1>11, <1>12 DEF Inductive

\* endpoints_.push_back.
LEMMA AppendsEndpointStep ==
  ASSUME Inductive, NEW t \in Clients, AppendsEndpoint(t)
  PROVE  Inductive'
<1> DEFINE op == call[t].op
<1>1. /\ pc' = [pc EXCEPT ![t] = op] /\ pc[t] = "append"
      /\ endpoints' = Append(endpoints, reached[t])
      /\ UNCHANGED <<mutex, gone, endpoint, exposed, auth, handlers, authHandlers, call, reached,
                     request, pinned, asked, waits, valid, accepted, wanted>>
  BY DEF AppendsEndpoint, Goto, objectVars, serverVars, requestVars
<1>2. \A s \in Clients : s # t => pc[s] = "idle" /\ call[s] = Null
  BY <1>1, Alone
<1>3. /\ call[t] \in Calls /\ call[t] # Null /\ op \in {"register", "remove", "auth"}
      /\ op \in {"register", "remove"} => call[t].arg \in Collectables
      /\ reached[t] \in EndpointAddrs /\ endpoint[reached[t]] # Null
      /\ endpoint[reached[t]].uri = call[t].uri /\ reached[t] \notin Elements(endpoints)
  BY <1>1 DEF Inductive, Places, Reaches, Listed, InCall, Calls
<1>4. /\ DOMAIN pc = Threads
      /\ \A w \in Workers : w # t /\ w \in Threads /\ pc'[w] = pc[w]
      /\ \A s \in Clients : s # t => pc'[s] = "idle"
      /\ pc'[t] = op /\ t \in Threads
  BY <1>1, <1>2, ExposerThreads DEF Inductive, TypeOK, Threads
<1>5. /\ endpoints' \in Seq(EndpointAddrs) /\ Distinct(endpoints')
      /\ Elements(endpoints') = Elements(endpoints) \cup {reached[t]}
  BY <1>1, <1>3, AppendElements DEF Inductive, TypeOK, Listed
<1>6. TypeOK'
  <2>1. pc' \in [Threads -> Locations]
    BY <1>1, <1>3 DEF Inductive, TypeOK, Locations
  <2> QED BY <1>1, <1>5, <2>1 DEF Inductive, TypeOK
<1>7. Places'
  <2>1. pc'[t] \in InCall /\ pc'[t] \notin InDestructor /\ pc[t] \in InCall
    BY <1>1, <1>3, <1>4 DEF InCall, InDestructor
  <2>2. \A s \in Clients : pc'[s] # "idle" => s = t
    BY <1>4
  <2>3. "idle" \notin InCall \cup InDestructor
    BY DEF InCall, InDestructor
  <2> QED BY <1>1, <1>4, <2>1, <2>2, <2>3 DEF Inductive, Places
<1>8. Reaches'
  <2>1. \A s \in Clients : s # t => pc'[s] \notin InCall /\ call'[s] = Null
    BY <1>1, <1>2, <1>4 DEF InCall
  <2> QED BY <1>1, <1>3, <1>4, <2>1 DEF Reaches, InCall
<1>9. Listed'
  <2>1. Elements(endpoints)' = Elements(endpoints') /\ Distinct(endpoints)' = Distinct(endpoints')
    BY DEF Elements, Distinct
  <2>2. \A s \in Clients : pc'[s] \notin {"install", "append", "unguard", "free"}
    BY <1>3, <1>4
  <2>3. \A e \in EndpointAddrs : endpoint[e] # Null => e \in Elements(endpoints')
    BY <1>2, <1>5 DEF Inductive, Listed
  <2>4. \A e \in Elements(endpoints') : endpoint[e] # Null
    BY <1>3, <1>5 DEF Inductive, Listed
  <2> QED BY <1>1, <1>5, <2>1, <2>2, <2>3, <2>4 DEF Inductive, Listed
<1>10. Installed' /\ Owned' /\ Guarded' /\ Wanted'
  <2>1. Installed'
    BY <1>1, <1>3, <1>4, SameInstalled DEF Inductive
  <2>2. Owned'
    BY <1>1, <1>2, <1>3, <1>4, SameOwned DEF Inductive
  <2>3. Guarded'
    BY <1>1, <1>2, <1>3, <1>4, SameGuarded DEF Inductive
  <2> QED BY <1>1, <2>1, <2>2, <2>3, SameWanted DEF Inductive
<1>11. Asking'
  BY <1>1, <1>4, SameAsking DEF Inductive
<1> QED BY <1>6, <1>7, <1>8, <1>9, <1>10, <1>11 DEF Inductive

\* RegisterCollectable and RemoveCollectable of the endpoint's MetricsHandler.
LEMMA RegistersStep ==
  ASSUME Inductive, NEW t \in Clients, Registers(t) \/ Removes(t)
  PROVE  Inductive'
<1> DEFINE u == call[t].uri
           r == reached[t]
<1>1. /\ pc' = [pc EXCEPT ![t] = "idle"] /\ pc[t] \in {"register", "remove"}
      /\ mutex' = NoThread /\ call' = [call EXCEPT ![t] = Null]
      /\ reached' = [reached EXCEPT ![t] = Null]
      /\ UNCHANGED <<endpoints, gone, endpoint, auth, handlers, authHandlers, request, pinned, asked, waits,
                     valid, accepted>>
  BY DEF Registers, Removes, Return, Goto, serverVars, requestVars
<1>2. \A s \in Clients : s # t => pc[s] = "idle" /\ call[s] = Null
  BY <1>1, Alone
<1>3. /\ call[t] \in Calls /\ u \in Uris /\ call[t].arg \in Collectables
      /\ r \in EndpointAddrs /\ endpoint[r] # Null /\ endpoint[r].uri = u
  BY <1>1 DEF Inductive, Reaches, InCall, Calls
<1>4. /\ DOMAIN pc = Threads /\ DOMAIN call = Clients
      /\ \A w \in Workers : w # t /\ w \in Threads /\ pc'[w] = pc[w]
      /\ \A s \in Clients : pc'[s] = "idle" /\ call'[s] = Null
  BY <1>1, <1>2, ExposerThreads DEF Inductive, TypeOK, Threads
<1>5. PICK S \in SUBSET Collectables :
        /\ wanted' = [wanted EXCEPT ![u] = S] /\ exposed' = [exposed EXCEPT ![r] = S \cup {Own}]
  <2>1. exposed[r] = wanted[u] \cup {Own} /\ wanted[u] \subseteq Collectables
    BY <1>3 DEF Inductive, Wanted, TypeOK
  <2>2. CASE Registers(t)
    <3> DEFINE S == wanted[u] \cup {call[t].arg}
    <3>1. exposed[r] \cup {call[t].arg} = S \cup {Own} /\ S \subseteq Collectables
      BY <1>3, <2>1
    <3> QED BY <2>2, <3>1 DEF Registers
  <2>3. CASE Removes(t)
    <3> DEFINE S == wanted[u] \ {call[t].arg}
    <3>1. exposed[r] \ {call[t].arg} = S \cup {Own} /\ S \subseteq Collectables
      BY <1>3, <2>1, ExposerObjects
    <3> QED BY <2>3, <3>1 DEF Removes
  <2> QED BY <2>2, <2>3
<1>6. TypeOK'
  <2>1. pc' \in [Threads -> Locations]
    BY <1>1 DEF Inductive, TypeOK, Locations
  <2>2. /\ exposed' \in [EndpointAddrs -> SUBSET (Collectables \cup {Own})]
        /\ wanted' \in [Uris -> SUBSET Collectables]
    BY <1>5 DEF Inductive, TypeOK
  <2> QED BY <1>1, <1>4, <2>1, <2>2 DEF Inductive, TypeOK
<1>7. Places' /\ Reaches'
  BY <1>4, <1>1 DEF Inductive, Places, Reaches, InCall, InDestructor
<1>8. Listed' /\ Installed' /\ Owned' /\ Guarded'
  <2>1. Listed'
    BY <1>1, <1>2, <1>4, SameListed DEF Inductive
  <2>2. Installed'
    BY <1>1, <1>4, SameInstalled DEF Inductive
  <2>3. Owned'
    BY <1>1, <1>2, <1>4, SameOwned DEF Inductive
  <2>4. Guarded'
    BY <1>1, <1>2, <1>4, SameGuarded DEF Inductive
  <2> QED BY <2>1, <2>2, <2>3, <2>4
<1>9. Wanted'
  <2>1. ASSUME NEW e \in EndpointAddrs, endpoint[e] # Null
        PROVE  exposed'[e] = wanted'[endpoint[e].uri] \cup {Own}
    <3>1. CASE e = r
      BY <1>3, <1>5, <3>1 DEF Inductive, TypeOK
    <3>2. CASE e # r
      <4>1. endpoint[e].uri # u
        BY <1>3, <2>1, <3>2 DEF Inductive, Listed
      <4> QED BY <1>3, <1>5, <2>1, <3>2, <4>1 DEF Inductive, TypeOK, Wanted
    <3> QED BY <3>1, <3>2
  <2>2. \A v \in Uris : wanted'[v] # {} => \E e \in EndpointAddrs : endpoint[e] # Null /\ endpoint[e].uri = v
    BY <1>3, <1>5 DEF Inductive, TypeOK, Wanted
  <2> QED BY <1>1, <2>1, <2>2 DEF Wanted
<1>10. Asking'
  BY <1>1, <1>4, SameAsking DEF Inductive
<1> QED BY <1>6, <1>7, <1>8, <1>9, <1>10 DEF Inductive

-----------------------------------------------------------------------------
(* Endpoint::RegisterAuth.                                                 *)

\* The new handler is nobody's yet.
LEMMA CreatesAuthStep ==
  ASSUME Inductive, NEW t \in Clients, CreatesAuth(t)
  PROVE  Inductive'
<1>1. PICK a \in AuthAddrs :
        auth[a] = Null /\ auth' = [auth EXCEPT ![a] = call[t].arg]
        /\ call' = [call EXCEPT ![t].arg = a]
  BY DEF CreatesAuth, OldKept
<1>2. /\ pc' = [pc EXCEPT ![t] = "install_auth"] /\ pc[t] = "auth"
      /\ UNCHANGED <<endpoints, mutex, gone, endpoint, exposed, handlers, authHandlers, reached,
                     request, pinned, asked, waits, valid, accepted, wanted>>
  BY DEF CreatesAuth, AuthStays, Goto, serverVars, requestVars
<1>3. \A s \in Clients : s # t => pc[s] = "idle" /\ call[s] = Null
  BY <1>2, Alone
<1>4. /\ call[t] \in [op : {"auth"}, uri : Uris, arg : Passwords]
      /\ call[t] # Null /\ a # Null /\ call[t].arg # Null
      /\ reached[t] \in EndpointAddrs /\ endpoint[reached[t]] # Null
      /\ endpoint[reached[t]].uri = call[t].uri
  BY <1>2, ExposerObjects DEF Inductive, Reaches, InCall, Calls
<1>5. /\ DOMAIN pc = Threads /\ DOMAIN call = Clients /\ DOMAIN auth = AuthAddrs
      /\ \A w \in Workers : w # t /\ w \in Threads /\ pc'[w] = pc[w]
      /\ \A s \in Clients : s # t => pc'[s] = "idle" /\ call'[s] = Null
      /\ pc'[t] = "install_auth" /\ t \in Threads
  BY <1>1, <1>2, <1>3, ExposerThreads DEF Inductive, TypeOK, Threads
<1>6. /\ call'[t] = [op |-> "auth", uri |-> call[t].uri, arg |-> a]
      /\ call'[t] \in [op : {"auth"}, uri : Uris, arg : AuthAddrs] /\ call'[t] # Null
      /\ call'[t].uri = call[t].uri /\ call'[t].arg = a /\ call'[t].op = "auth"
  <2>1. call'[t] = [op |-> "auth", uri |-> call[t].uri, arg |-> a]
    BY <1>1, <1>4, <1>5
  <2>2. call'[t] \in [op : {"auth"}, uri : Uris, arg : AuthAddrs]
    BY <1>4, <2>1
  <2>3. call'[t] # Null
    BY <2>2, ExposerRecords DEF PendingCalls
  <2> QED BY <2>1, <2>2, <2>3
<1>7. auth'[a] = call[t].arg /\ \A b \in AuthAddrs : b # a => auth'[b] = auth[b]
  BY <1>1, <1>5
<1>8. TypeOK'
  <2>1. pc' \in [Threads -> Locations]
    BY <1>2 DEF Inductive, TypeOK, Locations
  <2>2. auth' \in [AuthAddrs -> Credentials]
    BY <1>1, <1>4 DEF Inductive, TypeOK, Credentials
  <2>3. call' \in [Clients -> PendingCalls \cup {Null}]
    <3>1. call'[t] \in PendingCalls
      BY <1>6 DEF PendingCalls
    <3>2. call' = [call EXCEPT ![t] = call'[t]]
      BY <1>1, <1>5
    <3> QED BY <3>1, <3>2 DEF Inductive, TypeOK
  <2>4. \A s \in Clients : call'[s] # Null => mutex' = s
    BY <1>2, <1>4, <1>5 DEF Inductive, TypeOK
  <2> QED BY <1>2, <2>1, <2>2, <2>3, <2>4 DEF Inductive, TypeOK
<1>9. Places'
  BY <1>2, <1>3, <1>5 DEF Inductive, Places, InCall, InDestructor
<1>10. Reaches'
  <2>1. \A s \in Clients : s # t => pc'[s] \notin InCall /\ call'[s] = Null
    BY <1>5 DEF InCall
  <2> QED BY <1>2, <1>4, <1>5, <1>6, <2>1 DEF Reaches, InCall
<1>11. Listed' /\ Installed' /\ Wanted'
  <2>1. Listed'
    BY <1>2, <1>5, <1>3, SameListed DEF Inductive
  <2>2. Installed'
    BY <1>2, <1>5, SameInstalled DEF Inductive
  <2> QED BY <1>2, <2>1, <2>2, SameWanted DEF Inductive
<1>12. /\ \A u \in Uris : authHandlers[u] # Null =>
            authHandlers[u] # a /\ auth'[authHandlers[u]] = auth[authHandlers[u]]
       /\ \A e \in EndpointAddrs : endpoint[e] # Null /\ endpoint[e].auth # Null =>
            endpoint[e].auth # a /\ auth'[endpoint[e].auth] = auth[endpoint[e].auth]
  <2>1. \A u \in Uris : authHandlers[u] # Null => authHandlers[u] # a /\ authHandlers[u] \in AuthAddrs
    BY <1>1, AuthAlive
  <2>2. \A e \in EndpointAddrs : endpoint[e] # Null /\ endpoint[e].auth # Null =>
          endpoint[e].auth # a /\ endpoint[e].auth \in AuthAddrs
    BY <1>1, EndpointTypes DEF Inductive, Owned
  <2> QED BY <1>7, <2>1, <2>2
<1>13. Owned'
  <2>1. \A s \in Clients : pc'[s] # "idle" => s = t /\ pc'[s] = "install_auth"
    BY <1>5
  <2>2. \A e \in EndpointAddrs : endpoint[e] # Null => endpoint[e].auth # a
    BY <1>4, <1>12
  <2>3. \A u \in Uris : authHandlers[u] # Null =>
          \E e \in EndpointAddrs :
            endpoint[e] # Null /\ endpoint[e].uri = u /\ endpoint[e].auth = authHandlers[u]
    BY <1>2, <1>3 DEF Inductive, Owned
  <2>4. \A e \in EndpointAddrs : endpoint[e] # Null /\ endpoint[e].auth # Null =>
          auth'[endpoint[e].auth] # Null
    BY <1>12 DEF Inductive, Owned
  <2>5. \A e, f \in EndpointAddrs :
          endpoint[e] # Null /\ endpoint[f] # Null /\ endpoint[e].auth # Null
            /\ endpoint[e].auth = endpoint[f].auth => e = f
    BY DEF Inductive, Owned
  <2> QED BY <1>2, <1>4, <1>6, <1>7, <2>1, <2>2, <2>3, <2>4, <2>5 DEF Owned
<1>14. Guarded'
  <2>1. \A u \in Uris : handlers[u] # Null =>
          IF authHandlers[u] = Null THEN accepted[u] = Credentials
          ELSE auth'[authHandlers[u]] \in accepted[u]
    BY <1>2, <1>3, <1>12 DEF Inductive, Guarded
  <2>2. \A w \in Workers : request[w] # Null =>
          IF authHandlers[request[w].uri] = Null THEN Credentials \subseteq valid[w]
          ELSE auth'[authHandlers[request[w].uri]] \in valid[w]
    <3> SUFFICES ASSUME NEW w \in Workers, request[w] # Null
                 PROVE  IF authHandlers[request[w].uri] = Null THEN Credentials \subseteq valid[w]
                        ELSE auth'[authHandlers[request[w].uri]] \in valid[w]
      OBVIOUS
    <3>1. request[w].uri \in Uris
      BY DEF Inductive, TypeOK, Requests
    <3> QED BY <1>12, <3>1 DEF Inductive, Guarded
  <2>3. ASSUME NEW w \in Workers, NEW s \in Clients, request[w] # Null, call'[s] # Null,
               call'[s].uri = request[w].uri
        PROVE  Password(s)' \in valid[w]
    <3>1. s = t /\ Password(s)' = call[t].arg /\ Password(t) = call[t].arg
      BY <1>2, <1>5, <1>6, <1>7, <2>3 DEF Password
    <3> QED BY <1>4, <1>6, <2>3, <3>1 DEF Inductive, Guarded
  <2>4. GuardKept'
    BY <1>2, <1>5 DEF Inductive, Guarded, GuardKept
  <2>5. \A u \in Uris : accepted[u] # Credentials =>
          \E e \in EndpointAddrs :
            endpoint[e] # Null /\ endpoint[e].uri = u /\ endpoint[e].auth # Null
    BY DEF Inductive, Guarded
  <2> QED BY <1>2, <2>1, <2>2, <2>3, <2>4, <2>5 DEF Guarded
<1>15. Asking'
  BY <1>2, <1>5, SameAsking DEF Inductive
<1> QED BY <1>8, <1>9, <1>10, <1>11, <1>13, <1>14, <1>15 DEF Inductive

\* CivetServer::addAuthHandler.
LEMMA InstallsAuthStep ==
  ASSUME Inductive, NEW t \in Clients, InstallsAuth(t)
  PROVE  Inductive'
<1> DEFINE u == call[t].uri
           a == call[t].arg
<1>1. /\ pc' = [pc EXCEPT ![t] = "store_auth"] /\ pc[t] = "install_auth"
      /\ authHandlers' = [authHandlers EXCEPT ![u] = a]
      /\ waits => AuthUnused(u)
      /\ UNCHANGED <<endpoints, mutex, gone, endpoint, exposed, auth, handlers, call, reached,
                     request, pinned, asked, waits, valid, accepted, wanted>>
  BY DEF InstallsAuth, Goto, objectVars, requestVars
<1>2. \A s \in Clients : s # t => pc[s] = "idle" /\ call[s] = Null
  BY <1>1, Alone
<1>3. /\ call[t] \in [op : {"auth"}, uri : Uris, arg : AuthAddrs] /\ call[t] # Null
      /\ u \in Uris /\ a \in AuthAddrs /\ a # Null /\ call[t].op = "auth"
  BY <1>1, ExposerObjects DEF Inductive, Reaches, InCall
<1>4. /\ DOMAIN pc = Threads
      /\ \A w \in Workers : w # t /\ w \in Threads /\ pc'[w] = pc[w]
      /\ \A s \in Clients : s # t => pc'[s] = "idle"
      /\ pc'[t] = "store_auth" /\ t \in Threads
      /\ authHandlers'[u] = a /\ \A v \in Uris : v # u => authHandlers'[v] = authHandlers[v]
  BY <1>1, <1>2, <1>3, ExposerThreads DEF Inductive, TypeOK, Threads
<1>5. TypeOK'
  <2>1. pc' \in [Threads -> Locations]
    BY <1>1 DEF Inductive, TypeOK, Locations
  <2> QED BY <1>1, <1>3, <2>1 DEF Inductive, TypeOK
<1>6. Places'
  BY <1>1, <1>2, <1>4 DEF Inductive, Places, InCall, InDestructor
<1>7. Reaches'
  BY <1>1, <1>2, <1>3, <1>4 DEF Inductive, Reaches, InCall
<1>8. Listed' /\ Installed' /\ Wanted'
  <2>1. Listed'
    BY <1>1, <1>2, <1>4, SameListed DEF Inductive
  <2>2. Installed'
    BY <1>1, <1>4, SameInstalled DEF Inductive
  <2> QED BY <1>1, <2>1, <2>2, SameWanted DEF Inductive
<1>9. Owned'
  <2>1. \A s \in Clients : pc'[s] # "idle" => s = t
    BY <1>4
  <2>2. \A v \in Uris : authHandlers'[v] # Null =>
          \/ \E e \in EndpointAddrs :
               endpoint[e] # Null /\ endpoint[e].uri = v /\ endpoint[e].auth = authHandlers'[v]
          \/ pc'[t] = "store_auth" /\ call[t].uri = v /\ call[t].arg = authHandlers'[v]
    BY <1>1, <1>2, <1>4 DEF Inductive, Owned
  <2>3. \A s \in Clients : pc'[s] \in {"install_auth", "store_auth"} =>
          /\ auth[call[s].arg] # Null
          /\ \A e \in EndpointAddrs : endpoint[e] # Null => endpoint[e].auth # call[s].arg
    BY <1>1, <2>1 DEF Inductive, Owned
  <2>4. \A s \in Clients : pc'[s] = "store_auth" => authHandlers'[call[s].uri] = call[s].arg
    BY <1>4, <2>1
  <2>5. \A s \in Clients : pc'[s] # "free"
    BY <1>4
  <2>6. /\ \A e \in EndpointAddrs : endpoint[e] # Null /\ endpoint[e].auth # Null =>
             auth[endpoint[e].auth] # Null
        /\ \A e, f \in EndpointAddrs :
             endpoint[e] # Null /\ endpoint[f] # Null /\ endpoint[e].auth # Null
               /\ endpoint[e].auth = endpoint[f].auth => e = f
    BY DEF Inductive, Owned
  <2> QED BY <1>1, <2>2, <2>3, <2>4, <2>5, <2>6 DEF Owned
<1>10. Guarded'
  <2>1. \A v \in Uris : handlers[v] # Null =>
          IF authHandlers'[v] = Null THEN accepted[v] = Credentials
          ELSE \/ auth[authHandlers'[v]] \in accepted[v]
               \/ pc'[t] = "store_auth" /\ call[t].uri = v /\ call[t].arg = authHandlers'[v]
    BY <1>1, <1>2, <1>3, <1>4 DEF Inductive, Guarded
  <2>2. \A s \in Clients : call[s] # Null => s = t /\ Password(s)' = Password(s) /\ Password(s) = auth[a]
    BY <1>1, <1>2, <1>4 DEF Password
  <2>3. \A w \in Workers : request[w] # Null =>
          IF authHandlers'[request[w].uri] = Null THEN Credentials \subseteq valid[w]
          ELSE auth[authHandlers'[request[w].uri]] \in valid[w]
    <3> SUFFICES ASSUME NEW w \in Workers, request[w] # Null
                 PROVE  IF authHandlers'[request[w].uri] = Null THEN Credentials \subseteq valid[w]
                        ELSE auth[authHandlers'[request[w].uri]] \in valid[w]
      OBVIOUS
    <3>1. request[w].uri \in Uris
      BY DEF Inductive, TypeOK, Requests
    <3>2. CASE request[w].uri = u
      <4>1. Password(t) \in valid[w]
        BY <1>3, <3>2 DEF Inductive, Guarded
      <4> QED BY <1>3, <1>4, <2>2, <3>2, <4>1
    <3>3. CASE request[w].uri # u
      BY <1>4, <3>1, <3>3 DEF Inductive, Guarded
    <3> QED BY <3>2, <3>3
  <2>4. \A w \in Workers, s \in Clients :
          request[w] # Null /\ call[s] # Null /\ call[s].op = "auth" /\ call[s].uri = request[w].uri
            => Password(s)' \in valid[w]
    BY <2>2 DEF Inductive, Guarded
  <2>5. GuardKept'
    BY <1>1, <1>4 DEF Inductive, Guarded, GuardKept
  <2>6. \A v \in Uris : accepted[v] # Credentials =>
          \E e \in EndpointAddrs :
            endpoint[e] # Null /\ endpoint[e].uri = v /\ endpoint[e].auth # Null
    BY DEF Inductive, Guarded
  <2> QED BY <1>1, <2>1, <2>3, <2>4, <2>5, <2>6 DEF Guarded
<1>11. Asking'
  <2>1. ASSUME waits, NEW w \in Workers, asked[w] # Null
        PROVE  asked[w] = authHandlers'[request[w].uri]
    <3>1. asked[w] = authHandlers[request[w].uri]
      BY <2>1 DEF Inductive, Asking
    <3>2. request[w].uri \in Uris
      BY <2>1 DEF Inductive, Asking, Installed, TypeOK, Requests
    <3>3. request[w].uri # u
      BY <1>1, <2>1, <3>1 DEF AuthUnused
    <3> QED BY <1>4, <3>1, <3>2, <3>3
  <2> QED BY <1>1, <1>4, <2>1 DEF Inductive, Asking
<1> QED BY <1>5, <1>6, <1>7, <1>8, <1>9, <1>10, <1>11 DEF Inductive

\* auth_handler_ gets the new handler and destroys the old one.
LEMMA StoresAuthStep ==
  ASSUME Inductive, NEW t \in Clients, StoresAuth(t)
  PROVE  Inductive'
<1> DEFINE u == call[t].uri
           a == call[t].arg
           r == reached[t]
           old == endpoint[r].auth
<1>1. /\ pc' = [pc EXCEPT ![t] = "idle"] /\ pc[t] = "store_auth"
      /\ endpoint' = [endpoint EXCEPT ![r].auth = a]
      /\ auth' = [b \in AuthAddrs |-> IF b = old THEN Null ELSE auth[b]]
      /\ accepted' = [accepted EXCEPT ![u] = {auth[a]}]
      /\ mutex' = NoThread /\ call' = [call EXCEPT ![t] = Null]
      /\ reached' = [reached EXCEPT ![t] = Null]
      /\ UNCHANGED <<endpoints, gone, exposed, handlers, authHandlers, request, pinned, asked, waits,
                     valid, wanted>>
  BY DEF StoresAuth, Return, Goto, serverVars, requestVars
<1>2. \A s \in Clients : s # t => pc[s] = "idle" /\ call[s] = Null
  BY <1>1, Alone
<1>3. /\ call[t] \in [op : {"auth"}, uri : Uris, arg : AuthAddrs]
      /\ u \in Uris /\ a \in AuthAddrs /\ a # Null
      /\ r \in EndpointAddrs /\ endpoint[r] # Null /\ endpoint[r].uri = u
      /\ auth[a] # Null /\ authHandlers[u] = a
      /\ \A e \in EndpointAddrs : endpoint[e] # Null => endpoint[e].auth # a
  BY <1>1, ExposerObjects DEF Inductive, Reaches, Owned, InCall
<1>4. /\ DOMAIN pc = Threads /\ DOMAIN call = Clients
      /\ \A w \in Workers : w # t /\ w \in Threads /\ pc'[w] = pc[w]
      /\ \A s \in Clients : pc'[s] = "idle" /\ call'[s] = Null
  BY <1>1, <1>2, ExposerThreads DEF Inductive, TypeOK, Threads
<1>5. endpoint[r] \in Endpoints /\ old # a /\ old \in AuthAddrs \cup {Null}
  BY <1>3, EndpointTypes
<1>6. /\ endpoint'[r] \in Endpoints /\ endpoint'[r] # Null
      /\ endpoint'[r].uri = u /\ endpoint'[r].auth = a
      /\ \A e \in EndpointAddrs : e # r => endpoint'[e] = endpoint[e]
  <2>1. endpoint'[r] = [uri |-> u, auth |-> a]
    BY <1>1, <1>3, <1>5 DEF Inductive, TypeOK, Endpoints
  <2>2. endpoint'[r] \in Endpoints
    BY <1>3, <2>1 DEF Endpoints
  <2>3. \A e \in EndpointAddrs : e # r => endpoint'[e] = endpoint[e]
    BY <1>1 DEF Inductive, TypeOK
  <2> QED BY <2>1, <2>2, <2>3, ExposerRecords
<1>7. /\ \A e \in EndpointAddrs : endpoint'[e] # Null <=> endpoint[e] # Null
      /\ \A e \in EndpointAddrs : endpoint[e] # Null => endpoint'[e].uri = endpoint[e].uri
  BY <1>3, <1>6
<1>8. auth'[a] = auth[a]
  BY <1>1, <1>3, <1>5
<1>9. \A e \in EndpointAddrs : endpoint[e] # Null /\ e # r =>
        endpoint[e].uri # u /\ (endpoint[e].auth # Null =>
          endpoint[e].auth # old /\ auth'[endpoint[e].auth] = auth[endpoint[e].auth])
  <2> SUFFICES ASSUME NEW e \in EndpointAddrs, endpoint[e] # Null, e # r
               PROVE  endpoint[e].uri # u /\ (endpoint[e].auth # Null =>
                 endpoint[e].auth # old /\ auth'[endpoint[e].auth] = auth[endpoint[e].auth])
    OBVIOUS
  <2>1. endpoint[e].uri # u
    BY <1>3 DEF Inductive, Listed
  <2>2. endpoint[e].auth # Null => endpoint[e].auth # old
    BY <1>3 DEF Inductive, Owned
  <2>3. endpoint[e].auth \in AuthAddrs \cup {Null}
    BY EndpointTypes
  <2> QED BY <1>1, <2>1, <2>2, <2>3
<1>10. \A v \in Uris : authHandlers[v] # Null =>
         /\ auth'[authHandlers[v]] = auth[authHandlers[v]]
         /\ v # u => \E e \in EndpointAddrs : e # r /\
              endpoint[e] # Null /\ endpoint[e].uri = v /\ endpoint[e].auth = authHandlers[v]
  <2> SUFFICES ASSUME NEW v \in Uris, authHandlers[v] # Null
               PROVE  /\ auth'[authHandlers[v]] = auth[authHandlers[v]]
                      /\ v # u => \E e \in EndpointAddrs : e # r /\
                           endpoint[e] # Null /\ endpoint[e].uri = v /\ endpoint[e].auth = authHandlers[v]
    OBVIOUS
  <2>1. CASE v = u
    BY <1>3, <1>8, <2>1
  <2>2. CASE v # u
    <3>1. PICK e \in EndpointAddrs :
            endpoint[e] # Null /\ endpoint[e].uri = v /\ endpoint[e].auth = authHandlers[v]
      BY <1>1, <1>2, <2>2 DEF Inductive, Owned
    <3>2. e # r
      BY <1>3, <2>2, <3>1
    <3> QED BY <1>9, <2>2, <3>1, <3>2
  <2> QED BY <2>1, <2>2
<1>11. TypeOK'
  <2>1. pc' \in [Threads -> Locations]
    BY <1>1 DEF Inductive, TypeOK, Locations
  <2>2. endpoint' \in [EndpointAddrs -> Endpoints \cup {Null}]
    BY <1>1, <1>6 DEF Inductive, TypeOK
  <2>3. auth' \in [AuthAddrs -> Credentials] /\ accepted' \in [Uris -> SUBSET Credentials]
    BY <1>1, <1>3 DEF Inductive, TypeOK, Credentials
  <2> QED BY <1>1, <1>4, <2>1, <2>2, <2>3 DEF Inductive, TypeOK
<1>12. Places' /\ Reaches'
  BY <1>1, <1>4 DEF Inductive, Places, Reaches, InCall, InDestructor
<1>13. Listed'
  <2>1. Elements(endpoints)' = Elements(endpoints) /\ Distinct(endpoints)'
    BY <1>1 DEF Inductive, Listed, Distinct, Elements
  <2>2. Elements(endpoints) \subseteq EndpointAddrs
    BY DEF Inductive, TypeOK, Elements
  <2>3. \A e \in Elements(endpoints) : endpoint'[e] # Null
    BY <1>7, <2>2 DEF Inductive, Listed
  <2>4. \A e \in EndpointAddrs : endpoint'[e] # Null => e \in Elements(endpoints)
    BY <1>1, <1>2, <1>7 DEF Inductive, Listed
  <2>5. \A e, f \in EndpointAddrs :
          endpoint'[e] # Null /\ endpoint'[f] # Null /\ endpoint'[e].uri = endpoint'[f].uri => e = f
    BY <1>7 DEF Inductive, Listed
  <2> QED BY <1>4, <2>1, <2>3, <2>4, <2>5 DEF Listed
<1>14. Installed'
  <2>1. \A v \in Uris : handlers[v] # Null => handlers[v] \in EndpointAddrs
    BY DEF Inductive, TypeOK
  <2>2. \A v \in Uris : handlers[v] # Null =>
          endpoint'[handlers[v]] # Null /\ endpoint'[handlers[v]].uri = v
    BY <1>7, <2>1 DEF Inductive, Installed
  <2> QED BY <1>1, <1>4, <2>2 DEF Inductive, Installed
<1>15. Owned'
  <2>1. \A e \in EndpointAddrs : endpoint'[e] # Null /\ endpoint'[e].auth # Null =>
          auth'[endpoint'[e].auth] # Null
    <3> SUFFICES ASSUME NEW e \in EndpointAddrs, endpoint'[e] # Null, endpoint'[e].auth # Null
                 PROVE  auth'[endpoint'[e].auth] # Null
      OBVIOUS
    <3>1. CASE e = r
      BY <1>3, <1>6, <1>8, <3>1
    <3>2. CASE e # r
      BY <1>6, <1>9, <3>2 DEF Inductive, Owned
    <3> QED BY <3>1, <3>2
  <2>2. ASSUME NEW e \in EndpointAddrs, NEW f \in EndpointAddrs,
               endpoint'[e] # Null, endpoint'[f] # Null, endpoint'[e].auth # Null,
               endpoint'[e].auth = endpoint'[f].auth
        PROVE  e = f
    <3>1. CASE e = r \/ f = r
      BY <1>3, <1>6, <2>2, <3>1
    <3>2. CASE e # r /\ f # r
      BY <1>6, <2>2, <3>2 DEF Inductive, Owned
    <3> QED BY <3>1, <3>2
  <2>3. ASSUME NEW v \in Uris, authHandlers[v] # Null
        PROVE  \E e \in EndpointAddrs :
                 endpoint'[e] # Null /\ endpoint'[e].uri = v /\ endpoint'[e].auth = authHandlers[v]
    <3>1. CASE v = u
      BY <1>3, <1>6, <3>1
    <3>2. CASE v # u
      BY <1>6, <1>10, <2>3, <3>2
    <3> QED BY <3>1, <3>2
  <2>4. authHandlers' = authHandlers /\ \A s \in Clients : pc'[s] = "idle"
    BY <1>1, <1>4
  <2>5. \A s \in Clients : pc'[s] \notin {"install_auth", "store_auth", "free"}
    BY <2>4
  <2> HIDE DEF u, a, r, old
  <2> QED BY <2>1, <2>2, <2>3, <2>4, <2>5 DEF Owned
<1>16. Guarded'
  <2>1. ASSUME NEW v \in Uris, accepted'[v] # Credentials
        PROVE  \E e \in EndpointAddrs :
                 endpoint'[e] # Null /\ endpoint'[e].uri = v /\ endpoint'[e].auth # Null
    <3>1. CASE v = u
      BY <1>3, <1>6, <3>1
    <3>2. CASE v # u
      <4>1. accepted[v] # Credentials
        BY <1>1, <2>1, <3>2 DEF Inductive, TypeOK
      <4>2. PICK e \in EndpointAddrs :
              endpoint[e] # Null /\ endpoint[e].uri = v /\ endpoint[e].auth # Null
        BY <4>1 DEF Inductive, Guarded
      <4>3. endpoint'[e] = endpoint[e]
        BY <1>3, <1>6, <3>2, <4>2
      <4> QED BY <4>2, <4>3
    <3> QED BY <3>1, <3>2
  <2>2. ASSUME NEW v \in Uris, handlers[v] # Null
        PROVE  IF authHandlers[v] = Null THEN accepted'[v] = Credentials
               ELSE auth'[authHandlers[v]] \in accepted'[v]
    <3>1. CASE v = u
      BY <1>1, <1>3, <1>8, <3>1 DEF Inductive, TypeOK
    <3>2. CASE v # u
      <4>1. accepted'[v] = accepted[v]
        BY <1>1, <3>2 DEF Inductive, TypeOK
      <4>2. ~ \E s \in Clients : pc[s] = "store_auth" /\ call[s].uri = v
        BY <1>1, <1>2, <3>2
      <4> QED BY <1>10, <2>2, <4>1, <4>2 DEF Inductive, Guarded
    <3> QED BY <3>1, <3>2
  <2>3. ASSUME NEW w \in Workers, request[w] # Null
        PROVE  IF authHandlers[request[w].uri] = Null THEN Credentials \subseteq valid[w]
               ELSE auth'[authHandlers[request[w].uri]] \in valid[w]
    <3>1. request[w].uri \in Uris
      BY <2>3 DEF Inductive, TypeOK, Requests
    <3> QED BY <1>10, <2>3, <3>1 DEF Inductive, Guarded
  <2>4. GuardKept'
    BY <1>1, <1>4 DEF Inductive, Guarded, GuardKept
  <2> QED BY <1>1, <1>4, <2>1, <2>2, <2>3, <2>4 DEF Guarded
<1>17. Wanted'
  BY <1>1, <1>7 DEF Inductive, Wanted
<1>18. Asking'
  BY <1>1, <1>4, SameAsking DEF Inductive
<1> QED BY <1>11, <1>12, <1>13, <1>14, <1>15, <1>16, <1>17, <1>18 DEF Inductive

-----------------------------------------------------------------------------
(* ~Exposer.                                                               *)

\* The destructor begins and ends, and another Exposer takes over.
LEMMA TurnsStep ==
  ASSUME Inductive, NEW t \in Clients,
         DestructionBegins(t) \/ DestructionEnds(t) \/ ExposerBegins(t)
  PROVE  Inductive'
<1>1. /\ \A s \in Clients : s # t => pc[s] = "idle" /\ call[s] = Null
      /\ pc[t] \in {"idle", "destroy"} /\ call[t] = Null
  <2>1. CASE DestructionBegins(t) \/ ExposerBegins(t)
    BY <2>1 DEF DestructionBegins, ExposerBegins, Inductive, Reaches, InCall
  <2>2. CASE DestructionEnds(t)
    <3>1. pc[t] = "destroy"
      BY <2>2 DEF DestructionEnds
    <3> QED BY <3>1, Alone DEF Inductive, Reaches, InCall
  <2> QED BY <2>1, <2>2
<1>2. /\ UNCHANGED <<endpoints, mutex, endpoint, exposed, auth, handlers, authHandlers, call,
                     reached, request, pinned, asked, waits, valid, accepted, wanted>>
      /\ pc' = [pc EXCEPT ![t] = pc'[t]]
      /\ \/ pc'[t] = "destroy" /\ gone' = TRUE
         \/ pc'[t] = "idle" /\ gone' \in BOOLEAN
  BY DEF DestructionBegins, DestructionEnds, ExposerBegins, Goto, objectVars, serverVars,
         requestVars, Inductive, TypeOK, Threads
<1>3. /\ DOMAIN pc = Threads
      /\ \A w \in Workers : w # t /\ w \in Threads /\ pc'[w] = pc[w]
      /\ \A s \in Clients : s # t => pc'[s] = "idle" /\ call'[s] = Null
      /\ call'[t] = Null /\ pc'[t] \in {"idle", "destroy"}
  BY <1>1, <1>2, ExposerThreads DEF Inductive, TypeOK, Threads
<1>4. TypeOK'
  <2>1. pc' \in [Threads -> Locations]
    BY <1>2 DEF Inductive, TypeOK, Locations
  <2> QED BY <1>2, <2>1 DEF Inductive, TypeOK
<1>5. Places' /\ Reaches'
  <2>1. \A s \in Clients : pc'[s] # "idle" => s = t /\ pc'[s] = "destroy" /\ gone' = TRUE
    BY <1>2, <1>3
  <2> QED BY <1>3, <2>1 DEF Inductive, Places, Reaches, InCall, InDestructor
<1>6. Listed' /\ Installed' /\ Owned' /\ Guarded' /\ Wanted'
  <2>1. Listed'
    BY <1>1, <1>2, <1>3, SameListed DEF Inductive
  <2>2. Installed'
    BY <1>2, <1>3, SameInstalled DEF Inductive
  <2>3. Owned'
    BY <1>1, <1>2, <1>3, SameOwned DEF Inductive
  <2>4. Guarded'
    BY <1>1, <1>2, <1>3, SameGuarded DEF Inductive
  <2> QED BY <1>2, <2>1, <2>2, <2>3, <2>4, SameWanted DEF Inductive
<1>7. Asking'
  BY <1>2, <1>3, SameAsking DEF Inductive
<1> QED BY <1>4, <1>5, <1>6, <1>7 DEF Inductive

\* removeHandler and removeAuthHandler.
LEMMA UninstallsStep ==
  ASSUME Inductive, NEW t \in Clients, RemovesHandler(t) \/ RemovesAuth(t)
  PROVE  Inductive'
<1> DEFINE e == Head(endpoints)
           u == endpoint[e].uri
<1>1. /\ pc[t] \in {"destroy", "unguard"} /\ pc'[t] \in {"unguard", "free"}
      /\ pc' = [pc EXCEPT ![t] = pc'[t]] /\ endpoints # <<>>
      /\ UNCHANGED <<endpoints, mutex, gone, endpoint, exposed, auth, call, reached, request,
                     pinned, asked, waits, valid, accepted, wanted>>
  BY DEF RemovesHandler, RemovesAuth, Goto, objectVars, requestVars, Inductive, TypeOK, Threads,
         Listed
<1>2. \A s \in Clients : pc[s] \notin InCall /\ call[s] = Null /\ (s # t => pc[s] = "idle")
  BY <1>1, Alone DEF Inductive, Reaches, InCall
<1>3. e \in EndpointAddrs /\ endpoint[e] # Null /\ u \in Uris
  BY <1>1, FirstEndpoint
<1>4. /\ DOMAIN pc = Threads /\ DOMAIN handlers = Uris /\ DOMAIN authHandlers = Uris
      /\ \A w \in Workers : w # t /\ w \in Threads /\ pc'[w] = pc[w]
      /\ \A s \in Clients : call'[s] = Null /\ (s # t => pc'[s] = "idle")
  BY <1>1, <1>2, ExposerThreads DEF Inductive, TypeOK, Threads
<1>5. \A w \in Workers : request[w] # Null => request[w].uri \in Uris
  BY DEF Inductive, TypeOK, Requests
<1>6. /\ \A v \in Uris : handlers'[v] \in {handlers[v], Null}
      /\ \A v \in Uris : v # u => handlers'[v] = handlers[v]
      /\ handlers'[u] = Null
      /\ \A w \in Workers : request[w] # Null => request[w].uri # u
      /\ handlers' \in [Uris -> EndpointAddrs \cup {Null}]
  <2>1. CASE RemovesHandler(t)
    <3>1. handlers' = [handlers EXCEPT ![u] = Null] /\ Unused(u)
      BY <2>1 DEF RemovesHandler
    <3>2. \A w \in Workers : request[w] # Null => request[w].uri # u
      BY <3>1 DEF Inductive, Installed, Unused
    <3> QED BY <1>3, <1>4, <3>1, <3>2 DEF Inductive, TypeOK
  <2>2. CASE RemovesAuth(t)
    <3>1. handlers' = handlers /\ handlers[u] = Null
      BY <2>2 DEF RemovesAuth, Inductive, Installed
    <3> QED BY <3>1 DEF Inductive, Installed, TypeOK
  <2> QED BY <2>1, <2>2
<1>7. /\ \A v \in Uris : v # u => authHandlers'[v] = authHandlers[v]
      /\ authHandlers' \in [Uris -> AuthAddrs \cup {Null}]
      /\ authHandlers'[u] \in {authHandlers[u], Null}
      /\ pc'[t] = "free" => authHandlers'[u] = Null
  <2>1. CASE RemovesHandler(t)
    BY <2>1 DEF RemovesHandler, Goto, Inductive, TypeOK, Threads
  <2>2. CASE RemovesAuth(t)
    <3>1. CASE endpoint[e].auth # Null
      BY <1>3, <1>4, <2>2, <3>1 DEF RemovesAuth, Inductive, TypeOK
    <3>2. CASE endpoint[e].auth = Null
      <4>1. authHandlers' = authHandlers
        BY <2>2, <3>2 DEF RemovesAuth
      <4>2. ~ \E s \in Clients : pc[s] = "store_auth"
        BY <1>2 DEF InCall
      <4>3. authHandlers[u] = Null
        BY <1>3, <3>2, <4>2 DEF Inductive, Owned, Listed
      <4> QED BY <4>1, <4>3 DEF Inductive, TypeOK
    <3> QED BY <3>1, <3>2
  <2> QED BY <2>1, <2>2
<1>8. TypeOK'
  <2>1. pc' \in [Threads -> Locations]
    BY <1>1 DEF Inductive, TypeOK, Locations
  <2> QED BY <1>1, <1>6, <1>7, <2>1 DEF Inductive, TypeOK
<1>9. Places'
  BY <1>1, <1>2, <1>4 DEF Inductive, Places, InCall, InDestructor
<1>10. Reaches'
  <2>1. \A s \in Clients : pc'[s] \notin InCall
    BY <1>1, <1>4 DEF InCall
  <2> QED BY <1>4, <2>1 DEF Reaches, InCall
<1>11. Listed' /\ Wanted'
  <2>1. Listed'
    BY <1>1, <1>2, <1>4, SameListed DEF Inductive
  <2> QED BY <1>1, <2>1, SameWanted DEF Inductive
<1>12. Installed'
  <2>1. \A s \in Clients : pc'[s] \in {"unguard", "free"} => handlers'[endpoint'[Head(endpoints')].uri] = Null
    BY <1>1, <1>6
  <2>2. \A w \in Workers : request'[w] # Null => pinned'[w] = handlers'[request'[w].uri]
    BY <1>1, <1>5, <1>6 DEF Inductive, Installed
  <2>3. \A v \in Uris : handlers'[v] # Null =>
          endpoint'[handlers'[v]] # Null /\ endpoint'[handlers'[v]].uri = v
    BY <1>1, <1>6 DEF Inductive, Installed
  <2> QED BY <1>1, <1>4, <2>1, <2>2, <2>3 DEF Inductive, Installed
<1>13. Owned'
  <2>1. \A s \in Clients : pc'[s] \notin {"install_auth", "store_auth"} /\ pc[s] # "store_auth"
    BY <1>1, <1>2, <1>4 DEF InCall
  <2>2. \A s \in Clients : pc'[s] = "free" => authHandlers'[endpoint'[Head(endpoints')].uri] = Null
    BY <1>1, <1>4, <1>7
  <2>3. ASSUME NEW v \in Uris, authHandlers'[v] # Null
        PROVE  \E f \in EndpointAddrs :
                 endpoint[f] # Null /\ endpoint[f].uri = v /\ endpoint[f].auth = authHandlers'[v]
    <3>1. authHandlers'[v] = authHandlers[v]
      BY <1>7, <2>3
    <3> QED BY <2>1, <2>3, <3>1 DEF Inductive, Owned
  <2>4. /\ \A f \in EndpointAddrs : endpoint[f] # Null /\ endpoint[f].auth # Null =>
             auth[endpoint[f].auth] # Null
        /\ \A f, g \in EndpointAddrs :
             endpoint[f] # Null /\ endpoint[g] # Null /\ endpoint[f].auth # Null
               /\ endpoint[f].auth = endpoint[g].auth => f = g
    BY DEF Inductive, Owned
  <2> QED BY <1>1, <2>1, <2>2, <2>3, <2>4 DEF Owned
<1>14. Guarded'
  <2>1. \A v \in Uris : handlers'[v] # Null =>
          IF authHandlers'[v] = Null THEN accepted[v] = Credentials
          ELSE auth[authHandlers'[v]] \in accepted[v]
    <3> SUFFICES ASSUME NEW v \in Uris, handlers'[v] # Null
                 PROVE  IF authHandlers'[v] = Null THEN accepted[v] = Credentials
                        ELSE auth[authHandlers'[v]] \in accepted[v]
      OBVIOUS
    <3>1. v # u /\ handlers[v] # Null /\ authHandlers'[v] = authHandlers[v]
      BY <1>6, <1>7
    <3>2. ~ \E s \in Clients : pc[s] = "store_auth"
      BY <1>2 DEF InCall
    <3> QED BY <3>1, <3>2 DEF Inductive, Guarded
  <2>2. \A w \in Workers : request[w] # Null =>
          IF authHandlers'[request[w].uri] = Null THEN Credentials \subseteq valid[w]
          ELSE auth[authHandlers'[request[w].uri]] \in valid[w]
    BY <1>5, <1>6, <1>7 DEF Inductive, Guarded
  <2>3. GuardKept'
    BY <1>1, <1>4 DEF Inductive, Guarded, GuardKept
  <2>4. \A v \in Uris : accepted[v] # Credentials =>
          \E f \in EndpointAddrs :
            endpoint[f] # Null /\ endpoint[f].uri = v /\ endpoint[f].auth # Null
    BY DEF Inductive, Guarded
  <2> QED BY <1>1, <1>4, <2>1, <2>2, <2>3, <2>4 DEF Guarded
<1>15. Asking'
  <2>1. ASSUME waits, NEW w \in Workers, asked[w] # Null
        PROVE  asked[w] = authHandlers'[request[w].uri]
    <3>1. request[w] # Null
      BY <2>1 DEF Inductive, Asking, Installed
    <3>2. asked[w] = authHandlers[request[w].uri]
      BY <2>1 DEF Inductive, Asking
    <3> QED BY <1>5, <1>6, <1>7, <3>1, <3>2
  <2> QED BY <1>1, <1>4, <2>1 DEF Inductive, Asking
<1> QED BY <1>8, <1>9, <1>10, <1>11, <1>12, <1>13, <1>14, <1>15 DEF Inductive

\* The members of an Endpoint, and its place in the list.
LEMMA FreesEndpointStep ==
  ASSUME Inductive, NEW t \in Clients, FreesEndpoint(t)
  PROVE  Inductive'
<1> DEFINE e == Head(endpoints)
           u == endpoint[e].uri
           old == endpoint[e].auth
<1>1. /\ pc[t] = "free" /\ pc' = [pc EXCEPT ![t] = "destroy"] /\ endpoints' = Tail(endpoints)
      /\ auth' = [a \in AuthAddrs |-> IF a = old THEN Null ELSE auth[a]]
      /\ accepted' = [accepted EXCEPT ![u] = Credentials]
      /\ wanted' = [wanted EXCEPT ![u] = {}]
      /\ endpoint' = [endpoint EXCEPT ![e] = Null]
      /\ exposed' = [exposed EXCEPT ![e] = {}]
      /\ UNCHANGED <<mutex, gone, handlers, authHandlers, call, reached, request, pinned, asked, waits, valid>>
  BY DEF FreesEndpoint, Goto, serverVars, requestVars
<1>2. /\ \A s \in Clients : pc[s] \notin InCall /\ call[s] = Null /\ (s # t => pc[s] = "idle")
      /\ endpoints # <<>> /\ handlers[u] = Null /\ authHandlers[u] = Null
  BY <1>1, Alone DEF Inductive, Reaches, Listed, Installed, Owned, InCall
<1>3. /\ e \in EndpointAddrs /\ endpoint[e] # Null /\ u \in Uris
      /\ endpoints' \in Seq(EndpointAddrs) /\ Distinct(endpoints')
      /\ Elements(endpoints') = Elements(endpoints) \ {e}
  BY <1>1, <1>2, FirstEndpoint
<1>4. /\ DOMAIN pc = Threads
      /\ \A w \in Workers : w # t /\ w \in Threads /\ pc'[w] = pc[w]
      /\ \A s \in Clients : call'[s] = Null /\ (s # t => pc'[s] = "idle")
      /\ pc'[t] = "destroy" /\ t \in Threads
  BY <1>1, <1>2, ExposerThreads DEF Inductive, TypeOK, Threads
<1>5. endpoint'[e] = Null /\ \A f \in EndpointAddrs : f # e => endpoint'[f] = endpoint[f]
  BY <1>1, <1>3 DEF Inductive, TypeOK
<1>6. \A f \in EndpointAddrs : endpoint[f] # Null /\ f # e =>
        /\ endpoint[f].uri \in Uris /\ endpoint[f].uri # u
        /\ endpoint[f].auth # Null => auth'[endpoint[f].auth] = auth[endpoint[f].auth]
  <2> SUFFICES ASSUME NEW f \in EndpointAddrs, endpoint[f] # Null, f # e
               PROVE  /\ endpoint[f].uri \in Uris /\ endpoint[f].uri # u
                      /\ endpoint[f].auth # Null =>
                           auth'[endpoint[f].auth] = auth[endpoint[f].auth]
    OBVIOUS
  <2>1. endpoint[f].uri \in Uris /\ endpoint[f].auth \in AuthAddrs \cup {Null}
    BY EndpointTypes
  <2>2. endpoint[f].uri # u
    BY <1>3 DEF Inductive, Listed
  <2>3. endpoint[f].auth # Null => endpoint[f].auth # old
    BY <1>3 DEF Inductive, Owned
  <2> QED BY <1>1, <2>1, <2>2, <2>3
<1>7. \A v \in Uris : authHandlers[v] # Null =>
        /\ v # u /\ auth'[authHandlers[v]] = auth[authHandlers[v]]
        /\ \E f \in EndpointAddrs : f # e /\
             endpoint[f] # Null /\ endpoint[f].uri = v /\ endpoint[f].auth = authHandlers[v]
  <2> SUFFICES ASSUME NEW v \in Uris, authHandlers[v] # Null
               PROVE  /\ v # u /\ auth'[authHandlers[v]] = auth[authHandlers[v]]
                      /\ \E f \in EndpointAddrs : f # e /\
                           endpoint[f] # Null /\ endpoint[f].uri = v
                             /\ endpoint[f].auth = authHandlers[v]
    OBVIOUS
  <2>1. PICK f \in EndpointAddrs :
          endpoint[f] # Null /\ endpoint[f].uri = v /\ endpoint[f].auth = authHandlers[v]
    BY <1>2 DEF Inductive, Owned, InCall
  <2>2. v # u /\ f # e
    BY <1>2, <2>1
  <2> QED BY <1>6, <2>1, <2>2
<1>8. TypeOK'
  <2>1. pc' \in [Threads -> Locations]
    BY <1>1 DEF Inductive, TypeOK, Locations
  <2>2. /\ endpoint' \in [EndpointAddrs -> Endpoints \cup {Null}]
        /\ exposed' \in [EndpointAddrs -> SUBSET (Collectables \cup {Own})]
    BY <1>1 DEF Inductive, TypeOK
  <2>3. /\ auth' \in [AuthAddrs -> Credentials] /\ accepted' \in [Uris -> SUBSET Credentials]
        /\ wanted' \in [Uris -> SUBSET Collectables]
    BY <1>1 DEF Inductive, TypeOK, Credentials
  <2> QED BY <1>1, <1>3, <2>1, <2>2, <2>3 DEF Inductive, TypeOK
<1>9. Places'
  BY <1>1, <1>2, <1>4 DEF Inductive, Places, InCall, InDestructor
<1>10. Reaches'
  <2>1. \A s \in Clients : pc'[s] \notin InCall
    BY <1>4 DEF InCall
  <2> QED BY <1>4, <2>1 DEF Reaches, InCall
<1>11. Listed'
  <2>1. Elements(endpoints)' = Elements(endpoints') /\ Distinct(endpoints)' = Distinct(endpoints')
    BY DEF Elements, Distinct
  <2>2. Elements(endpoints) \subseteq EndpointAddrs
    BY DEF Inductive, TypeOK, Elements
  <2>3. \A f \in Elements(endpoints') : endpoint'[f] # Null
    BY <1>3, <1>5, <2>2 DEF Inductive, Listed
  <2>4. \A f \in EndpointAddrs : endpoint'[f] # Null => f \in Elements(endpoints')
    <3>1. \A s \in Clients : pc[s] \notin {"install", "append"}
      BY <1>2 DEF InCall
    <3> QED BY <1>3, <1>5, <3>1 DEF Inductive, Listed
  <2>5. \A f, g \in EndpointAddrs :
          endpoint'[f] # Null /\ endpoint'[g] # Null /\ endpoint'[f].uri = endpoint'[g].uri => f = g
    BY <1>5 DEF Inductive, Listed
  <2>6. \A s \in Clients : pc'[s] \notin {"install", "append", "unguard", "free"}
    BY <1>4
  <2> QED BY <1>3, <2>1, <2>3, <2>4, <2>5, <2>6 DEF Listed
<1>12. Installed'
  <2>1. \A v \in Uris : handlers[v] # Null =>
          endpoint'[handlers[v]] # Null /\ endpoint'[handlers[v]].uri = v
    <3> SUFFICES ASSUME NEW v \in Uris, handlers[v] # Null
                 PROVE  endpoint'[handlers[v]] # Null /\ endpoint'[handlers[v]].uri = v
      OBVIOUS
    <3>1. handlers[v] \in EndpointAddrs /\ endpoint[handlers[v]] # Null /\ endpoint[handlers[v]].uri = v
      BY DEF Inductive, TypeOK, Installed
    <3>2. handlers[v] # e
      BY <1>2, <3>1
    <3> QED BY <1>5, <3>1, <3>2
  <2>2. \A s \in Clients : pc'[s] \notin {"unguard", "free"}
    BY <1>4
  <2> QED BY <1>1, <1>4, <2>1, <2>2 DEF Inductive, Installed
<1>13. Owned'
  <2>1. \A s \in Clients : pc'[s] \notin {"install_auth", "store_auth", "free"}
    BY <1>4
  <2>2. \A f \in EndpointAddrs : endpoint'[f] # Null /\ endpoint'[f].auth # Null =>
          auth'[endpoint'[f].auth] # Null
    BY <1>5, <1>6 DEF Inductive, Owned
  <2>3. \A f, g \in EndpointAddrs :
          endpoint'[f] # Null /\ endpoint'[g] # Null /\ endpoint'[f].auth # Null
            /\ endpoint'[f].auth = endpoint'[g].auth => f = g
    BY <1>5 DEF Inductive, Owned
  <2>4. ASSUME NEW v \in Uris, authHandlers[v] # Null
        PROVE  \E f \in EndpointAddrs :
                 endpoint'[f] # Null /\ endpoint'[f].uri = v /\ endpoint'[f].auth = authHandlers[v]
    BY <1>5, <1>7, <2>4
  <2> QED BY <1>1, <2>1, <2>2, <2>3, <2>4 DEF Owned
<1>14. Guarded'
  <2>1. ASSUME NEW v \in Uris, accepted'[v] # Credentials
        PROVE  \E f \in EndpointAddrs :
                 endpoint'[f] # Null /\ endpoint'[f].uri = v /\ endpoint'[f].auth # Null
    <3>1. v # u /\ accepted[v] # Credentials
      BY <1>1, <2>1 DEF Inductive, TypeOK
    <3>2. PICK f \in EndpointAddrs :
            endpoint[f] # Null /\ endpoint[f].uri = v /\ endpoint[f].auth # Null
      BY <3>1 DEF Inductive, Guarded
    <3>3. endpoint'[f] = endpoint[f]
      BY <1>5, <3>1, <3>2
    <3> QED BY <3>2, <3>3
  <2>2. ASSUME NEW v \in Uris, handlers[v] # Null
        PROVE  IF authHandlers[v] = Null THEN accepted'[v] = Credentials
               ELSE auth'[authHandlers[v]] \in accepted'[v]
    <3>1. v # u /\ accepted'[v] = accepted[v]
      BY <1>1, <1>2, <2>2 DEF Inductive, TypeOK
    <3>2. ~ \E s \in Clients : pc[s] = "store_auth"
      BY <1>2 DEF InCall
    <3> QED BY <1>7, <2>2, <3>1, <3>2 DEF Inductive, Guarded
  <2>3. ASSUME NEW w \in Workers, request[w] # Null
        PROVE  IF authHandlers[request[w].uri] = Null THEN Credentials \subseteq valid[w]
               ELSE auth'[authHandlers[request[w].uri]] \in valid[w]
    <3>1. request[w].uri \in Uris
      BY <2>3 DEF Inductive, TypeOK, Requests
    <3> QED BY <1>7, <2>3, <3>1 DEF Inductive, Guarded
  <2>4. GuardKept'
    BY <1>1, <1>4 DEF Inductive, Guarded, GuardKept
  <2> QED BY <1>1, <1>4, <2>1, <2>2, <2>3, <2>4 DEF Guarded
<1>15. Wanted'
  <2>1. ASSUME NEW f \in EndpointAddrs, endpoint'[f] # Null
        PROVE  exposed'[f] = wanted'[endpoint'[f].uri] \cup {Own}
    <3>1. f # e /\ endpoint'[f] = endpoint[f]
      BY <1>5, <2>1
    <3>2. exposed'[f] = exposed[f] /\ wanted'[endpoint[f].uri] = wanted[endpoint[f].uri]
      BY <1>1, <1>6, <2>1, <3>1 DEF Inductive, TypeOK
    <3> QED BY <2>1, <3>1, <3>2 DEF Inductive, Wanted
  <2>2. ASSUME NEW v \in Uris, wanted'[v] # {}
        PROVE  \E f \in EndpointAddrs : endpoint'[f] # Null /\ endpoint'[f].uri = v
    <3>1. v # u /\ wanted[v] # {}
      BY <1>1, <2>2 DEF Inductive, TypeOK
    <3>2. PICK f \in EndpointAddrs : endpoint[f] # Null /\ endpoint[f].uri = v
      BY <3>1 DEF Inductive, Wanted
    <3> QED BY <1>5, <3>1, <3>2
  <2> QED BY <2>1, <2>2 DEF Wanted
<1>16. Asking'
  BY <1>1, <1>4, SameAsking DEF Inductive
<1> QED BY <1>8, <1>9, <1>10, <1>11, <1>12, <1>13, <1>14, <1>15, <1>16 DEF Inductive

-----------------------------------------------------------------------------
(* Requests.                                                               *)

\* What clients rely on does not change while the server works.
LEMMA WorkerFrame ==
  ASSUME Inductive, NEW w \in Workers, NEW l \in {"idle", "authorize", "authorizing", "serve"}, Goto(w, l),
         UNCHANGED <<endpoints, mutex, gone, objectVars, serverVars, call, reached, accepted, wanted>>
  PROVE  /\ pc' \in [Threads -> Locations]
         /\ \A t \in Clients : pc'[t] = pc[t]
         /\ pc'[w] = l /\ \A v \in Workers : v # w => pc'[v] = pc[v]
         /\ Places' /\ Reaches' /\ Listed' /\ Owned' /\ Wanted'
<1>1. /\ UNCHANGED <<endpoints, mutex, gone, endpoint, exposed, auth, handlers, authHandlers,
                     call, reached, accepted, wanted>>
      /\ pc' = [pc EXCEPT ![w] = l] /\ DOMAIN pc = Threads
  BY DEF Goto, objectVars, serverVars, Inductive, TypeOK
<1>2. /\ \A t \in Clients : pc'[t] = pc[t]
      /\ pc'[w] = l /\ \A v \in Workers : v # w => pc'[v] = pc[v]
  BY <1>1, ExposerThreads DEF Threads
<1>3. pc' \in [Threads -> Locations]
  BY <1>1 DEF Inductive, TypeOK, Locations
<1>4. Places' /\ Reaches'
  BY <1>1, <1>2 DEF Inductive, Places, Reaches
<1>5. Listed'
  BY <1>1, <1>2, SameListed DEF Inductive, Listed
<1>6. Owned' /\ Wanted'
  BY <1>1, <1>2, SameOwned, SameWanted DEF Inductive
<1> QED BY <1>2, <1>3, <1>4, <1>5, <1>6

\* The server finds the handler.
LEMMA RequestArrivesStep ==
  ASSUME Inductive, NEW w \in Workers, NEW u \in Uris, NEW cred \in Credentials,
         RequestArrives(w, u, cred)
  PROVE  Inductive'
<1>1. /\ pc[w] = "idle" /\ handlers[u] # Null /\ Goto(w, "authorize") /\ ~ BeingRemoved(u)
      /\ request' = [request EXCEPT ![w] = [uri |-> u, cred |-> cred]]
      /\ pinned' = [pinned EXCEPT ![w] = handlers[u]]
      /\ valid' = [valid EXCEPT ![w] = accepted[u] \cup BeingAdded(u)] /\ UNCHANGED asked
      /\ UNCHANGED <<endpoints, mutex, gone, objectVars, serverVars, call, reached, accepted, wanted>>
  BY DEF RequestArrives
<1>2. /\ pc' \in [Threads -> Locations]
      /\ \A t \in Clients : pc'[t] = pc[t]
      /\ pc'[w] = "authorize" /\ \A v \in Workers : v # w => pc'[v] = pc[v]
      /\ Places' /\ Reaches' /\ Listed' /\ Owned' /\ Wanted'
  BY <1>1, WorkerFrame
<1>3. UNCHANGED <<endpoint, exposed, auth, handlers, authHandlers, waits>>
  BY <1>1 DEF objectVars, serverVars
<1>4. /\ request'[w] = [uri |-> u, cred |-> cred] /\ request'[w] \in Requests /\ request'[w] # Null
      /\ request'[w].uri = u
      /\ pinned'[w] = handlers[u] /\ valid'[w] = accepted[u] \cup BeingAdded(u)
      /\ \A v \in Workers : v # w =>
           request'[v] = request[v] /\ pinned'[v] = pinned[v] /\ valid'[v] = valid[v]
  <2>1. [uri |-> u, cred |-> cred] \in Requests
    BY DEF Requests
  <2> QED BY <1>1, <2>1, ExposerRecords DEF Inductive, TypeOK
<1>5. \A t \in Clients : call[t] # Null /\ call[t].op = "auth" => Password(t) \in Credentials
  <2> SUFFICES ASSUME NEW t \in Clients, call[t] # Null, call[t].op = "auth"
               PROVE  Password(t) \in Credentials
    OBVIOUS
  <2>1. CASE pc[t] \in {"install_auth", "store_auth"}
    BY <2>1 DEF Inductive, Reaches, TypeOK, Password
  <2>2. CASE pc[t] \notin {"install_auth", "store_auth"}
    <3>1. call[t] \in Calls
      BY <2>2 DEF Inductive, Reaches, InCall
    <3> QED BY <2>2, <3>1 DEF Calls, Password, Credentials
  <2> QED BY <2>1, <2>2
<1>6. TypeOK'
  <2>1. BeingAdded(u) \subseteq Credentials
    BY <1>5 DEF BeingAdded
  <2>2. valid' \in [Workers -> SUBSET Credentials]
    BY <1>1, <2>1 DEF Inductive, TypeOK
  <2>3. /\ request' \in [Workers -> Requests \cup {Null}]
        /\ pinned' \in [Workers -> EndpointAddrs \cup {Null}]
    BY <1>1, <1>4 DEF Inductive, TypeOK, Requests
  <2> QED BY <1>1, <1>2, <1>3, <2>2, <2>3 DEF Inductive, TypeOK
<1>7. Installed'
  <2>1. \A v \in Workers : pc'[v] = "idle" <=> request'[v] = Null
    BY <1>2, <1>4 DEF Inductive, Installed
  <2>2. \A v \in Workers : pinned'[v] # Null <=> request'[v] # Null
    BY <1>1, <1>4 DEF Inductive, Installed
  <2>3. \A v \in Workers : request'[v] # Null => pinned'[v] = handlers[request'[v].uri]
    BY <1>4 DEF Inductive, Installed
  <2> QED BY <1>1, <1>2, <1>3, <2>1, <2>2, <2>3 DEF Inductive, Installed
<1>8. Guarded'
  <2>1. \A t \in Clients : call[t] # Null /\ call[t].op = "auth" /\ call[t].uri = u =>
          Password(t) \in valid'[w]
    BY <1>4 DEF BeingAdded
  <2>2. \A t \in Clients : Password(t)' = Password(t)
    BY <1>1, <1>2, <1>3 DEF Password
  <2>3. IF authHandlers[u] = Null THEN Credentials \subseteq valid'[w]
        ELSE auth[authHandlers[u]] \in valid'[w]
    <3>1. CASE authHandlers[u] = Null
      BY <1>1, <1>4, <3>1 DEF Inductive, Guarded
    <3>2. CASE authHandlers[u] # Null /\ auth[authHandlers[u]] \in accepted[u]
      BY <1>4, <3>2
    <3>3. ASSUME NEW t \in Clients, pc[t] = "store_auth", call[t].uri = u, authHandlers[u] # Null,
                 call[t].arg = authHandlers[u]
          PROVE  auth[authHandlers[u]] \in valid'[w]
      <4>1. call[t] # Null /\ call[t].op = "auth"
        BY <3>3 DEF Inductive, Reaches, InCall
      <4>2. Password(t) = auth[authHandlers[u]]
        BY <3>3 DEF Password
      <4> QED BY <2>1, <3>3, <4>1, <4>2
    <3> QED BY <1>1, <3>1, <3>2, <3>3 DEF Inductive, Guarded
  <2>4. \A v \in Workers : request'[v] # Null =>
          IF authHandlers[request'[v].uri] = Null THEN Credentials \subseteq valid'[v]
          ELSE auth[authHandlers[request'[v].uri]] \in valid'[v]
    BY <1>4, <2>3 DEF Inductive, Guarded
  <2>5. \A v \in Workers, t \in Clients :
          request'[v] # Null /\ call[t] # Null /\ call[t].op = "auth" /\ call[t].uri = request'[v].uri
            => Password(t)' \in valid'[v]
    BY <1>4, <2>1, <2>2 DEF Inductive, Guarded
  <2>6. GuardKept'
    <3> SUFFICES ASSUME waits, NEW v \in Workers, pc'[v] = "serve"
                 PROVE  request'[v].cred \in valid'[v]
      BY <1>3 DEF GuardKept
    <3>1. v # w /\ pc[v] = "serve"
      BY <1>2
    <3> QED BY <1>4, <3>1 DEF Inductive, Guarded, GuardKept
  <2>7. \A v \in Uris : handlers[v] # Null =>
          IF authHandlers[v] = Null THEN accepted[v] = Credentials
          ELSE \/ auth[authHandlers[v]] \in accepted[v]
               \/ \E t \in Clients :
                    pc'[t] = "store_auth" /\ call[t].uri = v /\ call[t].arg = authHandlers[v]
    BY <1>2 DEF Inductive, Guarded
  <2>8. \A v \in Uris : accepted[v] # Credentials =>
          \E e \in EndpointAddrs :
            endpoint[e] # Null /\ endpoint[e].uri = v /\ endpoint[e].auth # Null
    BY DEF Inductive, Guarded
  <2> QED BY <1>1, <1>3, <2>4, <2>5, <2>6, <2>7, <2>8 DEF Guarded
<1>9. Asking'
  <2>1. asked[w] = Null
    BY <1>1 DEF Inductive, Asking
  <2> QED BY <1>1, <1>2, <1>3, <1>4, <2>1 DEF Inductive, Asking
<1> QED BY <1>2, <1>6, <1>7, <1>8, <1>9 DEF Inductive

\* The server finds the authorization handler, or the request passes it.
LEMMA RequestGoesOnStep ==
  ASSUME Inductive, NEW w \in Workers,
         RequestUnguarded(w) \/ AuthorizeBegins(w) \/ RequestPasses(w)
  PROVE  Inductive'
<1>1. /\ pc[w] \in {"authorize", "authorizing"} /\ request[w] # Null
      /\ UNCHANGED <<endpoints, mutex, gone, objectVars, serverVars, call, reached, accepted, wanted>>
      /\ UNCHANGED <<request, pinned, valid>>
  BY DEF RequestUnguarded, AuthorizeBegins, RequestPasses, requestVars, Inductive, Installed
<1>2. /\ request[w] \in Requests /\ request[w].uri \in Uris /\ request[w].cred \in Credentials
      /\ DOMAIN asked = Workers
  BY <1>1 DEF Inductive, TypeOK, Requests
<1>3. \/ /\ Goto(w, "serve") /\ asked'[w] = Null /\ (waits => request[w].cred \in valid[w])
      \/ /\ Goto(w, "authorizing") /\ asked'[w] = authHandlers[request[w].uri]
         /\ authHandlers[request[w].uri] # Null
  <2>1. CASE RequestUnguarded(w)
    <3>1. asked'[w] = Null
      BY <2>1 DEF RequestUnguarded, requestVars, Inductive, Asking
    <3>2. request[w].cred \in valid[w]
      BY <1>1, <1>2, <2>1 DEF RequestUnguarded, Inductive, Guarded
    <3> QED BY <2>1, <3>1, <3>2 DEF RequestUnguarded
  <2>2. CASE AuthorizeBegins(w)
    BY <1>2, <2>2 DEF AuthorizeBegins
  <2>3. CASE RequestPasses(w)
    <3>1. asked'[w] = Null /\ Goto(w, "serve")
      BY <1>2, <2>3 DEF RequestPasses
    <3>2. ASSUME waits PROVE request[w].cred \in valid[w]
      <4>1. asked[w] # Null /\ asked[w] = authHandlers[request[w].uri]
        BY <2>3, <3>2 DEF RequestPasses, Inductive, Asking
      <4>2. auth[asked[w]] # Null
        BY <1>2, <4>1, AuthAlive
      <4>3. request[w].cred = auth[asked[w]]
        BY <2>3, <4>2 DEF RequestPasses, Authorized, Destroyed
      <4> QED BY <1>1, <4>1, <4>3 DEF Inductive, Guarded
    <3> QED BY <3>1, <3>2
  <2> QED BY <2>1, <2>2, <2>3
<1>4. /\ asked' \in [Workers -> AuthAddrs \cup {Null}]
      /\ \A v \in Workers : v # w => asked'[v] = asked[v]
  <2>1. authHandlers[request[w].uri] \in AuthAddrs \cup {Null}
    BY <1>2 DEF Inductive, TypeOK
  <2> QED BY <1>2, <2>1
       DEF RequestUnguarded, AuthorizeBegins, RequestPasses, requestVars, Inductive, TypeOK
<1>5. PICK l \in {"authorizing", "serve"} : Goto(w, l) /\ (l = "serve" => asked'[w] = Null)
                                         /\ (l = "authorizing" => asked'[w] # Null)
  BY <1>3
<1>6. /\ pc' \in [Threads -> Locations]
      /\ \A t \in Clients : pc'[t] = pc[t]
      /\ pc'[w] = l /\ \A v \in Workers : v # w => pc'[v] = pc[v]
      /\ Places' /\ Reaches' /\ Listed' /\ Owned' /\ Wanted'
  BY <1>1, <1>5, WorkerFrame
<1>7. UNCHANGED <<endpoint, exposed, auth, handlers, authHandlers, waits>>
  BY <1>1 DEF objectVars, serverVars
<1>8. TypeOK'
  BY <1>1, <1>4, <1>6, <1>7 DEF Inductive, TypeOK
<1>9. Installed'
  <2>1. \A v \in Workers : pc'[v] = "idle" <=> pc[v] = "idle"
    BY <1>1, <1>6
  <2> QED BY <1>1, <1>6, <1>7, <2>1, SameInstalled DEF Inductive
<1>10. Asking'
  <2>1. waits => \A v \in Workers : asked'[v] # Null => asked'[v] = authHandlers[request[v].uri]
    BY <1>3, <1>4 DEF Inductive, Asking
  <2>2. \A v \in Workers : asked'[v] # Null <=> pc'[v] = "authorizing"
    BY <1>4, <1>5, <1>6 DEF Inductive, Asking
  <2> QED BY <1>1, <1>7, <2>1, <2>2 DEF Asking
<1>11. Guarded'
  <2>1. \A t \in Clients : Password(t)' = Password(t)
    BY <1>1, <1>6, <1>7 DEF Password
  <2>2. GuardKept'
    <3> SUFFICES ASSUME waits, NEW v \in Workers, pc'[v] = "serve"
                 PROVE  request[v].cred \in valid[v]
      BY <1>1, <1>7 DEF GuardKept
    <3>1. CASE v = w
      <4>1. asked'[w] = Null
        BY <1>5, <1>6, <3>1
      <4> QED BY <1>3, <3>1, <4>1
    <3>2. CASE v # w
      BY <1>6, <3>2 DEF Inductive, Guarded, GuardKept
    <3> QED BY <3>1, <3>2
  <2>3. \A v \in Uris : handlers[v] # Null =>
          IF authHandlers[v] = Null THEN accepted[v] = Credentials
          ELSE \/ auth[authHandlers[v]] \in accepted[v]
               \/ \E t \in Clients :
                    pc'[t] = "store_auth" /\ call[t].uri = v /\ call[t].arg = authHandlers[v]
    BY <1>6 DEF Inductive, Guarded
  <2> QED BY <1>1, <1>7, <2>1, <2>2, <2>3 DEF Inductive, Guarded
<1> QED BY <1>6, <1>8, <1>9, <1>10, <1>11 DEF Inductive

\* The request is over.
LEMMA RequestEndsStep ==
  ASSUME Inductive, NEW w \in Workers, RequestRefused(w) \/ RequestServed(w)
  PROVE  Inductive'
<1>1. /\ Goto(w, "idle")
      /\ request' = [request EXCEPT ![w] = Null] /\ pinned' = [pinned EXCEPT ![w] = Null]
      /\ valid' = [valid EXCEPT ![w] = {}]
      /\ UNCHANGED <<endpoints, mutex, gone, objectVars, serverVars, call, reached, accepted, wanted>>
  BY DEF RequestRefused, RequestServed, RequestEnds
<1>2. /\ pc' \in [Threads -> Locations]
      /\ \A t \in Clients : pc'[t] = pc[t]
      /\ pc'[w] = "idle" /\ \A v \in Workers : v # w => pc'[v] = pc[v]
      /\ Places' /\ Reaches' /\ Listed' /\ Owned' /\ Wanted'
  BY <1>1, WorkerFrame
<1>3. UNCHANGED <<endpoint, exposed, auth, handlers, authHandlers, waits>>
  BY <1>1 DEF objectVars, serverVars
<1>4. /\ request'[w] = Null /\ pinned'[w] = Null
      /\ \A v \in Workers : v # w =>
           request'[v] = request[v] /\ pinned'[v] = pinned[v] /\ valid'[v] = valid[v]
  BY <1>1 DEF Inductive, TypeOK
<1>5. asked' = [asked EXCEPT ![w] = Null]
  <2>1. CASE RequestServed(w)
    <3>1. asked[w] = Null
      BY <2>1 DEF RequestServed, Inductive, Asking
    <3> QED BY <2>1, <3>1 DEF RequestServed, Inductive, TypeOK
  <2>2. CASE RequestRefused(w)
    BY <2>2 DEF RequestRefused
  <2> QED BY <2>1, <2>2
<1>6. TypeOK'
  <2>1. /\ request' \in [Workers -> Requests \cup {Null}] /\ valid' \in [Workers -> SUBSET Credentials]
        /\ pinned' \in [Workers -> EndpointAddrs \cup {Null}]
        /\ asked' \in [Workers -> AuthAddrs \cup {Null}]
    BY <1>1, <1>5 DEF Inductive, TypeOK
  <2> QED BY <1>1, <1>2, <1>3, <2>1 DEF Inductive, TypeOK
<1>7. Installed'
  <2>1. \A v \in Workers : (pc'[v] = "idle" <=> request'[v] = Null)
          /\ (pinned'[v] # Null <=> request'[v] # Null)
    BY <1>2, <1>4 DEF Inductive, Installed
  <2>2. \A v \in Workers : request'[v] # Null => pinned'[v] = handlers[request'[v].uri]
    BY <1>4 DEF Inductive, Installed
  <2> QED BY <1>1, <1>2, <1>3, <2>1, <2>2 DEF Inductive, Installed
<1>8. Guarded'
  BY <1>1, <1>2, <1>3, <1>4, SameGuarded DEF Inductive
<1>9. Asking'
  <2>1. asked'[w] = Null /\ \A v \in Workers : v # w => asked'[v] = asked[v]
    BY <1>5 DEF Inductive, TypeOK
  <2> QED BY <1>2, <1>3, <1>4, <2>1 DEF Inductive, Asking
<1> QED BY <1>2, <1>6, <1>7, <1>8, <1>9 DEF Inductive

-----------------------------------------------------------------------------
\* Every step keeps the invariant.
LEMMA InductiveStep ==
  ASSUME Inductive, [Next]_vars
  PROVE  Inductive'
<1>1. CASE UNCHANGED vars
  <2>1. UNCHANGED <<endpoints, mutex, gone, endpoint, exposed, auth, handlers, authHandlers, pc,
                    call, reached, request, pinned, asked, waits, valid, accepted, wanted>>
    BY <1>1 DEF vars
  <2>2. TypeOK' /\ Places' /\ Reaches'
    BY <2>1 DEF Inductive, TypeOK, Places, Reaches
  <2>3. Listed'
    BY <2>1, SameListed DEF Inductive, Listed
  <2>4. Installed' /\ Owned' /\ Guarded' /\ Asking' /\ Wanted'
    BY <2>1, SameInstalled, SameOwned, SameGuarded, SameAsking, SameWanted DEF Inductive
  <2> QED BY <2>2, <2>3, <2>4 DEF Inductive
<1>2. ASSUME NEW t \in Clients, NEW c \in Calls, CallFinds(t, c) \/ CallBuilds(t, c)
      PROVE  Inductive'
  BY <1>2, CallFindsStep, CallBuildsStep
<1>3. ASSUME NEW t \in Clients,
             DestructionBegins(t) \/ ExposerBegins(t) \/ ClientContinues(t)
      PROVE  Inductive'
  BY <1>3, InstallsHandlerStep, AppendsEndpointStep, RegistersStep, CreatesAuthStep,
     InstallsAuthStep, StoresAuthStep, TurnsStep, UninstallsStep, FreesEndpointStep
     DEF ClientContinues
<1>4. ASSUME NEW w \in Workers, NEW u \in Uris, NEW cred \in Credentials, RequestArrives(w, u, cred)
      PROVE  Inductive'
  BY <1>4, RequestArrivesStep
<1>5. ASSUME NEW w \in Workers, WorkerContinues(w)
      PROVE  Inductive'
  BY <1>5, RequestGoesOnStep, RequestEndsStep DEF WorkerContinues
<1> QED BY <1>1, <1>2, <1>3, <1>4, <1>5 DEF Next

\* The invariant holds throughout.
LEMMA InductiveHolds == Spec => []Inductive
<1>1. Inductive /\ [Next]_vars => Inductive'
  BY InductiveStep
<1> QED BY InductiveInit, <1>1, PTL DEF Spec

\* Every variable of Exposer keeps its type, and a client inside a call has the
\* mutex.
THEOREM TypeCorrect == Spec => []TypeOK
<1>1. Inductive => TypeOK
  BY DEF Inductive
<1> QED BY InductiveHolds, <1>1, PTL

\* GetEndpointForUri makes one endpoint for a URI, whoever asks for it, and the
\* list has it once.
THEOREM UrisAreUnique == Spec => []OneEndpointPerUri
<1>1. Inductive => OneEndpointPerUri
  <2> SUFFICES ASSUME Inductive, NEW i \in DOMAIN endpoints, NEW j \in DOMAIN endpoints,
                      endpoint[endpoints[i]].uri = endpoint[endpoints[j]].uri
               PROVE  i = j
    BY DEF OneEndpointPerUri
  <2>1. /\ endpoints[i] \in EndpointAddrs /\ endpoint[endpoints[i]] # Null
        /\ endpoints[j] \in EndpointAddrs /\ endpoint[endpoints[j]] # Null
    BY DEF Inductive, TypeOK, Listed, Elements
  <2>2. endpoints[i] = endpoints[j]
    BY <2>1 DEF Inductive, Listed
  <2> QED BY <2>2 DEF Inductive, Listed, Distinct
<1> QED BY InductiveHolds, <1>1, PTL

\* CivetServer never has a handler that has been destroyed, no request runs in a
\* MetricsHandler that has, and none in a BasicAuthHandler that has if the server waits
\* for the requests in it before it replaces it.
THEOREM InstalledAreAlive == Spec => []InstalledAlive
<1>1. Inductive => InstalledAlive
  <2> SUFFICES ASSUME Inductive PROVE InstalledAlive
    OBVIOUS
  <2>1. \A u \in Uris : authHandlers[u] # Null => auth[authHandlers[u]] # Null
    BY AuthAlive
  <2>2. \A u \in Uris : handlers[u] # Null =>
          endpoint[handlers[u]] # Null /\ endpoint[handlers[u]].uri = u
    BY DEF Inductive, Installed
  <2>3. ASSUME NEW w \in Workers, pinned[w] # Null
        PROVE  endpoint[pinned[w]] # Null
    <3>1. /\ request[w] # Null /\ request[w].uri \in Uris
          /\ pinned[w] = handlers[request[w].uri]
      BY <2>3 DEF Inductive, Installed, TypeOK, Requests
    <3> QED BY <2>2, <2>3, <3>1
  <2>4. ASSUME waits, NEW w \in Workers, asked[w] # Null
        PROVE  auth[asked[w]] # Null
    <3>1. request[w].uri \in Uris /\ asked[w] = authHandlers[request[w].uri]
      BY <2>4 DEF Inductive, Asking, Installed, TypeOK, Requests
    <3> QED BY <2>1, <2>4, <3>1
  <2> QED BY <2>1, <2>2, <2>3, <2>4 DEF InstalledAlive
<1> QED BY InductiveHolds, <1>1, PTL

\* No request is served that did not have the right credentials, if the server waits
\* for the requests in an authorization handler before it replaces it.
THEOREM RequestsAreGuarded == Spec => []GuardKept
<1>1. Inductive => GuardKept
  BY DEF Inductive, Guarded
<1> QED BY InductiveHolds, <1>1, PTL

\* A URI is served with what has been registered for it.
THEOREM RegisteredIsServed == Spec => []ServesWhatIsRegistered
<1>1. Inductive => ServesWhatIsRegistered
  <2> SUFFICES ASSUME Inductive, NEW u \in Uris, handlers[u] # Null
               PROVE  exposed[handlers[u]] = wanted[u] \cup {Own}
    BY DEF ServesWhatIsRegistered
  <2>1. handlers[u] \in EndpointAddrs /\ endpoint[handlers[u]] # Null /\ endpoint[handlers[u]].uri = u
    BY DEF Inductive, TypeOK, Installed
  <2> QED BY <2>1 DEF Inductive, Wanted
<1> QED BY InductiveHolds, <1>1, PTL

=============================================================================
