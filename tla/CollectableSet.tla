--------------------------- MODULE CollectableSet ---------------------------
(***************************************************************************)
(* What prometheus::detail::MetricsHandler promises: the collectables that *)
(* are registered and alive form a set.  Registering, removing and the end *)
(* of a collectable's life change it at one moment, a removal touches      *)
(* nothing but what it names, and a scrape shows the set as it was when it *)
(* began, but for what has died since.                                     *)
(***************************************************************************)

CONSTANTS Collectables, Workers

VARIABLES
  exposed,  \* the collectables that are registered and alive
  due,      \* those a scrape in progress has to show
  may,      \* those it may show
  answer    \* those it has shown

setVars == <<exposed, due, may, answer>>

SetInit ==
  /\ exposed \subseteq Collectables
  /\ due = [w \in Workers |-> {}]
  /\ may = [w \in Workers |-> {}]
  /\ answer = [w \in Workers |-> {}]

Register(c) == exposed' = exposed \cup {c} /\ UNCHANGED <<due, may, answer>>

Remove(c) == exposed' = exposed \ {c} /\ UNCHANGED <<due, may, answer>>

\* The last shared_ptr is gone.
Expire(c) ==
  /\ exposed' = exposed \ {c}
  /\ due' = [w \in Workers |-> due[w] \ {c}]
  /\ UNCHANGED <<may, answer>>

ScrapeBegins(w) ==
  /\ due' = [due EXCEPT ![w] = exposed]
  /\ may' = [may EXCEPT ![w] = exposed]
  /\ UNCHANGED <<exposed, answer>>

ScrapeAnswers(w, shown) ==
  /\ due[w] \subseteq shown /\ shown \subseteq may[w]
  /\ answer' = [answer EXCEPT ![w] = shown]
  /\ due' = [due EXCEPT ![w] = {}]
  /\ may' = [may EXCEPT ![w] = {}]
  /\ UNCHANGED exposed

ScrapeEnds(w) ==
  /\ answer' = [answer EXCEPT ![w] = {}]
  /\ UNCHANGED <<exposed, due, may>>

SetNext ==
  \/ \E c \in Collectables : Register(c) \/ Remove(c) \/ Expire(c)
  \/ \E w \in Workers :
       \/ ScrapeBegins(w)
       \/ \E shown \in SUBSET Collectables : ScrapeAnswers(w, shown)
       \/ ScrapeEnds(w)

SetSpec == SetInit /\ [][SetNext]_setVars

=============================================================================
