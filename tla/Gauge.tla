------------------------------- MODULE Gauge -------------------------------
(***************************************************************************)
(* prometheus::Gauge and prometheus::Counter: one std::atomic<double> that *)
(* several threads change.  Gauge::Change is one fetch_add where the       *)
(* library has it for floating point (C++20), and otherwise a load and a   *)
(* compare_exchange_weak loop, which may fail though the value is the      *)
(* expected one.  A Counter is a Gauge that drops negative increments and  *)
(* can be reset.  Doubles are integers here: rounding is not modelled.     *)
(***************************************************************************)
EXTENDS Integers

CONSTANTS
  Threads,
  Amounts,      \* the arguments of Increment, Decrement and Set
  NoCall,       \* no Change in progress
  MaxCalls,     \* bound on the calls of a behaviour
  MaxSpurious   \* bound on the spurious failures of compare_exchange_weak

ASSUME AmountsAssumption == Amounts \subseteq Int /\ NoCall \notin Int
ASSUME AmountsClosed == 0 \in Amounts /\ 1 \in Amounts /\ \A d \in Amounts : -1 * d \in Amounts
ASSUME BoundsAssumption == MaxCalls \in Nat /\ MaxSpurious \in Nat

VARIABLES
  type,      \* "Gauge" or "Counter": what the object is
  fetchAdd,  \* __cpp_lib_atomic_float >= 201711L: how it was built
  value,     \* Gauge::value_
  pc,        \* where each thread is in Change
  amount,    \* Change: its argument
  current,   \* Change: what the thread expects the value to be
  calls,     \* number of calls so far
  spurious   \* number of spurious failures so far

config == <<type, fetchAdd>>
vars == <<type, fetchAdd, value, pc, amount, current, calls, spurious>>

Init ==
  /\ type \in {"Gauge", "Counter"}
  /\ fetchAdd \in BOOLEAN
  /\ value = 0
  /\ pc = [t \in Threads |-> "idle"]
  /\ amount = [t \in Threads |-> NoCall]
  /\ current = [t \in Threads |-> 0]
  /\ calls = 0
  /\ spurious = 0

-----------------------------------------------------------------------------
(* The public methods.                                                     *)

\* Change(d) is called: the thread is about to touch the value.
Change(t, d) ==
  /\ pc[t] = "idle" /\ calls < MaxCalls
  /\ calls' = calls + 1
  /\ pc' = [pc EXCEPT ![t] = IF fetchAdd THEN "add" ELSE "load"]
  /\ amount' = [amount EXCEPT ![t] = d]
  /\ UNCHANGED <<config, value, current, spurious>>

\* value_.store.
Store(t, v) ==
  /\ pc[t] = "idle" /\ calls < MaxCalls
  /\ calls' = calls + 1
  /\ value' = v
  /\ UNCHANGED <<config, pc, amount, current, spurious>>

GaugeIncrement(t, d) == type = "Gauge" /\ Change(t, d)
GaugeDecrement(t, d) == type = "Gauge" /\ Change(t, -1 * d)

\* Set, and SetToCurrentTime with the time as v.
GaugeSet(t, v) == type = "Gauge" /\ Store(t, v)

\* A negative amount is ignored.
IncrementsUnchecked(d) == TRUE
CounterAccepts(d) == ~ (d < 0)

CounterIncrement(t, d) ==
  /\ type = "Counter"
  /\ CounterAccepts(d)
  /\ Change(t, d)

CounterIgnores(t, d) ==
  /\ type = "Counter" /\ pc[t] = "idle"
  /\ ~ CounterAccepts(d)
  /\ UNCHANGED vars

CounterReset(t) == type = "Counter" /\ Store(t, 0)

-----------------------------------------------------------------------------
(* Gauge::Change.                                                          *)

FetchAdd(t) ==
  /\ pc[t] = "add"
  /\ value' = value + amount[t]
  /\ pc' = [pc EXCEPT ![t] = "idle"]
  /\ amount' = [amount EXCEPT ![t] = NoCall]
  /\ UNCHANGED <<config, current, calls, spurious>>

Load(t) ==
  /\ pc[t] = "load"
  /\ current' = [current EXCEPT ![t] = value]
  /\ pc' = [pc EXCEPT ![t] = "exchange"]
  /\ UNCHANGED <<config, value, amount, calls, spurious>>

\* When the exchange may take place: the value is the expected one.
StoresBlindly(t) == TRUE
Matches(t) == value = current[t]

Exchange(t) ==
  /\ pc[t] = "exchange" /\ Matches(t)
  /\ value' = current[t] + amount[t]
  /\ pc' = [pc EXCEPT ![t] = "idle"]
  /\ amount' = [amount EXCEPT ![t] = NoCall]
  /\ UNCHANGED <<config, current, calls, spurious>>

\* A failed exchange leaves the value it saw in current, and the loop goes on.
KeepsExpecting(t) == current[t]
Seen(t) == value
ExchangeFails(t) ==
  /\ pc[t] = "exchange" /\ ~ Matches(t)
  /\ current' = [current EXCEPT ![t] = Seen(t)]
  /\ UNCHANGED <<config, value, pc, amount, calls, spurious>>

ExchangeFailsSpuriously(t) ==
  /\ pc[t] = "exchange" /\ Matches(t)
  /\ spurious < MaxSpurious
  /\ spurious' = spurious + 1
  /\ UNCHANGED <<config, value, pc, amount, current, calls>>

-----------------------------------------------------------------------------
Step(t) == FetchAdd(t) \/ Load(t) \/ Exchange(t) \/ ExchangeFails(t)

Next == \E t \in Threads :
  \/ \E d \in Amounts :
       \/ GaugeIncrement(t, d) \/ GaugeDecrement(t, d) \/ GaugeSet(t, d)
       \/ CounterIncrement(t, d) \/ CounterIgnores(t, d)
  \/ CounterReset(t)
  \/ Step(t)
  \/ ExchangeFailsSpuriously(t)

Spec == Init /\ [][Next]_vars

\* A thread in Change goes on running.
FairSpec == Spec /\ \A t \in Threads : WF_vars(Step(t))

-----------------------------------------------------------------------------
(* Properties.                                                             *)

\* Every variable has its type, a thread in Change has an amount to add, and a
\* Counter is never negative and never on its way down.
TypeOK ==
  /\ type \in {"Gauge", "Counter"} /\ fetchAdd \in BOOLEAN
  /\ value \in Int
  /\ pc \in [Threads -> {"idle", "add", "load", "exchange"}]
  /\ amount \in [Threads -> Amounts \cup {NoCall}]
  /\ \A t \in Threads : amount[t] = NoCall <=> pc[t] = "idle"
  /\ current \in [Threads -> Int]
  /\ calls \in 0 .. MaxCalls
  /\ spurious \in 0 .. MaxSpurious
  /\ type = "Counter" =>
       /\ value >= 0
       /\ \A t \in Threads : amount[t] # NoCall => amount[t] >= 0

\* Both builds of Gauge::Change keep the promise of AtomicGauge: no change is
\* lost, none is applied twice, and none brings back a value that was replaced.
Atomic == INSTANCE AtomicGauge WITH pending <- amount
RefinesAtomicGauge == Atomic!Spec

\* "The value of the counter can only increase" (counter.h) as long as nobody
\* calls Counter::Reset: a smaller value is the 0 of a reset.
CounterMonotone ==
  [][type = "Counter" /\ value' < value => value' = 0]_vars

\* The compare_exchange_weak loop is lock-free: with finitely many calls and
\* spurious failures every call of Change returns.
ChangeReturns == \A t \in Threads : pc[t] # "idle" ~> pc[t] = "idle"
=============================================================================
