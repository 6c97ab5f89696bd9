---------------------------- MODULE GaugeProofs ----------------------------
(***************************************************************************)
(* Theorems about Gauge and Counter, for any number of threads, any        *)
(* amounts and any bounds on calls and spurious failures.                  *)
(***************************************************************************)
EXTENDS Gauge, TLAPS

\* What the initial state and each step mean for the invariant.
Inductive ==
  /\ TypeOK
  /\ \A t \in Threads : type = "Counter" => current[t] >= 0

\* A thread in Change adds an integer, to a Counter a non-negative one.
LEMMA AmountInProgress ==
  ASSUME TypeOK, NEW t \in Threads, pc[t] # "idle"
  PROVE  amount[t] \in Int /\ (type = "Counter" => amount[t] >= 0)
<1>1. amount[t] # NoCall /\ amount[t] \in Amounts
  BY DEF TypeOK
<1>2. amount[t] \in Int
  BY <1>1, AmountsAssumption
<1>3. type = "Counter" => amount[t] >= 0
  BY <1>1 DEF TypeOK
<1> QED BY <1>2, <1>3

\* Every step preserves types and signs.
LEMMA TypeStep ==
  ASSUME Inductive, [Next]_vars
  PROVE  Inductive'
<1> USE AmountsAssumption, AmountsClosed, BoundsAssumption DEF Inductive, TypeOK, config
<1>1. CASE UNCHANGED vars
  BY <1>1 DEF vars
<1>2. ASSUME NEW t \in Threads, NEW d \in Amounts, GaugeIncrement(t, d)
      PROVE  Inductive'
  BY <1>2 DEF GaugeIncrement, Change
<1>3. ASSUME NEW t \in Threads, NEW d \in Amounts, GaugeDecrement(t, d)
      PROVE  Inductive'
  BY <1>3 DEF GaugeDecrement, Change
<1>4. ASSUME NEW t \in Threads, NEW d \in Amounts, GaugeSet(t, d)
      PROVE  Inductive'
  BY <1>4 DEF GaugeSet, Store
<1>5. ASSUME NEW t \in Threads, NEW d \in Amounts, CounterIncrement(t, d)
      PROVE  Inductive'
  BY <1>5 DEF CounterIncrement, CounterAccepts, Change
<1>6. ASSUME NEW t \in Threads, NEW d \in Amounts, CounterIgnores(t, d)
      PROVE  Inductive'
  BY <1>6 DEF CounterIgnores, vars
<1>7. ASSUME NEW t \in Threads, CounterReset(t)
      PROVE  Inductive'
  BY <1>7 DEF CounterReset, Store
<1>8. ASSUME NEW t \in Threads, FetchAdd(t)
      PROVE  Inductive'
  <2>1. amount[t] \in Int /\ (type = "Counter" => amount[t] >= 0)
    BY <1>8, AmountInProgress DEF FetchAdd
  <2> QED BY <1>8, <2>1 DEF FetchAdd
<1>9. ASSUME NEW t \in Threads, Load(t)
      PROVE  Inductive'
  BY <1>9 DEF Load
<1>10. ASSUME NEW t \in Threads, Exchange(t)
       PROVE  Inductive'
  <2>1. amount[t] \in Int /\ (type = "Counter" => amount[t] >= 0)
    BY <1>10, AmountInProgress DEF Exchange
  <2> QED BY <1>10, <2>1 DEF Exchange
<1>11. ASSUME NEW t \in Threads, ExchangeFails(t)
       PROVE  Inductive'
  BY <1>11 DEF ExchangeFails, Seen
<1>12. ASSUME NEW t \in Threads, ExchangeFailsSpuriously(t)
       PROVE  Inductive'
  BY <1>12 DEF ExchangeFailsSpuriously
<1> QED
  BY <1>1, <1>2, <1>3, <1>4, <1>5, <1>6, <1>7, <1>8, <1>9, <1>10, <1>11, <1>12
  DEF Next, Step

\* The initial state is typed.
LEMMA TypeInit == Init => Inductive
BY AmountsAssumption, BoundsAssumption DEF Init, Inductive, TypeOK

\* Every variable keeps its type and a Counter is never negative.
THEOREM TypeCorrect == Spec => []TypeOK
<1>1. Inductive /\ [Next]_vars => Inductive'
  BY TypeStep
<1>2. Inductive => TypeOK
  BY DEF Inductive
<1> QED BY TypeInit, <1>1, <1>2, PTL DEF Spec

-----------------------------------------------------------------------------
\* Every step is one of AtomicGauge, or changes nothing it sees: a call of
\* Change, the fetch_add or the successful exchange, a store; loads and failed
\* exchanges are invisible.
LEMMA RefinementStep ==
  ASSUME TypeOK, [Next]_vars
  PROVE  [Atomic!Next]_(Atomic!vars)
<1> USE AmountsAssumption, AmountsClosed DEF TypeOK, config, Atomic!vars
<1>1. CASE UNCHANGED vars
  BY <1>1 DEF vars
<1>2. ASSUME NEW t \in Threads, NEW d \in Amounts, Change(t, d)
      PROVE  Atomic!Call(t, d)
  BY <1>2 DEF Change, Atomic!Call
<1>3. ASSUME NEW t \in Threads, NEW v \in Amounts, Store(t, v)
      PROVE  Atomic!Set(t, v)
  BY <1>3 DEF Store, Atomic!Set
<1>4. ASSUME NEW t \in Threads, FetchAdd(t)
      PROVE  Atomic!Apply(t)
  BY <1>4 DEF FetchAdd, Atomic!Apply
<1>5. ASSUME NEW t \in Threads, Exchange(t)
      PROVE  Atomic!Apply(t)
  BY <1>5 DEF Exchange, Matches, Atomic!Apply
<1>6. ASSUME NEW t \in Threads,
             \/ Load(t) \/ ExchangeFails(t) \/ ExchangeFailsSpuriously(t)
             \/ \E d \in Amounts : CounterIgnores(t, d)
      PROVE  UNCHANGED Atomic!vars
  BY <1>6 DEF Load, ExchangeFails, ExchangeFailsSpuriously, CounterIgnores, vars
<1>7. ASSUME NEW t \in Threads, NEW d \in Amounts,
             \/ GaugeIncrement(t, d) \/ GaugeDecrement(t, d)
             \/ CounterIncrement(t, d)
      PROVE  \E e \in Amounts : Atomic!Call(t, e)
  <2>1. d \in Amounts /\ -1 * d \in Amounts
    OBVIOUS
  <2>2. Change(t, d) \/ Change(t, -1 * d)
    BY <1>7 DEF GaugeIncrement, GaugeDecrement, CounterIncrement
  <2> QED BY <2>1, <2>2, <1>2
<1>8. ASSUME NEW t \in Threads, NEW d \in Amounts, GaugeSet(t, d) \/ CounterReset(t)
      PROVE  \E e \in Amounts : Atomic!Set(t, e)
  BY <1>8, <1>3 DEF GaugeSet, CounterReset
<1> QED
  BY <1>1, <1>4, <1>5, <1>6, <1>7, <1>8 DEF Next, Step, Atomic!Next

\* Gauge::Change, with fetch_add or with the compare_exchange_weak loop, is
\* atomic: no change is lost or applied twice.
THEOREM GaugeIsAtomic == Spec => RefinesAtomicGauge
<1>1. Init => Atomic!Init
  BY DEF Init, Atomic!Init
<1>2. TypeOK /\ [Next]_vars => [Atomic!Next]_(Atomic!vars)
  BY RefinementStep
<1> QED
  BY <1>1, <1>2, TypeCorrect, PTL DEF Spec, RefinesAtomicGauge, Atomic!Spec

\* The value of a Counter goes down only by being reset.
THEOREM CounterIsMonotone == Spec => CounterMonotone
<1>1. TypeOK /\ [Next]_vars => [type = "Counter" /\ value' < value => value' = 0]_vars
  <2> SUFFICES ASSUME TypeOK, [Next]_vars
               PROVE  type = "Counter" /\ value' < value => value' = 0
    OBVIOUS
  <2>1. CASE \E t \in Threads : \/ FetchAdd(t) \/ Exchange(t)
    <3>1. PICK t \in Threads : FetchAdd(t) \/ Exchange(t)
      BY <2>1
    <3>2. amount[t] \in Int /\ (type = "Counter" => amount[t] >= 0)
      BY <3>1, AmountInProgress DEF FetchAdd, Exchange
    <3>3. value' = value + amount[t] /\ value \in Int
      BY <3>1 DEF FetchAdd, Exchange, Matches, TypeOK
    <3> QED BY <3>2, <3>3
  <2>2. CASE \E t \in Threads : CounterReset(t)
    BY <2>2 DEF CounterReset, Store
  <2>3. CASE \E t \in Threads : \E d \in Amounts : GaugeSet(t, d)
    BY <2>3 DEF GaugeSet
  <2>4. CASE value' = value
    BY <2>4 DEF TypeOK
  <2> QED
    BY <2>1, <2>2, <2>3, <2>4
    DEF Next, Step, GaugeIncrement, GaugeDecrement, CounterIncrement, CounterIgnores,
        Change, Load, ExchangeFails, ExchangeFailsSpuriously, vars
<1> QED BY <1>1, TypeCorrect, PTL DEF Spec, CounterMonotone
=============================================================================
