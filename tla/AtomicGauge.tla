---------------------------- MODULE AtomicGauge ----------------------------
(***************************************************************************)
(* What Gauge promises its callers ("thread-safe", gauge.h): every change  *)
(* is applied to the value exactly once, at one moment between the call    *)
(* and its return, and the value moves for no other reason.                *)
(***************************************************************************)
EXTENDS Integers

CONSTANTS Threads, Amounts, NoCall

VARIABLES value,   \* the current value
          pending  \* per thread the amount it is adding, or NoCall

vars == <<value, pending>>

Init == value = 0 /\ pending = [t \in Threads |-> NoCall]

Call(t, d) ==
  /\ pending[t] = NoCall
  /\ pending' = [pending EXCEPT ![t] = d]
  /\ UNCHANGED value

Apply(t) ==
  /\ pending[t] # NoCall
  /\ value' = value + pending[t]
  /\ pending' = [pending EXCEPT ![t] = NoCall]

Set(t, v) ==
  /\ pending[t] = NoCall
  /\ value' = v
  /\ UNCHANGED pending

Next == \E t \in Threads :
  \/ \E d \in Amounts : Call(t, d)
  \/ Apply(t)
  \/ \E v \in Amounts : Set(t, v)

Spec == Init /\ [][Next]_vars
=============================================================================
