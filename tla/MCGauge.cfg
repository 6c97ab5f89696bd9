SPECIFICATION FairSpec
CONSTANTS
  Threads = {t1, t2, t3}
  Amounts <- MCAmounts
  NoCall = NoCall
  MaxCalls = 4
  MaxSpurious = 1
INVARIANTS TypeOK
PROPERTIES
  RefinesAtomicGauge
  CounterMonotone
  ChangeReturns
CHECK_DEADLOCK FALSE
