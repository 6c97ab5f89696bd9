SPECIFICATION FairSpec
CONSTANTS
  Threads = {t1, t2}
  NoThread = NoThread
  MaxAge = 6
  AgeBuckets = 3
  Quantiles = 2
  MaxTime = 9
  MaxCalls = 3
INVARIANTS TypeOK
PROPERTIES
  KeepsRecent
  ForgetsOld
  AnswersConsistent
  EveryCallReturns
