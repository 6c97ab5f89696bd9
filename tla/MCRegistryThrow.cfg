SPECIFICATION FairSpec
CONSTANTS
  Threads = {t1, t2}
  NoThread = NoThread
  Null = Null
  FamilyAddrs = {f1, f2}
  MetricAddrs = {m1}
  FamilySpecs <- ThrowSpecs
  LabelMaps <- ThrowLabels
  InvalidNames = {"0"}
  InvalidLabelNames = {"__r"}
  InsertBehavior = "Throw"
INVARIANTS
  NeverSharedIfThrow
PROPERTIES
  EveryCallReturns
