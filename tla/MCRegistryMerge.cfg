SPECIFICATION Spec
CONSTANTS
  Threads = {t1, t2, t3}
  NoThread = NoThread
  Null = Null
  FamilyAddrs = {f1, f2}
  MetricAddrs = {m1, m2}
  FamilySpecs <- MergeSpecs
  LabelMaps <- MergeLabels
  InvalidNames = {"0"}
  InvalidLabelNames = {"__r"}
  InsertBehavior = "Merge"
SYMMETRY Symmetries
INVARIANTS
  TypeOK
  NamesUnique
  HandlesDesignate
  IteratorsValid
  CollectedValid
  SeriesUnique
  NoSeriesMissed
PROPERTIES
  MetricsStable
