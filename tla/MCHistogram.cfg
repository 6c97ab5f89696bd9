SPECIFICATION Spec
CONSTANTS
  Threads = {t1, t2}
  NoThread = NoThread
  Boundaries <- MCBoundaries
  Values <- MCValues
  Bulks <- MCBulks
  NoCall = NoCall
  NoAnswer = NoAnswer
  MaxCalls = 2
SYMMETRY Symmetries
INVARIANTS TypeOK
PROPERTIES
  AnswersExact
  RefinesAtomicHistogram
