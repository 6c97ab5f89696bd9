SPECIFICATION Spec
CONSTANTS
  Clients = {c1, c2}
  Workers = {w1, w2}
  NoThread = NoThread
  Collectables = {a, b}
  Own = Own
  Null = Null
  MaxEntries = 4
  MaxScrapes = 2
SYMMETRY Symmetry
INVARIANTS CollectsAlive ScrapesMeasured StaleBounded
PROPERTIES RefinesCollectableSet
