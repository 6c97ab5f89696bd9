SPECIFICATION Spec
CONSTANTS
  Clients = {c1, c2}
  Tasks = {k1, k2}
  NoThread = NoThread
  Null = Null
  Collectables = {a, b}
  EntryUris = {u}
  JobUri = j
  InstanceUri = j
  ContentType = ct
  ExtraHeaders = {h}
  Statuses <- MCStatuses
  MaxEntries = 2
  MaxVersion = 2
  MaxLate = 1
SYMMETRY Symmetry
CONSTRAINT OneClientOrEntry
INVARIANTS RequestsIntact AnswersHonest
PROPERTIES NeverOlder
