SPECIFICATION Spec
CONSTANTS
  Clients = {c1, c2}
  Workers = {w1, w2}
  NoThread = NoThread
  Null = Null
  Uris = {u1, u2}
  Collectables = {r}
  Own = Own
  EndpointAddrs = {e1, e2}
  AuthAddrs = {a1, a2, a3}
  Passwords = {p1, p2}
SYMMETRY Symmetry
INVARIANTS InstalledAlive GuardKept ServesWhatIsRegistered
