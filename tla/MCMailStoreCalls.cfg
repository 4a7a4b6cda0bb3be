SPECIFICATION Spec
CONSTANTS
  h1 = h1
  h2 = h2
  c1 = c1
  c2 = c2
  None = None
  Hosts = {h1}
  Clients = {c1, c2}
  Host <- MCOneHost
  Paths = {p1}
  Databases = {d1}
  Entries = {e1, e2}
  Calls = {q1, q2}
  Operations = {k1}
  MaxPendingRequests = 2
  EagerClients = TRUE
SYMMETRY Twins
INVARIANTS ReferencesAreCounted
PROPERTIES LateEffectsPrecedeReopen OpenedStoresWork ImplementsStore
