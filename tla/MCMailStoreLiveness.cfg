SPECIFICATION FairSpec
CONSTANTS
  h1 = h1
  h2 = h2
  c1 = c1
  c2 = c2
  None = None
  Hosts = {h1}
  Clients = {c1, c2}
  Host <- MCOneHost
  Paths = {p1, p2}
  Databases = {d1, d2}
  Entries = {e1}
  Calls = {q1}
  Operations = {k1}
  MaxPendingRequests = 1
  EagerClients = FALSE
PROPERTIES CallsSettle OpensSettle
