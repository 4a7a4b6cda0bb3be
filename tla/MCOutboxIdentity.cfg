SPECIFICATION Spec
CONSTANTS
  Accounts = {a1}
  Addresses = {x1}
  Sources = {s1, s2}
  Messages = {m1}
  RfcIds = {i1}
  Bodies = {b1}
  Drafts = {d1}
  Rows = {r1, r2, r3}
  Keys = {k1, k2, k3}
  Sessions = {u1}
  Tokens = {t1}
  Workers = {w1}
  None = None
  MaxPending = 1
  ReconcileDeadline = 1
  TTLs = {1}
  Leases = {1}
  Waits = {1}
  Backoffs = {}
  MaxTime = 1
  MaxRevision = 2
SYMMETRY Symmetry
INVARIANTS OperationKeysAreUnique RetriesFormChains BacklogIsBounded
PROPERTIES DispatchesAreCurrent
