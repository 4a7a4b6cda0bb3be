SPECIFICATION Spec
CONSTANTS
  Accounts = {a1}
  Addresses = {x1}
  Sources = {s1}
  Messages = {}
  RfcIds = {}
  Bodies = {b1, b2}
  Drafts = {d1}
  Rows = {r1, r2}
  Keys = {k1, k2}
  Sessions = {u1, u2}
  Tokens = {t1, t2}
  Workers = {w1}
  None = None
  MaxPending = 1
  ReconcileDeadline = 1
  TTLs = {1}
  Leases = {1}
  Waits = {1}
  Backoffs = {1}
  MaxTime = 1
  MaxRevision = 2
SYMMETRY Symmetry
INVARIANTS AttentionIsExact LiveSendsAreCurrent ApprovalsAreAuthorised
PROPERTIES ImplementsContract
