SPECIFICATION Spec
CONSTANTS
  Accounts = {a1}
  Addresses = {x1}
  Sources = {s1}
  Messages = {}
  RfcIds = {}
  Bodies = {b1}
  Drafts = {d1}
  Rows = {r1, r2}
  Keys = {k1, k2}
  Sessions = {u1}
  Tokens = {t1, t2}
  Workers = {w1, w2}
  None = None
  MaxPending = 1
  ReconcileDeadline = 2
  TTLs = {1}
  Leases = {1}
  Waits = {2}
  Backoffs = {2}
  MaxTime = 2
  MaxRevision = 1
SYMMETRY Symmetry
INVARIANTS RowsReadable AtMostOneAttempt OutcomeIsTrue SearchBeforeDeadline
