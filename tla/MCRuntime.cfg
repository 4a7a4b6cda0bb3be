SPECIFICATION FairSpec
CONSTANTS
  p1 = p1
  p2 = p2
  c1 = c1
  c2 = c2
  c3 = c3
  f1 = f1
  f2 = f2
  Processes = {p1, p2}
  Callers = {c1, c2, c3}
  Host <- MCHost
  Token <- MCToken
  Configs = {f1, f2}
  Wanted <- MCWanted
  Accounts = {a1, a2}
  Entries = {e1, e2}
  None = None
INVARIANTS OneWriter WritersHoldTheLocks LeasesAreLive OwnersAreRegistered LeasesAreCounted
PROPERTIES OwnershipEnds
CHECK_DEADLOCK FALSE
