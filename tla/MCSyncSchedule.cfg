SPECIFICATION Spec
CONSTANTS
  Accounts = {a1, a2}
  Spellings = {s1, s2}
  IdleAfter = 1
  TimersFail = TRUE
  EagerCallers = FALSE
INVARIANTS AccountsAreTended RemovedAccountsOnlyFinish StoppedIsDrained RequestsAreServed LatestSpellingIsTried
SYMMETRY Symmetry
CHECK_DEADLOCK FALSE
