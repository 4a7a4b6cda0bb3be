SPECIFICATION Spec
CONSTANTS
  Accounts = {a1}
  Spellings = {s1}
  IdleAfter = 1
  TimersFail = FALSE
  EagerCallers = FALSE
INVARIANTS ResumeReachesAll
CHECK_DEADLOCK FALSE
