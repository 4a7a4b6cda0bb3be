SPECIFICATION FairSpec
CONSTANTS
  Accounts = {a1}
  Spellings = {s1}
  IdleAfter = 1
  TimersFail = TRUE
  EagerCallers = TRUE
PROPERTIES StopCompletes AccountsKeepSyncing
CHECK_DEADLOCK FALSE
