SPECIFICATION FairSpec
CONSTANTS
  Base = 2
  Max = 4
  NumJobs = 4
  SpawnsFail = TRUE
INVARIANTS IdleIsCounted NoLostWakeUp AllJoined
PROPERTIES ImplementsJobPool EveryJobBegins ShutdownReturns
