CONSTANTS
  NumMembers = 3
  MaxParallel = 2
  Logs <- MCLogs
SPECIFICATION Spec
CHECK_DEADLOCK FALSE
INVARIANTS ReportsDeadlocked DependencyOrder RunApart SkipsAreCaused ExitTellsAll
PROPERTIES GameDayEnds
