CONSTANTS
  Drills <- MCDrills
  Procs <- MCProcs
  Hosts <- MCHosts
  Pids <- MCPids
  ProcOf <- MCProcOf
  HostOf <- MCHostOf
  PidOf <- MCPidOf
  NoTarget = 0
  Tokens = TRUE
  Sites <- MCSites
SPECIFICATION Spec
CHECK_DEADLOCK FALSE
INVARIANTS UsedSandboxStays SweepReclaims
PROPERTIES DataReclaimed
