CONSTANTS
  Plans <- MCPlans
  Drills <- MCDrills
  MaxPolls = 1
  PutFileAttempts = 2
SPECIFICATION Spec
CHECK_DEADLOCK FALSE
INVARIANTS ProvisionInv RestoredDataStays SettledIsRestored CorruptHasCause RefusalHasCause
 
