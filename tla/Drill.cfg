CONSTANTS
  NumChecks = 3
  AdapterCodes <- MCAdapterCodes
SPECIFICATION Spec
CHECK_DEADLOCK FALSE
INVARIANTS DrillInv ExitTellsLog PassIsProven CheckFailedIsReached CleanedUpFirst TeardownToldTruth
PROPERTIES InterruptionOutranks DrillEnds
