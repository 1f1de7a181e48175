CONSTANTS
  NumChecks = 3
  AdapterCodes <- MCRegistryCodes
SPECIFICATION Spec
CHECK_DEADLOCK FALSE
INVARIANTS FailIsOwn
