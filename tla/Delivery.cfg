CONSTANTS
  MaxLogBytes = 1
  LogBound = 2
  Attempts = 3
  NumHooks = 2
  MaxStray = 1
SPECIFICATION Spec
INVARIANTS ReportIsTrue SentIsTheLog
PROPERTIES SelfHealing
