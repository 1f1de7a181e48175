CONSTANTS
  Plans <- MCElasticsearch
  Drills <- MCDrills
  MaxPolls = 1
  PutFileAttempts = 2
SPECIFICATION Spec
CHECK_DEADLOCK FALSE
INVARIANTS NoFalseGreen
