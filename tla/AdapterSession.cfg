CONSTANTS
  Ops = {"probe", "provision", "teardown"}
  MaxQueued = 2
  Holdings <- MCHoldings
SPECIFICATION Spec
INVARIANTS NothingLeftBehind BelievedAnswer CancelledAnswerStands AnswerNotLost LastWordsKept
PROPERTIES CallReturns
