CONSTANTS
  MaxSigned = 3
  MaxLines = 4
  MaxEdits = 2
  Inventions = {"forged", "foreign", "value", "fragment"}
  Excesses = {0, 1, 2, 3}
SPECIFICATION Spec
CHECK_DEADLOCK FALSE
INVARIANTS VerdictIsRight VerifiersAgree
