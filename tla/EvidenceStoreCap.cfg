CONSTANTS
  w1 = w1  w2 = w2
  r1 = r1  r2 = r2  r3 = r3  r4 = r4  r5 = r5
  NoWriter = NoWriter
  Genesis = Genesis
  Writers <- MCWriters
  Ids <- MCIds
  SizeOf <- MCSizes
  Malformed <- MCMalformed
  MaxRecordBytes = 3
  DirSync = TRUE
SPECIFICATION Spec
SYMMETRY MCSymmetry
INVARIANTS NeverRefused
