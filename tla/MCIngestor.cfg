SPECIFICATION Spec
CONSTANTS
  x1 = x1
  x2 = x2
  p1 = p1
  p2 = p2
  Id <- MCId
  Pass <- TwoPasses
  Absent = Absent
  Lines = 5
  InsertBatch = 2
SYMMETRY MCSymmetry
CHECK_DEADLOCK FALSE
INVARIANTS
  TypeOK
  TableIsImageOfFile
