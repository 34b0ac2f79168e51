\* Every operation, two overlapping requests, four bodies for two parts of which one fits.
CONSTANTS
  Part = {p1, p2}
  File = {f1, f2, f3, f4}
  Req = {r1, r2}
  NoFile = NoFile
  NoPart = NoPart
  MaxSize = 1
  Quota = 1
  MaxItems = 2
SPECIFICATION Spec
SYMMETRY Symmetry
INVARIANTS
  TypeOK
  PartRowsHaveFiles
  WithinQuota
  FinalizedOnce
  BoundFilesStay
PROPERTIES
  OverdueDrains
CHECK_DEADLOCK FALSE
