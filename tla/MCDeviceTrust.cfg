\* Three devices, two overlapping requests.
CONSTANTS
  Device = {d1, d2, d3}
  NoDevice = NoDevice
  Req = {r1, r2}
  MaxCodes = 1
SPECIFICATION Spec
SYMMETRY Symmetry
INVARIANTS
  TypeOK
  TrustHasWarrant
  BootstrappedOnce
  ResumedOnce
  CodesSpentOnce
PROPERTIES
  ClosedPairingStaysClosed
  OverduePairingDrains
CHECK_DEADLOCK FALSE
