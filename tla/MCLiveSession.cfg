\* Two overlapping requests; the initiator and one other device.
CONSTANTS
  Device = {d1, d2}
  Initiator = d1
  NoDevice = NoDevice
  Req = {r1, r2}
  Policies <- MCPolicies
  MaxUploads = 2
SPECIFICATION Spec
SYMMETRY Symmetry
INVARIANTS
  TypeOK
  BothSidesConfirmed
  TransportAllowed
PROPERTIES
  EndedStaysEnded
CHECK_DEADLOCK FALSE
