\* Two devices join with the same code.
CONSTANTS
  Device = {d1, d2, d3}
  Initiator = d1
  NoDevice = NoDevice
  Req = {r1, r2}
  Policies <- MCPolicies
  MaxUploads = 1
SPECIFICATION Spec
INVARIANTS
  JoinerConsented
CHECK_DEADLOCK FALSE
