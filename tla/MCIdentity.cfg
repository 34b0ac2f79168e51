\* Two requests, with a session each.
CONSTANTS
  User = {u1, u2}
  Admin = Admin
  Invite = {i1}
  Token = {t1, t2}
  Upload = {x1}
  Req = {r1, r2}
  None = None
SPECIFICATION Spec
SYMMETRY Symmetry
INVARIANTS
  RemovedOwnsNothing
  RemovalTakesFiles
PROPERTIES
  InvitesDrain
CHECK_DEADLOCK FALSE
