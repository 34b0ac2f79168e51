\* One clock tick makes items and shares overdue; both requests work on the one
\* attempt of their reader.
CONSTANTS
  Caller = {c1}
  Horizon = 1
  Scope = {s1}
  Req = {r1, r2}
  NoScope = NoScope
SPECIFICATION Spec
SYMMETRY Symmetry
INVARIANTS
  TypeOK
  ReadOnceCloses
PROPERTIES
  RetrievalDrains
CHECK_DEADLOCK FALSE
