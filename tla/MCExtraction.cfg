\* The clock runs, so that the item may expire unmarked.  One scope key: two requests
\* compete for its attempt, two completions are a call and its repetition.
CONSTANTS
  Caller = {c1}
  Horizon = 1
  Scope = {s1}
  Req = {r1, r2}
  NoScope = NoScope
  MaxRetrievals = 2
  MaxCompletions = 2
SPECIFICATION Spec
SYMMETRY Symmetry
INVARIANTS
  TypeOK
  ChargedOnce
PROPERTIES
  RevocationDrains
CHECK_DEADLOCK FALSE
