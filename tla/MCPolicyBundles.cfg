\* Versions up to 3: each of two replacements may meet the other before or after
\* its read.
CONSTANTS
  Level = {"SECRET", "TOP_SECRET"}
  Default <- MCDefault
  Draft <- MCDraft
  Minutes = {0, 1, 2}
  Request = {r1, r2}
  Null = Null
  MaxVersion = 3
SPECIFICATION PolicySpec
SYMMETRY Symmetry
INVARIANTS
  FallbackHasRelay
PROPERTIES
  OneCurrentVersion
CHECK_DEADLOCK FALSE
