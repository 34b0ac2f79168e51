\* Two requests: a projection of one may land before, between or after the writes
\* of the other's.
CONSTANTS
  Caller = {c1, c2}
  Horizon = 1
SPECIFICATION ProjectionSpec
SYMMETRY Symmetry
CONSTRAINT ShareNotMissed
INVARIANTS
  ViewsFollow
PROPERTIES
  BurnedStaysGone
CHECK_DEADLOCK FALSE
