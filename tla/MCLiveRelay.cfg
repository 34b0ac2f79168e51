\* Two payloads, the second shorter; a page may be opened anew once.
CONSTANTS
  Sends = 2
  Size <- MCSize
  MaxPairs = 2
SPECIFICATION RelaySpec
INVARIANTS
  OfferedIsThere
  SavedWhole
PROPERTIES
  KeysMeet
CHECK_DEADLOCK FALSE
