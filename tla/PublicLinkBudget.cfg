\* The clock stands still; two downloads, aborts and redemptions compete for the
\* slots of a link.
CONSTANTS
  Caller = {c1}
  Horizon = 0
  Link = {l1}
  Ticket = {t1, t2}
  Req = {r1, r2}
  MaxDownloads = 2
  NoLink = NoLink
  NoTicket = NoTicket
SPECIFICATION Spec
SYMMETRY Symmetry
INVARIANTS
  TypeOK
  SlotConservation
  ActiveHasSlots
PROPERTIES
  BudgetSpec
CHECK_DEADLOCK FALSE
