\* The clock runs, so that links, items and reservations meet expiry; one ticket
\* row alive at a time.  Responses end and handlers finish.
CONSTANTS
  Caller = {c1}
  Horizon = 1
  Link = {l1}
  Ticket = {t1}
  Req = {r1, r2}
  MaxDownloads = 2
  NoLink = NoLink
  NoTicket = NoTicket
SPECIFICATION KeptSpec
PROPERTIES
  EverySlotSettles
  RevocationDrains
CHECK_DEADLOCK FALSE
