SPECIFICATION MCSpec
CONSTANTS
  Calls = {c1, c2, c3}
  c1 = c1
  c2 = c2
  c3 = c3
  Devices = {d1, d2}
  d1 = d1
  d2 = d2
  Registrations = {asha, ravi}
  asha = asha
  ravi = ravi
  printed = printed
  None = None
  OpeningTicket = None
  OpeningQr = printed
  Regimes <- TicketsInTurn
INVARIANTS RevokedIsRefused
CHECK_DEADLOCK FALSE
