SPECIFICATION ApprovalsSpec
CONSTANTS
  Calls = {c1, c2}
  hall = hall
  stage_rig = stage_rig
  wire = wire
  venue = venue
  NoRow = NoRow
  Categories = {venue}
  Requests <- MoneyRequests
  MaxAttempts = 2
  StaleReads = FALSE
  OpeningBudget <- OneBudget
  OpeningLines <- OneLine
  FromNothing = FALSE
  ApprovalIds = {hall}
  Asks <- AskedOne
  PaidAmounts = {1}
  Regimes <- OnlyOverlap
CHECK_DEADLOCK FALSE
INVARIANT ReservedOnce
