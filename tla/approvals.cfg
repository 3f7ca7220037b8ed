SPECIFICATION ApprovalsSpec
CONSTANTS
  Calls = {c1, c2, c3}
  hall = hall
  stage_rig = stage_rig
  wire = wire
  venue = venue
  NoRow = NoRow
  Categories = {venue}
  Requests <- MoneyRequests
  MaxAttempts = 2
  StaleReads = TRUE
  OpeningBudget <- OneBudget
  OpeningLines <- OneLine
  FromNothing = FALSE
  ApprovalIds = {hall, stage_rig, wire}
  Asks <- Asked
  PaidAmounts = {1, 2}
  Regimes <- Both
CHECK_DEADLOCK FALSE
INVARIANTS MoneyIsReservedFirst NeverTierStaysLocked CommitmentsTrace
  ReservationsAreAccounted
PROPERTIES DecisionIsFinal ReservationGetsDecided
