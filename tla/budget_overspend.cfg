SPECIFICATION Spec
CONSTANTS
  Calls = {c1, c2}
  venue = venue
  food = food
  NoRow = NoRow
  Categories = {venue, food}
  Requests <- CommitAndSpend
  MaxAttempts = 3
  StaleReads = TRUE
  OpeningBudget <- TightBudget
  OpeningLines <- TightLines
  FromNothing = FALSE
CHECK_DEADLOCK FALSE
INVARIANT EventCovered
