SPECIFICATION Spec
CONSTANTS
  Calls = {c1, c2, c3, c4}
  venue = venue
  food = food
  NoRow = NoRow
  Categories = {venue, food}
  Requests <- Setup
  MaxAttempts = 3
  StaleReads = FALSE
  OpeningBudget <- TightBudget
  OpeningLines <- TightLines
  FromNothing = TRUE
SYMMETRY Symmetry
CHECK_DEADLOCK FALSE
INVARIANT AllocationsFit
