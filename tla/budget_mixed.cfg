SPECIFICATION Spec
CONSTANTS
  Calls = {c1, c2, c3}
  venue = venue
  food = food
  NoRow = NoRow
  Categories = {venue, food}
  Requests <- EveryOp
  MaxAttempts = 3
  StaleReads = TRUE
  OpeningBudget <- OneLineBudget
  OpeningLines <- OneLine
  FromNothing = TRUE
SYMMETRY Symmetry
CHECK_DEADLOCK FALSE
INVARIANTS FiguresFollowRows NoOverAllocation
PROPERTY MovesTogether
