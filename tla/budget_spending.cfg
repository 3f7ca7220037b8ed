SPECIFICATION FairSpec
CONSTANTS
  Calls = {c1, c2, c3}
  venue = venue
  food = food
  NoRow = NoRow
  Categories = {venue, food}
  Requests <- Spending
  MaxAttempts = 2
  StaleReads = TRUE
  OpeningBudget <- SmallBudget
  OpeningLines <- SmallLines
  FromNothing = FALSE
CHECK_DEADLOCK FALSE
INVARIANT SpendingIsCovered
PROPERTIES ImplementsAtomic EveryCallAnswers
