CONSTANTS
  e1 = e1
  Entry = {e1}
  NoEntry = NoEntry
  MaxRetries = 3
  MaxStart = 2
  MaxCrash = 1
SPECIFICATION LiveSpec
INVARIANTS
  TypeOK
  RunOnce
  BudgetKept
  FinalIsTrue
  RowsWatched
PROPERTIES
  Settles
CHECK_DEADLOCK FALSE
