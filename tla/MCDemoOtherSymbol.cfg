SPECIFICATION ExecutionSpec
CONSTANTS
  x1 = x1
  x2 = x2
  y1 = y1
  X = X
  Y = Y
  Signals = {x1, y1}
  Symbols = {X, Y}
  SymbolOf <- MCSymbolOf
  DirectionOf <- MCDirectionOf
  CombinedRate <- MCCombinedRate
  ExpiryOf <- MCExpiryOf
  Equities = {100, 84}
  Times = {0}
  PendingTTL = 2
  DayLength = 3
  MaxEpoch = 0
  EntrySize <- MCEntrySize
  Courses <- MCOtherSymbol
CHECK_DEADLOCK FALSE
INVARIANTS ClosesArePlanned
