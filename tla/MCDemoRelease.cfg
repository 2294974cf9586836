SPECIFICATION ExecutionSpec
CONSTANTS
  x1 = x1
  x2 = x2
  y1 = y1
  X = X
  Y = Y
  Signals = {x1, x2}
  Symbols = {X}
  SymbolOf <- MCSymbolOf
  DirectionOf <- MCDirectionOf
  CombinedRate <- MCCombinedRate
  ExpiryOf <- MCExpiryOf
  Equities = {100}
  Times = {0}
  PendingTTL = 2
  DayLength = 3
  MaxEpoch = 0
  EntrySize <- MCEntrySize
  Courses <- MCRelease
CHECK_DEADLOCK FALSE
INVARIANTS ReleaseIsAttributed
