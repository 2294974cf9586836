SPECIFICATION FairOwnedCloseSpec
CONSTANTS
  x1 = x1
  x2 = x2
  y1 = y1
  X = X
  Y = Y
  Signals = {x1}
  Symbols = {X}
  SymbolOf <- MCSymbolOf
  DirectionOf <- MCDirectionOf
  CombinedRate <- MCCombinedRate
  ExpiryOf <- MCExpiryOf
  Equities = {100}
  Times = {0, 2}
  PendingTTL = 2
  DayLength = 3
  MaxEpoch = 0
  EntrySize <- MCEntrySize
  Courses <- MCLive
CHECK_DEADLOCK FALSE
PROPERTIES OverdueEntriesLeave FillsGetProtected ClosedPositionsAreReleased
