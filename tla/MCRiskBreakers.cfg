SPECIFICATION Spec
CONSTANTS
  x1 = x1
  x2 = x2
  y1 = y1
  z1 = z1
  w1 = w1
  X = X
  Y = Y
  Z = Z
  W = W
  Signals = {x1}
  Symbols = {X}
  SymbolOf <- MCSymbolOf
  DirectionOf <- MCDirectionOf
  CombinedRate <- MCCombinedRate
  ExpiryOf <- MCExpiryOf
  Equities = {100, 95, 90, 84}
  Times = {0, 1, 7}
  PendingTTL = 1
  DayLength = 1
  MaxEpoch = 1
INVARIANTS ModeFollowsLosses
PROPERTIES HaltsLatch AdmissionIsAffordable
