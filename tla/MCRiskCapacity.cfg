SPECIFICATION Spec
CONSTANTS
  x1 = x1
  x2 = x2
  y1 = y1
  z1 = z1
  w1 = w1
  X = X
  Y = Y
  Z = Z
  W = W
  Signals = {x1, y1, z1, w1}
  Symbols = {X, Y, Z, W}
  SymbolOf <- MCSymbolOf
  DirectionOf <- MCDirectionOf
  CombinedRate <- MCCombinedRate
  ExpiryOf <- MCExpiryOf
  Equities = {100, 72}
  Times = {0}
  PendingTTL = 2
  DayLength = 2
  MaxEpoch = 0
INVARIANTS NothingForgotten ReservationCap ReservedRiskUnderPeak
SYMMETRY MCSymmetry
