SPECIFICATION Spec
CONSTANTS
  x1 = x1
  x2 = x2
  y1 = y1
  z1 = z1
  w1 = w1
  X = X
  Y = Y
  Z = Z
  W = W
  Signals = {x1, x2}
  Symbols = {X}
  SymbolOf <- MCSymbolOf
  DirectionOf <- MCDirectionOf
  CombinedRate <- MCCombinedRate
  ExpiryOf <- MCExpiryOf
  Equities = {100, 93, 84}
  Times = {0, 2}
  PendingTTL = 2
  DayLength = 3
  MaxEpoch = 0
INVARIANTS TypeOK OneExposurePerSymbol ReversalIsLive KilledHoldsNothing NothingForgotten
PROPERTIES KillLatches ReservationsMoveForward
