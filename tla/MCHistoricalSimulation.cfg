SPECIFICATION FairSimulationSpec
CONSTANTS
  Signals = {1, 2}
  Received <- MCReceived
  EntryWindow = 4
  ExitHorizon = 4
  Candles = {0, 1, 2, 3}
  Markets <- MCMarkets
  Times = {3, 5, 7, 8}
  Gaps <- MCGaps
  PageLimit = 2
  Limits = {0, 1}
  MaxFailures = 1
INVARIANTS SimulationTypeOK OutcomesAreTrue PagesCoverTheRange
PROPERTIES TerminalStays AllGetDecided
