SPECIFICATION FairRuntimeSpec
CONSTANTS
  Runtimes = {run1, run2}
  Services = {byhand}
  Closers = {closer}
  Boundaries = {boundary}
  Epochs = {epoch}
  epoch = epoch
  EpochOf <- MCEpochOf
  MaxTrades = 1
  MaxFaults = 1
INVARIANTS RuntimeTypeOK ExclusiveMeansAlone OneRuntimeTrades EpochOnce
PROPERTIES EpochBoundaryIsFlat ExitStopsAll
