SPECIFICATION FairSpec
CONSTANTS
  MaxCaptures = 1
  Beside = FALSE
  Control = FALSE
  OpenTimeout = FALSE
  Signals = FALSE
  Unpluggable = FALSE
  Garbled = FALSE
  NamedPipe = FALSE
PROPERTY StopReturns
