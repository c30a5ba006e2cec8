SPECIFICATION Spec
CONSTANTS
  MaxCaptures = 2
  Beside = FALSE
  Control = FALSE
  OpenTimeout = TRUE
  Signals = FALSE
  Unpluggable = FALSE
  Garbled = FALSE
  NamedPipe = FALSE
INVARIANT RestartAfterStop
