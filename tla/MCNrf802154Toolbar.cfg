SPECIFICATION Spec
CONSTANTS
  MaxCaptures = 1
  Beside = TRUE
  Control = TRUE
  OpenTimeout = FALSE
  Signals = TRUE
  Unpluggable = TRUE
  Garbled = TRUE
  NamedPipe = TRUE
INVARIANT ThreadsTracked
INVARIANT FirmwareAsleep
INVARIANT PortReleased
