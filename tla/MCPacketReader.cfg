SPECIFICATION Spec
CONSTANTS
  TimestampSize = 2
  Frames <- MCFrames
  Others <- MCOthers
  ProtoVers <- MCProtoVers
  Clocks <- MCClocks
  Gap = 150
  MaxPackets = 3
INVARIANT AirBytesExact
INVARIANT LossDetected
INVARIANT DeltaExact
INVARIANT DeviceExact
CHECK_DEADLOCK FALSE
