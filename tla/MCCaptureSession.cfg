SPECIFICATION FairSpec
CONSTANTS
  Device = {d1}
  None = None
  MaxPackets = 2
  MaxCommands = 2
INVARIANT NoWriteAfterClose
INVARIANT DevicesUnique
INVARIANT ToolbarInSync
INVARIANT ModeConsistent
PROPERTY SessionEnds
PROPERTY SnifferEnds
CHECK_DEADLOCK FALSE
