SPECIFICATION Spec
CONSTANTS
  PACKET_COUNTER_CAP = 3
  TimerPeriod = 4
  Limit = 3
  Cut = 1
  Numbers <- MCNumbers
  None = None
  MaxSent = 7
  MaxLine = 3
INVARIANT TypeOK
INVARIANT FetchedOnceInOrder
INVARIANT InConnectionTracked
INVARIANT TimeExact
INVARIANT PacketsInLastConnectionCounts
PROPERTY ConnectRequestNewest
PROPERTY ImplementsQueue
