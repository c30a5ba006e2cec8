SPECIFICATION FairSpec
CONSTANTS
  a = a
  b = b
  None = None
  Byte <- MCByte
  MaxInFlight <- MCMaxInFlight
INVARIANT NoLostWakeup
PROPERTY ImplementsFifo
PROPERTY BytesReachReader
PROPERTY CloseReturns
PROPERTY CloseWakesReader
