SPECIFICATION Spec
CONSTANTS
  Process = {p1, p2, p3}
  Limit = 1
  MaxPackets = 3
SYMMETRY Symmetry
INVARIANT HeaderFirst
INVARIANT Recorded
PROPERTY PacketsKept
