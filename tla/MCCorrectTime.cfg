SPECIFICATION TimeSpec
CONSTANTS
  Half <- MCHalf
  StartTimer <- MCStartTimer
  StartClock <- MCStartClock
  MaxTimer <- MCMaxTimer
INVARIANT Exact
INVARIANT NearClock
PROPERTY NeverBack
