SPECIFICATION Spec
CONSTANTS
  Length = 9
  Taps <- MCTaps
INVARIANTS
  RoundTrip
  NeverZero
CHECK_DEADLOCK FALSE
