SPECIFICATION Spec
CONSTANTS
  K = 2
  N = 5
  OMEGA = 3
INVARIANTS StaysInside RoundTrip OneEncoding
