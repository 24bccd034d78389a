SPECIFICATION SeedSpec
CONSTANTS
  SEEDBYTES = 2
  MaxLength = 5
INVARIANT SpacedDigitsAreRead
CHECK_DEADLOCK FALSE
