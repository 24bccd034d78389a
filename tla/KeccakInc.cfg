SPECIFICATION Spec
CONSTANTS
  R = 4
  MaxIn = 13
  MaxOut = 13
INVARIANTS AbsorbsAsOneShot SqueezesAsOneShot
PROPERTY ImplementsXof
CHECK_DEADLOCK FALSE
