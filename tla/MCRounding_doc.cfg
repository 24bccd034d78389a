SPECIFICATION Spec
CONSTANT WIDTH = 40
INVARIANT DocumentedRange
CHECK_DEADLOCK FALSE
