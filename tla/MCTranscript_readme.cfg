SPECIFICATION Spec
CONSTANTS
  KEYS = {k1, k2}
  RADIX = 2
  CONTEXTS <- MCContexts
  MESSAGES <- MCMessages
  RNDS = {r1, r2}
  SIGBYTES = 1
  SIGLENS = {0, 1}
  MaxCalls = 2
  MaxNonce = 0
INVARIANT IdenticalSignatures
CHECK_DEADLOCK FALSE
