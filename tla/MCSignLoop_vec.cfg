SPECIFICATION FairSpec
CONSTANTS
  Q = 41
  D = 3
  GAMMA2 = 4
  N = 1
  K = 2
  L = 2
  ETA = 1
  TAU = 1
  GAMMA1 = 4
  OMEGA = 1
  NONCES = 4
  MATRICES <- VecMatrices
  SECRETS1 <- VecSecrets1
  SECRETS2 <- VecSecrets2
  MASKS <- VecMasks
INVARIANT NoSecondChance
PROPERTIES MaskNoncesFresh SignTerminates
