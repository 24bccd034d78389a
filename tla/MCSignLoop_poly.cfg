SPECIFICATION Spec
CONSTANTS
  Q = 41
  D = 3
  GAMMA2 = 4
  N = 2
  K = 1
  L = 1
  ETA = 1
  TAU = 1
  GAMMA1 = 4
  OMEGA = 1
  NONCES = 2
  MATRICES <- PolyMatrices
  SECRETS1 <- PolySecrets1
  SECRETS2 <- PolySecrets2
  MASKS <- PolyMasks
INVARIANTS SignedVerifies MaskHidesS1 LowBitsHideS2
