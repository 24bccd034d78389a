SPECIFICATION RoutinesSpec
CONSTANTS
  N = 4
  BLOCKS = {3, 4, 5}
  NBLOCKS = 2
  MaxStream = 20
  TAU = 3
  SIGNBYTES = 1
  RATE = 3
  MaxSqueezed = 9
  Q = 241
  R = 2048
  QINV = 17
  REDUCE = 256
  ROOT_OF_UNITY = 8
  zetas <- SmallZetas
  f = 226
  Products <- SmallProducts
  Starts <- SmallStarts
  SEEDBYTES = 2
  MaxLength = 5
  Texts <- SmallTexts
  BYTES = 3
  CHUNK = 2
  SIGBYTES = 2
  MaxMlen = 3
  Cells = 7
INVARIANTS
  ReadsStreamInOrder SamplesAcceptedInOrder
  ChallengeIsTernary NttMultiplies NttStaysInRange PermutesAsKeccak
  RandomBytesFills SignsTheMessage OpensOnlyTheSigned SeedIsRead BlockIsRead
PROPERTIES ChallengeKeepsChoices RandomBytesReturnsWhenRun BlockReadersReturnWhenRun
CHECK_DEADLOCK FALSE
