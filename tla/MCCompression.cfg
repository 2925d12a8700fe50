SPECIFICATION Spec
CONSTANTS
  ByteBits = 2
  MAX_BITS = 4
  BlField = 2
  LenExtra <- McLenExtra
  DistExtra <- McDistExtra
  CountBits <- McCountBits
  RepBits <- McRepBits
  BlOrder <- McBlOrder
  StaticLens <- McStaticLens
  AdlerBase = 13
  StoredBits = 5
  W = 13
  MaxStored = 12
  LitBufsize = 28
  HashSize = 8
  TooFar = 3
  Config <- McConfig
  LenRoot = 2
  DistRoot = 1
  EnoughLens = 12
  EnoughDists = 4
  FastIn = 7
  Scenarios <- McScenarios
  MaxFlushes = 2
  MaxTries = 4
  Slack = 3
INVARIANTS FlushDelivers WindowsAgree
PROPERTIES RefinesPipe Finishes
