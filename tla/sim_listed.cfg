CONSTANTS
  POISON = 99
  NULL = NULL
  NaN = NaN
  NoFrame = NoFrame
  g_caches = 0
  conf = conf
  d = d
  cfg <- Table
  Files <- MCFiles
  Dirs = {}
  Texts <- MCTexts
  number <- MCNumber
  trimmed <- MCTrimmed
  tokens <- MCTokens
  Garbage <- MCGarbage
  World <- AcceptedWorld
  Volatile = {}
  Faulty = {}
  MAX_INCLUDE_LEVEL = 10
  INT_MODULUS <- MCIntModulus
  MayRunOutOfMemory = FALSE
SPECIFICATION MainSpec
INVARIANT EveryLevelIsListed
