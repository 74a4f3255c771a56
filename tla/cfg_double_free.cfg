CONSTANTS
  main = main
  f = f
  g = g
  d = d
  NULL = NULL
  NaN = NaN
  NoFrame = NoFrame
  Files <- MCFiles
  Dirs <- MCDirs
  Texts <- MCTexts
  number <- MCNumber
  trimmed <- MCTrimmed
  cfg <- MCCfg
  World <- Exhausting
  Volatile = {g}
  Faulty = {}
  MAX_INCLUDE_LEVEL = 3
  INT_MODULUS <- MCIntModulus
  MayRunOutOfMemory = TRUE
SPECIFICATION Spec
INVARIANT NoDoubleFree
