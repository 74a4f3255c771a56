CONSTANTS
  K = K
  M = M
  other = other
  Chars <- MCChars
  Strings <- MCStrings
  suffixes <- MCsuffixes
  Factor <- MCFactor
  max_uint64 = 255
  Digits = 3
  Power <- MCPower
  cfg_min = 1
  cfg_max = 100
  Texts <- MCTexts
  DELIMITER = DELIMITER
  ZERO = ZERO
  Lists <- MCLists
  WHITESPACE <- MCWhitespace
  SLASH = SLASH
  STAR = STAR
  a = a
  b = b
  NULL = NULL
  Globs <- MCGlobs
  Names <- MCNames
  NL = NL
  SP = SP
  EQ = EQ
  HASH = HASH
  NUL = NUL
  LEAD = LEAD
  CONT = CONT
  CHAR = CHAR
  Files <- MCFiles
  MAX_STRING_LEN = 5
SPECIFICATION Spec
INVARIANT StoresWhatIsWritten
