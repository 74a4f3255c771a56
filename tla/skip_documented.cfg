SPECIFICATION MCSpec
CONSTANTS
  UNSUPPORTED = UNSUPPORTED
  Instructions <- MCInstructions
  Programs <- MCNothing
  UNRESOLVED = UNRESOLVED
  Insns <- MCInsns
  Buffers <- MCNothing
  Bases = {0}
  NULL = NULL
  Sizes <- MCSizes
  Modes = {1, 2}
  SkipSize <- MCSkip
  Callbacks = {0, 1, 3}
  INSN_BYTES = 2
  INSN_CACHE_SIZE = 2
INVARIANT SkipsAsDocumented
