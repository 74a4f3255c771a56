SPECIFICATION MCSpec
CONSTANTS
  UNSUPPORTED = UNSUPPORTED
  Instructions <- MCInstructions
  Programs <- MCPrograms
  UNRESOLVED = UNRESOLVED
  Insns <- MCInsns
  Buffers <- MCBuffers
  Bases = {0, 7}
  NULL = NULL
  Sizes <- MCSizes
  Modes = {1, 2}
  SkipSize <- MCSkip
  Callbacks = {0, 1, 3}
  INSN_BYTES = 2
  INSN_CACHE_SIZE = 2
INVARIANTS
  TypesOK BlocksPartition BlocksAreBasic LinksAreMutual ChildrenContinue
  StackBounded FollowsFlow
  NothingLost FindsInstructions
PROPERTY Termination
