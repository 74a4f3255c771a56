CONSTANTS
  POISON = POISON
  NULL = NULL
  Heads = {h1, h2}
  Entries = {e1, e2, e3}
  HHeads = {h1, h2, h3}
  Nodes = {e1, e2, e3, n4}
  Items = {i1, i2, i3, i4}
  head = head
  other = other
SPECIFICATION MCSpec
INVARIANTS
  TypesOK RingsConsistent ChainsConsistent
  StaysInLoop VisitsEach
PROPERTIES ImplementsSequences ImplementsChains
SYMMETRY Symmetry
