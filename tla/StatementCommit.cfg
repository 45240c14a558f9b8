SPECIFICATION Spec
CONSTANTS
  p1 = p1
  p2 = p2
  Runtime = {p1, p2}
  N = 2
  Needs <- Chained
  Reads <- Chained
  Held = {2}
  Retries <- FirstRetries
  MaxReuse = 1
  Seed <- Granting
  MaxLen = 6
  MaxLate = 1
  MaxAdmin = 1
  Transient = TRUE
SYMMETRY Symmetry
INVARIANTS
  StatementInv
  FiledOnce
  OutputsAreTraced
  MemoryIsReplay
PROPERTY
  TracesAreAuthorised
