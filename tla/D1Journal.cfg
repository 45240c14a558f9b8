SPECIFICATION Spec
CONSTANTS
  j1 = j1
  j2 = j2
  f1 = f1
  f2 = f2
  a = a
  b = b
  Journal = {j1, j2}
  Flush = {f1, f2}
  On <- OneFlushEach
  Body = {a, b}
  MaxLen = 2
  Overlap = FALSE
SYMMETRY Symmetry
INVARIANTS
  TableIsChain
  DurableIsStored
  SerialInv
PROPERTY
  ImplementsSharedLog
