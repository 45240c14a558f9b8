SPECIFICATION Spec
CONSTANTS
  j1 = j1
  j2 = j2
  f1 = f1
  f2 = f2
  a = a
  b = b
  Journal = {j1}
  Flush = {f1, f2}
  On <- TwoFlushesOnOne
  Body = {a, b}
  MaxLen = 2
  Overlap = TRUE
INVARIANT
  DurableIsStored
