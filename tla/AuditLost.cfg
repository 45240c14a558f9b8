SPECIFICATION Spec
CONSTANTS
  c1 = c1
  c2 = c2
  w1 = w1
  w2 = w2
  w3 = w3
  w4 = w4
  d = d
  k = k
  control = control
  other = other
  NoKey = NoKey
  Request = {w1, w2, w3, w4}
  Kind <- WriterKind
  Key <- WriterKey
  Body <- WriterBody
  Denied = {}
  Faults = FALSE
SYMMETRY Writers
INVARIANT
  ChangesAreChained
CHECK_DEADLOCK FALSE
