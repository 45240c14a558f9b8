SPECIFICATION Spec
CONSTANTS
  c1 = c1
  c2 = c2
  w1 = w1
  w2 = w2
  w3 = w3
  w4 = w4
  d = d
  k = k
  control = control
  other = other
  NoKey = NoKey
  Request = {c1, c2}
  Kind <- RepeatedKind
  Key <- RepeatedKey
  Body <- RepeatedBody
  Denied = {}
  Faults = FALSE
PROPERTY
  RepeatIsReplayed
CHECK_DEADLOCK FALSE
