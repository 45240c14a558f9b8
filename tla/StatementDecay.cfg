SPECIFICATION Spec
CONSTANTS
  p1 = p1
  p2 = p2
  Runtime = {p1}
  N = 2
  Needs <- Chained
  Reads <- Chained
  Held = {2}
  Retries <- FirstRetries
  MaxReuse = 1
  Seed <- Granting
  MaxLen = 8
  MaxLate = 1
  MaxAdmin = 1
  Transient = FALSE
PROPERTY
  DecaySurvivesRestart
