SPECIFICATION MCSpec
CONSTANTS
  x1 = x1
  x2 = x2
  x3 = x3
  fact = fact
  both = both
  kept = kept
  fresh = fresh
  self = self
  other = other
  a = a
  b = b
  c = c
  d = d
  ab = ab
  cb = cb
  cd = cd
  ad = ad
  k1 = k1
  k2 = k2
  q = q
  i1 = i1
  i2 = i2
  Request = {x1, x2, x3}
  Fact = {fact}
  Relationship = {both}
  Entry = {kept, fresh}
  About <- MCAbout
  Self = self
  Targets <- MCTargets
  MaxThrows = 1
  Update = {x1, x2, x3}
  Field = {a, b}
  Reader = {q}
  Node = {a, b, c, d}
  Edge = {ab, cb, cd, ad}
  From <- MCFrom
  To <- MCTo
  Directed = {cd}
  Weak = {ad}
  Origin = a
  Goal = d
  Consent = {k1, k2}
  Expiring = {k1}
  NodeType = {a, b, c, d}
  Sensitive = {c}
  Abroad = {d}
  Budget = 1
  Due = {1, 2, 3}
  PageSize = 1
  MaxHops = 3
  Visit = {x1, x2, x3}
  Isolate = {i1, i2}
  NoSigner = NoSigner
  Burst = 3
  Refill = 1
  VisitCost = {2}
  MaxClock = 2
  MaxCrashes = 1
  Call = {x1, x2, x3}
  SeedLength = 2
  RunLength = 2
  MaxCuts = 1
  ToolCall = {x1, x2, x3}
  MaxFlaws = 2
SYMMETRY Symmetry
CHECK_DEADLOCK FALSE
INVARIANTS
  SubjectInv
  
  ExportAccountsForRecords
  UpdatesAreConsistent
  
  ProjectionNeedsConsent
  PagesAreComplete
  EdgeInv
  
  CallsInv
PROPERTIES
  PauseHoldsBackRecords
  OnlyOverlapLosesContext
