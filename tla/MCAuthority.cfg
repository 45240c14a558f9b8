SPECIFICATION MCSpec
CONSTANTS
  x1 = x1
  x2 = x2
  k1 = k1
  k2 = k2
  t1 = t1
  t2 = t2
  wide = wide
  narrow = narrow
  us = us
  tx = tx
  rrc = rrc
  txz = txz
  typo = typo
  Tt = Tt
  Tu = Tu
  Tr = Tr
  Tz = Tz
  d1 = d1
  p1 = p1
  p2 = p2
  a1 = a1
  a2 = a2
  a3 = a3
  Call = {x1, x2}
  ApiKey = {k1, k2}
  Tenant = {t1, t2}
  NoKey = NoKey
  NoTenant = NoTenant
  MaxErrors = 1
  MaxTokens = 1
  Value = {wide, narrow}
  Parent <- MCParent
  TopValue = TopValue
  PromoteAfter = 2
  MaxAt = 1
  MaxEvents = 3
  Extraction = {x1, x2}
  Word = {us, tx, rrc, txz, typo}
  Abstain = Abstain
  Fragment = Fragment
  Token = {Tt, Tu, Tr, Tz}
  Encode <- MCEncode
  Broader <- MCBroader
  Norm <- MCNorm
  OneEdit <- MCOneEdit
  SlotAsk <- MCSlots
  MaxSteps = 3
  MaxEdits = 1
  Program = {x1, x2}
  Statement <- MCStatement
  MaxDepth = 1
  Inherits = 2
  MaxTraces = 3
  MaxDeaths = 1
  Operator = {x1, x2}
  Draft = {d1}
  Lead = {k1, k2}
  Tier <- MCTier
  Plan = {p1, p2}
  Attempt = {a1, a2, a3}
  MaxFailures = 2
  Window = 2
  Lock = 2
  MaxMinutes = 4
  MaxChanges = 3
  MaxAgentRuns = 2
  MaxPosts = 1
  MaxLapses = 2
SYMMETRY Symmetry
CHECK_DEADLOCK FALSE
INVARIANTS
  KeysInv
  LogInv
  
  
  
PROPERTIES
  PastIsStable
