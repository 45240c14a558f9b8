SPECIFICATION MCSpec
CONSTANTS
  s1 = s1
  s2 = s2
  s3 = s3
  s4 = s4
  Run = {q1}
  WorkStep = {s1, s2, s3, s4}
  FirstStep = s1
  StepType <- MCStepType
  OnSuccess <- MCOnSuccess
  OnFailure <- MCOnFailure
  NoStep = NoStep
  GuardLimit = 4
  Hook = {h1, h2}
  MaxFaults = 2
  Client = {c1, c2, c3}
  Principal = {p1}
  Permits = 1
  MaxWaiting = 1
  Capacity = 3
  PostCost = 2
  MaxTime = 3
  MaxEnds = 1
CHECK_DEADLOCK FALSE
INVARIANTS
  RunInv
  GateInv
PROPERTIES
  OutcomesStand
  LaunchedRunsSettle
  DeliveriesSettle
  
