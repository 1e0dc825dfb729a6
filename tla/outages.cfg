SPECIFICATION Spec
CONSTANTS
  a = a
  b = b
  c = c
  d = d
  e = e
  bad = bad
  BadRef = bad
  Workload = {a, b, d, e}
  Present = {a, b, d, e}
  KindOf <- Mixed
  InitTargets <- PairAndLoop
  TargetChoices <- Spoiling
  Size <- OneReplica
  RequeueAnnotation <- Default
  MergesDelays = FALSE
  Subsecond = TRUE
  MaxLag = 1
  Disturbed = {a, b, d, e}
  Rolling = {a, d}
  Budget <- Outages
INVARIANTS TypeOK NoUncausedReload NoForgottenEvent CycleHalts
CHECK_DEADLOCK FALSE
