SPECIFICATION FairSpec
CONSTANTS
  a = a
  b = b
  c = c
  d = d
  e = e
  bad = bad
  BadRef = bad
  Workload = {a, b, c}
  Present = {a, b, c}
  KindOf <- Mixed
  InitTargets <- Join
  TargetChoices <- NoEdits
  Size <- OneReplica
  RequeueAnnotation <- Default
  MergesDelays = FALSE
  Subsecond = TRUE
  MaxLag = 1
  Disturbed = {a, b}
  Rolling = {a, b}
  Budget <- TwoRestarts
PROPERTIES CountedRestartsHappen
CHECK_DEADLOCK FALSE
