SPECIFICATION FairSpec
CONSTANTS
  a = a
  b = b
  c = c
  d = d
  e = e
  bad = bad
  BadRef = bad
  Workload = {a, b}
  Present = {a, b}
  KindOf <- Mixed
  InitTargets <- Pair
  TargetChoices <- NoEdits
  Size <- OneReplica
  RequeueAnnotation <- ZeroOnA
  MergesDelays = TRUE
  Subsecond = FALSE
  MaxLag = 1
  Disturbed = {a}
  Rolling = {a}
  Budget <- OneRestart
PROPERTIES DetectedReaches
CHECK_DEADLOCK FALSE
