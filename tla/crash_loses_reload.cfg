SPECIFICATION FairSpec
CONSTANTS
  a = a
  b = b
  c = c
  d = d
  e = e
  bad = bad
  BadRef = bad
  Workload = {a, b}
  Present = {a, b}
  KindOf <- Mixed
  InitTargets <- Pair
  TargetChoices <- NoEdits
  Size <- OneReplica
  RequeueAnnotation <- Default
  MergesDelays = TRUE
  Subsecond = FALSE
  MaxLag = 1
  Disturbed = {a}
  Rolling = {a}
  Budget <- Crash
PROPERTIES DetectedReaches
CHECK_DEADLOCK FALSE
