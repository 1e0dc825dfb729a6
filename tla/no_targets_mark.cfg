SPECIFICATION Spec
CONSTANTS
  a = a
  b = b
  c = c
  d = d
  e = e
  bad = bad
  BadRef = bad
  Workload = {a, b}
  Present = {a, b}
  KindOf <- Mixed
  InitTargets <- Pair
  TargetChoices <- Emptying
  Size <- OneReplica
  RequeueAnnotation <- Default
  MergesDelays = TRUE
  Subsecond = FALSE
  MaxLag = 1
  Disturbed = {a}
  Rolling = {a}
  Budget <- OneEdit
INVARIANTS CalmMeansUnmarked
CHECK_DEADLOCK FALSE
