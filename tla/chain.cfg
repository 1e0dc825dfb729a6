SPECIFICATION Spec
CONSTANTS
  a = a
  b = b
  c = c
  d = d
  e = e
  bad = bad
  BadRef = bad
  Workload = {a, b, c}
  Present = {a, b, c}
  KindOf <- Mixed
  InitTargets <- Chain
  TargetChoices <- NoEdits
  Size <- TwoReplicas
  RequeueAnnotation <- Default
  MergesDelays = FALSE
  Subsecond = FALSE
  MaxLag = 1
  Disturbed = {a, b}
  Rolling = {a, b}
  Budget <- TwoRestarts
INVARIANTS NoUncausedReload CalmMeansReloaded CalmMeansUnmarked
CHECK_DEADLOCK FALSE
