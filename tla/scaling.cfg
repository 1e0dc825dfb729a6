SPECIFICATION Spec
CONSTANTS
  a = a
  b = b
  c = c
  d = d
  e = e
  bad = bad
  BadRef = bad
  Workload = {a, b}
  Present = {a, b}
  KindOf <- Mixed
  InitTargets <- Pair
  TargetChoices <- NoEdits
  Size <- OneReplica
  RequeueAnnotation <- Default
  MergesDelays = FALSE
  Subsecond = FALSE
  MaxLag = 1
  Disturbed = {a}
  Rolling = {a}
  Budget <- RescalesLossAndCrash
INVARIANTS ReloadAfterRollout CalmMeansReloaded
PROPERTIES ImplementsCascade
CHECK_DEADLOCK FALSE
