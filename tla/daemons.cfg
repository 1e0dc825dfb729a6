SPECIFICATION FairSpec
CONSTANTS
  a = a
  b = b
  c = c
  d = d
  e = e
  bad = bad
  BadRef = bad
  Workload = {a, b}
  Present = {a, b}
  KindOf <- AllDaemonSets
  InitTargets <- Pair
  TargetChoices <- NoEdits
  Size <- TwoReplicas
  RequeueAnnotation <- Default
  MergesDelays = TRUE
  Subsecond = FALSE
  MaxLag = 1
  Disturbed = {a}
  Rolling = {a}
  Budget <- PodLosses
INVARIANTS ReloadAfterRollout CalmMeansReloaded
PROPERTIES Quiescence
CHECK_DEADLOCK FALSE
