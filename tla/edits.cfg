SPECIFICATION FairSpec
CONSTANTS
  a = a
  b = b
  c = c
  d = d
  e = e
  bad = bad
  BadRef = bad
  Workload = {a, b, c}
  Present = {a, b, c}
  KindOf <- AllStatefulSets
  InitTargets <- Join
  TargetChoices <- Closing
  Size <- TwoReplicas
  RequeueAnnotation <- Default
  MergesDelays = TRUE
  Subsecond = FALSE
  MaxLag = 1
  Disturbed = {a, b}
  Rolling = {a, b}
  Budget <- EditsAndFailures
INVARIANTS ChainsEnd
PROPERTIES Quiescence
CHECK_DEADLOCK FALSE
