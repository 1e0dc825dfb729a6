SPECIFICATION FairSpec
CONSTANTS
  a = a
  b = b
  c = c
  d = d
  e = e
  bad = bad
  BadRef = bad
  Workload = {a, b, c, d, e}
  Present = {a, b, c, d, e}
  KindOf <- Mixed
  InitTargets <- DiamondAndLoop
  TargetChoices <- NoEdits
  Size <- TwoReplicas
  RequeueAnnotation <- Default
  MergesDelays = FALSE
  Subsecond = FALSE
  MaxLag = 1
  Disturbed = {a, b, d, e}
  Rolling = {a, b, d, e}
  Budget <- CallsFail
PROPERTIES CascadeReaches MarkCleared EventsAnswered ImplementsCascade
CHECK_DEADLOCK FALSE
