SPECIFICATION FairSpec
CONSTANTS
  a = a
  b = b
  c = c
  Node = {a, b, c}
  Source = a
  MaxChanges = 1
INVARIANTS TypeOK NoneMeansAcyclic CycleMeansCycle ErrorMeansUnreadable OneStepWhenStill
PROPERTIES Terminates
CHECK_DEADLOCK FALSE
