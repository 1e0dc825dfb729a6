SPECIFICATION Spec
CONSTANTS
  kD = kD
  kP = kP
  kS = kS
  kM = kM
  kR = kR
  kX = kX
  now = now
  list = list
  far = far
  odd = odd
  zero = zero
  Key = {kD, kP, kS, kM, kR, kX}
  BuiltInKey = kM
  Text = {now, list, far, odd, zero}
  Now = now
  Absent = Absent
  Name = {"home", "away", "b", "c", "now", "0s"}
  Home = "home"
  EntriesOf <- Entries
  Durations = {zero}
  SecondsOf <- Seconds
  KeyFlags <- OneKeyChanged
  IntervalFlags = {0, 1}
  NamespaceFlags <- Everywhere
  Created <- Annotated
  Edits <- Changes
  MaxEdits = 2
INVARIANTS TypeOK OthersKept BatchesWereNamed WaitsWereAsked
PROPERTIES ImplementsWorkload
CHECK_DEADLOCK FALSE
