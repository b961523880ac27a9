SPECIFICATION MCSpec
CONSTANTS
  alice = alice
  m1 = m1
  sys = sys
  r1 = r1
  r2 = r2
  p1 = p1
  p2 = p2
  bad = bad
  none = none
  Users <- MCUsers
  Machines <- MCMachines
  Runs = {r1, r2}
  Payloads = {p1, p2, bad}
  Garbled = {bad}
  Empty = {}
  System = System
  NoTwin = NoTwin
  Upload = Upload
  Free = Free
  Faults = TRUE
  Crashes = TRUE
SYMMETRY Alike
INVARIANT
  TypeOK
  IndicesDense
  BlobIsSource
  PosteriorInOrder
  RulFromPosterior
  AckDurable
PROPERTY
  RefinesLedger
CHECK_DEADLOCK FALSE
