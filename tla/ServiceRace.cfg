SPECIFICATION MCSpec
CONSTANTS
  alice = alice
  m1 = m1
  sys = sys
  up = up
  c1 = c1
  r1 = r1
  p1 = p1
  p2 = p2
  bad = bad
  j1 = j1
  j2 = j2
  Users <- MCUsers
  Machines <- MCMachines
  Runs <- MCRuns
  Payloads = {p1, p2, bad}
  Garbled = {bad}
  Empty = {}
  System = System
  NoTwin = NoTwin
  Upload = Upload
  Free = Free
  NoRef = NoRef
  NoMachine = NoMachine
  Uploads <- MCUploads
  MaxFiles = 2
  DefaultRef = c1
  MinPairs = 1
  Taken = 1
  Faults = FALSE
  Crashes = FALSE
  JobKinds = {"replay", "results"}
  Jobs = {j1}
INVARIANT UpdatesSerialized
CHECK_DEADLOCK FALSE
