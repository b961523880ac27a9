SPECIFICATION MCSpec
CONSTANTS
  delete = delete
  bulk1 = bulk1
  bulk2 = bulk2
  append = append
  Calls = {delete, bulk1, bulk2, append}
  Length <- MCLength
  Bulk = {bulk1, bulk2}
  MaxCrashes = 2
  Keys = {k1}
  Payloads = {p1, p2}
  Writers = {w1, w2}
  Readers = {r1, r2}
  Inodes = {i1, i2, i3, i4}
  None = None
  Serialized = TRUE
SYMMETRY Alike
INVARIANT
  ConnectionSafe
  FilesSafe
PROPERTY
  KeepsPromise
  PutsAtomic
CHECK_DEADLOCK FALSE
