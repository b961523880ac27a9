SPECIFICATION MCSpec
CONSTANTS
  delete = delete
  bulk = bulk
  upserts = upserts
  append = append
  Calls = {delete, bulk, upserts, append}
  Length <- MCLength
  Bulk = {bulk, upserts}
  Inserts = {bulk, append}
  Free = Free
  MaxDrops = 3
  MaxCrashes = 1
  alice = alice
  m1 = m1
  x1 = x1
  Requests = {q1, q2, q3}
  Users = {alice}
  System = System
  Shared = shared
  Reference = c1
  OwnerOf <- OneOwner
  OnOf <- OneTool
  Kinds <- AllKinds
  Keys = {ip}
  Callers = {q1, q2, q3}
  Limit = 2
  Window = 4
  Slack = 2
  Yes = Yes
  No = No
  MaxTime = 6
  Visits = {q1, q2, q3}
  Emails = {e1, e2}
  Passwords = {pw, long}
  Overlong = {long}
  None = None
  TTL = 1
  LastTime = 1
SYMMETRY Alike
INVARIANT
  LockIsHeld
  OneDropIsHidden
  RegistrySafe
  NoOverrun
  AccountsSafe
PROPERTY
  KeepsPromise
  RefinesWindow
  SessionsEndByRight
CHECK_DEADLOCK FALSE
