SPECIFICATION LockSpec
CONSTANTS
  Request = {r1, r2}
  u1 = u1  e1 = e1  e2 = e2
  User = {u1}
  EntriesOf <- Entries
INVARIANT NoCircularWait
CHECK_DEADLOCK FALSE
