SPECIFICATION FairSpec
CONSTANTS
  u1 = u1  u2 = u2  e1 = e1  e2 = e2  e3 = e3  s1 = s1  s2 = s2  s3 = s3  k1 = k1  a1 = a1
  Users = {u1, u2}
  Admins = {u2}
  Managers = {u2}
  Manages = {}
  Entries = {e1}
  Sessions = {s1, s2}
  Slots = {}
  NoSlot = NoSlot
  Keys = {}
  NoKey = NoKey
  Minutes = {1}
  Seconds = {0}
  LastDate = 3
  DaysPerWeek = 3
  MaxVersion = 4
  Lag = 1
PROPERTIES LockedWeekFrozen PastDayCloses
CHECK_DEADLOCK FALSE
