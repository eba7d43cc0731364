SPECIFICATION Spec
CONSTANTS
  u1 = u1  u2 = u2  e1 = e1  e2 = e2  e3 = e3  s1 = s1  s2 = s2  s3 = s3  k1 = k1  a1 = a1
  Users = {u1}
  Admins = {}
  Managers = {u1}
  Manages = {}
  Entries = {e1}
  Sessions = {s1, s2, s3}
  Slots = {}
  NoSlot = NoSlot
  Keys = {}
  NoKey = NoKey
  Minutes = {1}
  Seconds = {0, 1}
  LastDate = 2
  DaysPerWeek = 1
  MaxVersion = 6
  Lag = 1
INVARIANTS OneActiveSession TotalAccurate CompletedDayIdle DayFollowsPeriod
PROPERTIES CompletedTotalFinal DayStatusLegal ApprovedDayFinal KeepsPunchClock
SYMMETRY Symmetry
CHECK_DEADLOCK FALSE
