SPECIFICATION FairSpec
CONSTANTS
  t1 = t1  t2 = t2  x = x  y = y
  Tasks = {t1}
  Texts = {x, y}
  NoText = NoText
  MaxAttempts = 2
  MaxAt = 3
  MaxForeign = 2
  MaxTouches = 3
  MaxWaiting = 1
INVARIANTS TypeOK PushOwnsRow ConflictIsNewer
PROPERTIES PendingKept LeaseEnds EditsLeaveQueue
CHECK_DEADLOCK FALSE
