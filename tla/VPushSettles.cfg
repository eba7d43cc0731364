SPECIFICATION Spec
CONSTANTS
  t1 = t1  t2 = t2  x = x  y = y
  Tasks = {t1}
  Texts = {x, y}
  NoText = NoText
  MaxAttempts = 2
  MaxAt = 3
  MaxForeign = 2
  MaxTouches = 2
  MaxWaiting = 1
PROPERTIES PushSettles
CHECK_DEADLOCK FALSE
