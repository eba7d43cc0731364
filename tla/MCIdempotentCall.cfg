SPECIFICATION Spec
CONSTANTS
  r1 = r1  r2 = r2  r3 = r3  r4 = r4  b1 = b1  b2 = b2
  Body <- TwoBodies
  Requests = {r1, r2, r3, r4}
  Bodies = {b1, b2}
  NoAnswer = NoAnswer
  Lease = 2
  Retention = 5
  RetryUntil = 4
  RequestBound = 1
  MaxTime = 6
INVARIANTS TypeOK AtMostOnce AnswersAgree
PROPERTIES OnceSpec
CHECK_DEADLOCK FALSE
