SPECIFICATION OidcSpec
CONSTANT Caller = {r1, r2}
PROPERTY LoginAnswers
CHECK_DEADLOCK FALSE
