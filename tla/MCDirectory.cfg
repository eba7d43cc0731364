SPECIFICATION Spec
CONSTANTS
  ada = ada  bea = bea  cy = cy
  e1 = e1  e2 = e2  e3 = e3
  p1 = p1  p2 = p2
  t1 = t1
  Account = {ada, bea, cy}
  Email = {e1, e2, e3}
  Person = {p1, p2}
  Session = {s1, s2}
  Attempt = {l1, l2}
  Callback = {c1, c2}
  Team = {t1}
  Request = {r1, r2}
  SeedEmail <- Emails
  SeedRoles <- SeedAdmins
  Claims <- Tokens
  Operations <- Requested
  NoAccount = NoAccount
  NoAttempt = NoAttempt
  NoEmail = NoEmail
INVARIANTS
  TypeOK OneAccountPerPerson SessionOfPerson LoginCompletesOnce AdminRemains NoMembersOfGoneTeam
PROPERTIES
  RolesLostByRevocation
CHECK_DEADLOCK FALSE
CONSTRAINTS TwoHandlers TeamsFirst
SYMMETRY Symmetry
