SPECIFICATION EmbedSpec
CONSTANTS
  Request = {r1, r2}
  Origins = {none, portal}
  NoOrigins = none
INVARIANT FreshAfterUpdate
CHECK_DEADLOCK FALSE
