CONSTANTS
  Requests = {r1, r2}
  MaxInFlightRequests = 1
  MaxBodyBytes = 2
  MaxInt = 3
  Bodies <- MCBodies
SPECIFICATION FairSpec
INVARIANT DecodedGet204
CHECK_DEADLOCK FALSE
