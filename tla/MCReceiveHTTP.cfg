CONSTANTS
  Requests = {r1, r2}
  MaxInFlightRequests = 1
  MaxBodyBytes = 2
  MaxInt = 3
  Bodies <- MCBodies
SPECIFICATION FairSpec
INVARIANTS TypeOK SlotsHeld GaugeSettles CountedAsAnswered LimitsExact
PROPERTIES NeverWaitsForASlot SlotComesBack
CHECK_DEADLOCK FALSE
