CONSTANTS
  Keys = {k1, k2, k3, k4}
  Values = {v1, v2}
  NoValue = NoValue
  TTL = 1
  MaxEntries = 3
  MaxTime = 4
SPECIFICATION Spec
SYMMETRY Symmetry
INVARIANTS TypeOK SlotsCoherent EvictsSoonestToExpire
PROPERTIES ImplementsBoundedMap
