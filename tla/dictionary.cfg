\* Four keys in a table of three buckets.
CONSTANTS
  k1 = k1  k2 = k2  k3 = k3  k4 = k4
  Keys = {k1, k2, k3, k4}
  Values = {1, 2}
  Capacity = 3
  Hash <- MCHash
  NoEntry = NoEntry
  NoKey = NoKey
  NoValue = NoValue
CHECK_DEADLOCK FALSE
SPECIFICATION FairSpec
INVARIANTS
  TypeOK
  UniqueKeys
  NoHoles
  PointerGood
  SizeCounts
  ProbeState
PROPERTIES
  EntriesStay
  ImplementsMap
  CallEnds
