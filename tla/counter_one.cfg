\* A program of one thread, with counts of two digits.
SPECIFICATION FairSpec
CONSTANTS
  Threads = {"main"}
  Main = "main"
  Names = {"a", "b", "c"}
  Uses <- OneUses
  Capacity = 4
  Home <- OneHome
  SaveInterval = 2
  Ten = 2
  MaxCalls = 6
  Null = Null
  NoName = NoName
CHECK_DEADLOCK FALSE
INVARIANTS
  SavedUpToInterval
PROPERTIES
  CallReturns
