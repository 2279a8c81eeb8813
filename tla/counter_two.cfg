\* Two threads that share a name and have others that collide.
SPECIFICATION Spec
CONSTANTS
  Threads = {"main", "other"}
  Main = "main"
  Names = {"a", "b", "c"}
  Uses <- TwoUses
  Capacity = 8
  Home <- TwoHome
  SaveInterval = 3
  Ten = 10
  MaxCalls = 2
  Null = Null
  NoName = NoName
CONSTRAINT OneOfTwo
CHECK_DEADLOCK FALSE
INVARIANTS
  TypeOK
  CountsExact
  EachCallOnce
  CrashExplained
  FinalCountsExact
