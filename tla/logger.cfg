\* Two wrappers, with children that fail, and a script in the directory of their logs.
SPECIFICATION Spec
CONSTANTS
  w1 = w1
  w2 = w2
  Wrappers <- MCWrappers
  Levels <- MCLevels
  MaxCalls <- MCMaxCalls
CHECK_DEADLOCK FALSE
INVARIANTS
  TypeOK
  LogKept
  StatusKept
