\* Modules with locals in any order, and each pass over them.
SPECIFICATION FairPassSpec
CONSTANTS
  Types <- MCTypes
  Ir <- MCIr
  DITypes <- MCDITypes
  Di <- MCDi
  Void <- MCVoid
  Variables <- NodeVariables
  Orders <- NodeOrders
  Own <- MCOwn
  Fields <- MCFields
  NoDI = "null"
  Tools <- MCTools
  Modules <- MCModules
  NoField = NoField
CHECK_DEADLOCK FALSE
INVARIANTS
  PassTypeOK
  DepthBounded
  WalkComplete
  NamesRight
  HooksExact
PROPERTIES
  PassEnds
