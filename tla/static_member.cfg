\* A C++ struct with a static member before its first field.
SPECIFICATION Spec
CONSTANTS
  Types <- MCTypes
  Ir <- MCIr
  DITypes <- MCDITypes
  Di <- MCDi
  Void <- MCVoid
  Variables <- ItemVariables
  Orders <- ItemOrders
  Own <- MCOwn
  Fields <- MCFields
  NoDI = "null"
CHECK_DEADLOCK FALSE
INVARIANTS
  PointerTypesAgree
