SPECIFICATION Spec
CONSTANT Requests <- TwoNetworks
CHECK_DEADLOCK FALSE
INVARIANTS
  TypeOK
  DecidesAsAsked
  VmidIsFresh
