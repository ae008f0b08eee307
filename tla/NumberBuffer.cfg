SPECIFICATION Spec
CONSTANT Capacities <- MCCapacities
INVARIANTS
  TypeOK
  LenCounts
PROPERTIES
  Halves
  LenReturns
