SPECIFICATION Spec
CONSTANTS
  Keys = {k1, k2, k3}
  Values = {v1, v2}
  Absent = Absent
  DefaultTtl = 1
  CallTtls <- MCCallTtls
  MaxSize = 2
  MaxNow = 4
INVARIANTS TypeOK CapacityBound NoResurrection LruOnly
PROPERTIES OnlyDueAnswers ImplementsLossyCache
SYMMETRY Symmetry
