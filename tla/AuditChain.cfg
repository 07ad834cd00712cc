\* The requests end and the clock stops, so the system may stop.
SPECIFICATION ChainSpec
CONSTANTS
  Appends = {a1}
  Repairs = {r1, r2}
  Unhashed = {u1}
  Alterable = {a1}
  Retention = 1
  MaxTime = 4
SYMMETRY Symmetry
INVARIANTS
  ChainTypeOK
  QuietLogVerifies
PROPERTIES
  RepairMends
CHECK_DEADLOCK FALSE
