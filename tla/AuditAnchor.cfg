\* The bounds are reached, so the system may stop.
SPECIFICATION Spec
CONSTANTS
  Appends = {a1, a2}
  Repairs = {}
  Unhashed = {u1}
  Alterable = {}
  Retention = 1
  MaxTime = 3
  Anchorers = {n1, n2}
  MaxAnchors = 2
SYMMETRY Symmetry
INVARIANTS
  TypeOK
  NoTimelyRowIsSkipped
CHECK_DEADLOCK FALSE
