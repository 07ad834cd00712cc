\* Nothing rewrites, removes or alters a row.
SPECIFICATION ChainSpec
CONSTANTS
  Appends = {a1, a2, a3}
  Repairs = {}
  Unhashed = {}
  Alterable = {}
  Retention = 3
  MaxTime = 3
SYMMETRY Symmetry
INVARIANT IntactLogVerifies
CHECK_DEADLOCK FALSE
