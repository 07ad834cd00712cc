\* Nothing removes or alters a row, and one run of createAnchor at a time.
SPECIFICATION Spec
CONSTANTS
  Appends = {a1, a2}
  Repairs = {}
  Unhashed = {u1}
  Alterable = {}
  Retention = 3
  MaxTime = 3
  Anchorers = {n1}
  MaxAnchors = 2
SYMMETRY Symmetry
INVARIANT UntouchedAnchorsVerify
CHECK_DEADLOCK FALSE
