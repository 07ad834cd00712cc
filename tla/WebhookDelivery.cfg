\* Events end and the log is bounded, so the system may stop.
SPECIFICATION Spec
CONSTANTS
  Events = {e1, e2}
  Sweeps = {w1, w2}
  Subs = {s1}
  MaxRetries = 3
  Threshold = 2
  MaxLogs = 3
SYMMETRY Symmetry
INVARIANTS
  TypeOK
  RetriesFollowFailures
  OneChainOfAttempts
  FailuresAreReal
CHECK_DEADLOCK FALSE
