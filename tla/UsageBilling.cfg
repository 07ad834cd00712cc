\* Metering, settlement, crashes and midnight.  The days, batches and
\* payments are bounded, so the system may stop.
SPECIFICATION MCSpec
CONSTANTS
  e1 = e1
  e2 = e2
  o1 = o1
  Events = {e1, e2}
  Orgs = {o1}
  NoOrg = none
  PlatformIds = {p0}
  Admins = {a1, a2}
  Amounts = {1}
  MaxInt = 2
  MonthStarts = {1}
  LastDay = 2
  MaxBatches = 2
SYMMETRY Symmetry
INVARIANTS
  TypeOK
  BilledWasEarned
  DeductedIsNotTallied
  LaterBatchesTallyLaterUsage
CHECK_DEADLOCK FALSE
