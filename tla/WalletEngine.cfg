\* Three requests over two connections, every fault, and liveness.
SPECIFICATION MCSpec
CONSTANTS
  o1 = o1
  o2 = o2
  r1 = r1
  r2 = r2
  r3 = r3
  Orgs = {o1, o2}
  Requests = {r1, r2, r3}
  Platform0 = p0
  Amounts = {1, 2}
  MaxInt = 3
  PoolSize = 2
INVARIANTS
  TypeOK
  LedgerAgrees
  NeverOverdrawn
  FeesAreWhole
PROPERTIES
  ActsAtomically
  EveryRequestAnswered
