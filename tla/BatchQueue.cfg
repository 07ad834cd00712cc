\* Every job may have ended, so the system may stop.
SPECIFICATION MCSpec
CONSTANTS
  j1 = j1
  j2 = j2
  j3 = j3
  Jobs = {j1, j2, j3}
  Slots = 1
  MaxChunks = 2
  ChunkSize = 2
INVARIANTS
  TypeOK
  SlotsAreAccounted
  ClaimsAreCommitted
  CompletedCreatesAddUp
PROPERTIES
  ReportsOnlyGrow
  AcceptedJobsEnd
CHECK_DEADLOCK FALSE
