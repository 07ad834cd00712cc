\* A case of one account, two requests at a time.  The events of a case and
\* the days are bounded, so the system may stop.
SPECIFICATION Spec
CONSTANTS
  Accounts = {a1}
  Proposals = {p1, p2}
  Users = {u1, u2}
  Workers = {w1, w2}
  Amounts = {1, 2}
  NONE = none
  PostedTypes = {"npl_inflow_observed", "cash_recovery_observed", "legal_recovery_observed", "workflow_stage_changed"}
  PostedStages = {"workout", "resolved"}
  DecisionTypes = {"restructure", "write_off"}
  MaxDay = 2
  MaxEvents = 4
SYMMETRY Symmetry
INVARIANTS
  TypeOK
  WaterfallReconciles
  ResolvedWhenPaid
  DecisionsAreChronicled
  HandsAreSeparate
  ProposalsWereCovered
  SomeoneProceeds
PROPERTIES
  ImplementsLedger
  ReviewsAreFinal
CHECK_DEADLOCK FALSE
