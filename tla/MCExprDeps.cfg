\* recordDependencyOnExpr / recordDependencyOnSingleRelExpr over the view and
\* constraint trees of MCExprDeps.  Every request is issued once, then the
\* system stops.
CONSTANTS
  Node <- MCNode
  Rte <- MCRte
  Existing <- MCExisting
  Requests <- MCRequests
INIT Init
NEXT Next
CHECK_DEADLOCK FALSE
INVARIANTS
  TypeOK
  WalkAgreesWithMeaning
  MentionsRecorded
