\* A CREATE session (a view over t1 naming t2 by a regclass constant, views
\* over t1 JOIN t2) concurrent with DROP TABLE t2 CASCADE.
CONSTANTS
  NoObj = NoObj
  NoAddr = NoAddr
  Node <- MCNode
  Rte <- MCRte
  Existing <- MCExisting
  Requests <- ConcurrentCreates
SPECIFICATION ConcurrentSpec
CHECK_DEADLOCK FALSE
INVARIANTS
  NoEdgeToDroppedObject
