\* CREATE VIEW / ADD CONSTRAINT statements over t1 and t2, then DROP TABLE t1
\* (RESTRICT, CASCADE) or DROP COLUMN t1.b over the rows they recorded.
CONSTANTS
  NoObj = NoObj
  NoAddr = NoAddr
  Node <- MCNode
  Rte <- MCRte
  Existing <- MCExisting
  Requests <- Creates
SPECIFICATION ComposedSpec
CHECK_DEADLOCK FALSE
INVARIANTS
  MentionersDropped
  ColumnDropKeepsOthers
