\* DROP TABLE ta and ALTER TABLE ta DROP COLUMN 1, RESTRICT and CASCADE,
\* on a damaged pg_depend: any three rows, INTERNAL ones without the
\* one-owner rule and PIN rows with a depender.
\* The stack cap (13) lies above the bound 3 * 3 + 3 of RecursionBoundedByRows.
CONSTANTS
  ta = ta
  tb = tb
  tc = tc
  NoObj = NoObj
  NoAddr = NoAddr
  MaxRows = 3
  MaxDepth = 13
  ClassIdOf <- MCDamagedClasses
  Addrs <- ColumnAddrs
  Graphs <- MCCorruptGraphs
  Requests <- MCDamagedRequests
SPECIFICATION Spec
CHECK_DEADLOCK FALSE
INVARIANTS
  NoDanglingReferences
  RecursionBoundedByRows
PROPERTIES
  Termination
  RecursesIntoLiveObjects
  DependentsDroppedFirst
