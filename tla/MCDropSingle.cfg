\* performDeletion of one object over every consistent pg_depend of up to
\* four rows between three whole objects, RESTRICT and CASCADE.
CONSTANTS
  ta = ta
  tb = tb
  tc = tc
  NoObj = NoObj
  NoAddr = NoAddr
  MaxRows = 4
  MaxDepth = 12
  ClassIdOf <- MCMixedClasses
  Addrs <- WholeAddrs
  Graphs <- MCWholeGraphs
  Requests <- MCDropA
SPECIFICATION Spec
CHECK_DEADLOCK FALSE
INVARIANTS
  TypeOK
  NoDanglingReferences
PROPERTIES
  Termination
