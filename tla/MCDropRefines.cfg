\* performDeletion of ta, RESTRICT and CASCADE, over every consistent
\* pg_depend of up to MaxRows rows between three whole objects, checked
\* against the abstract DropOutcome.
CONSTANTS
  ta = ta
  tb = tb
  tc = tc
  NoObj = NoObj
  NoAddr = NoAddr
  MaxRows = 3
  MaxDepth = 12
  ClassIdOf <- MCRelationsOnly
  Addrs <- WholeAddrs
  Graphs <- MCWholeGraphs
  Requests <- MCDropA
SPECIFICATION Spec
CHECK_DEADLOCK FALSE
PROPERTIES
  OutcomeSpec
