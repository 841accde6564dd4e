\* performDeletion(ta), RESTRICT and CASCADE, over every consistent
\* pg_depend of up to three rows: is doDeletion ever called twice?
CONSTANTS
  ta = ta
  tb = tb
  tc = tc
  NoObj = NoObj
  NoAddr = NoAddr
  MaxRows = 3
  MaxDepth = 12
  ClassIdOf <- MCRelationsOnly
  Addrs <- WholeAddrs
  Graphs <- MCWholeGraphs
  Requests <- MCDropA
SPECIFICATION Spec
CHECK_DEADLOCK FALSE
INVARIANTS
  DropsOnlyLiveObjects
