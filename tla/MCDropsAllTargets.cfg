\* performMultipleDeletions(ta, tb), RESTRICT and CASCADE, over every
\* consistent pg_depend of up to three rows: does a commit drop both?
CONSTANTS
  ta = ta
  tb = tb
  tc = tc
  NoObj = NoObj
  NoAddr = NoAddr
  MaxRows = 3
  MaxDepth = 12
  ClassIdOf <- MCRelationsOnly
  Addrs <- WholeAddrs
  Graphs <- MCWholeGraphs
  Requests <- MCDropMany
SPECIFICATION Spec
CHECK_DEADLOCK FALSE
INVARIANTS
  DropsAllTargets
