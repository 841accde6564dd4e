\* The same appends: does duplicate elimination leave two entries of one
\* object only when both name a positive sub-object?
CONSTANTS
  Addrs <- MCAddrs
  MaxRefs = 4
SPECIFICATION Spec
PROPERTIES
  DedupLaw
