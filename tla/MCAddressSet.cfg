\* Every sequence of up to four appends of five addresses, and duplicate
\* elimination after any of them, against the reference result.
CONSTANTS
  Addrs <- MCAddrs
  MaxRefs = 4
SPECIFICATION Spec

PROPERTIES
  DedupMatchesReference
