\* A compaction appears when one later transaction has been published.
SPECIFICATION Spec
CONSTANTS
  MaxPage = 2
  MaxTX = 3
  Lag = 1
  CacheSize = 1
  MaxFaults = 1
  None = None
INVARIANT Coherent
