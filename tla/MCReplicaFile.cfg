\* A compaction has everything that was committed when it appears.
SPECIFICATION Spec
CONSTANTS
  MaxPage = 2
  MaxTX = 3
  Lag = 0
  CacheSize = 1
  MaxFaults = 1
  None = None
INVARIANT ReadsOneSnapshot
INVARIANT Coherent
INVARIANT NoSilentStall
