SPECIFICATION Spec
CONSTANTS
  AttributeSets <- MCAttributeSets
  InitialAttributes <- MCInitialAttributes
  MaxNew = 1
  MaxSaves = 3
  MaxEvents = 4
INVARIANTS NoResurrection LastWriteWins StoredOnce CacheFresh
CHECK_DEADLOCK FALSE
