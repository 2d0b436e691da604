\* Six competing events, three authorizations, windows of one second.
SPECIFICATION Spec
CONSTANTS
  k1 = k1  k2 = k2
  Pubkey = {k1, k2}
  Event <- MCEvents
  Handler = {h1}
  NoEvent = NoEvent
  MaxQueryLimit = 2
  Auth <- MCAuths
  Worker = {w1, w2}
  NoAuth = NoAuth
  MaxSkew = 1
  MaxStall = 1
  MaxClock = 6
SYMMETRY WorkerSymmetry
INVARIANT Convergent
INVARIANT NotTombstoned
INVARIANT NewestServed
INVARIANT AppliedOnce
CHECK_DEADLOCK FALSE
