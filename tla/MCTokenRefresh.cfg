\* Two workers, the maintenance loop and one authorization.
SPECIFICATION Spec
CONSTANTS
  Caller = {c1, c2}
  Callback = {k1}
  Lifetime = 1
  Period = 1
  MaxTime = 2
  MaxFaults = 1
  None = None
  Maintenance = Maintenance
INVARIANT SingleUse
INVARIANT AuthorizationKept
INVARIANT StoredUsable
PROPERTY Settles
CHECK_DEADLOCK FALSE
