\* Creation, one edit and deletion under faults and target changes.
SPECIFICATION Spec
CONSTANTS
  a1 = a1  a2 = a2  p1 = p1  p2 = p2
  Author = {a1, a2}
  Post = {p1, p2}
  AuthorOf <- MCAuthorOf
  Version = {v1, v2}
  First = v1
  Core = {a1}
  None = None
  Limit = 2
  MaxCommits = 3
  MaxEdits = 1
  MaxFaults = 1
  MaxRetarget = 1
INVARIANT UneditedMirrored
INVARIANT NothingStale
INVARIANT SubscriptionFresh
 
CHECK_DEADLOCK FALSE
