\* One post, edited: what recovery and replay leave on the relay.
SPECIFICATION Spec
CONSTANTS
  a1 = a1  a2 = a2  p1 = p1  p2 = p2
  Author = {a1}
  Post = {p1}
  AuthorOf <- OneAuthorOf
  Version = {v1, v2}
  First = v1
  Core = {a1}
  None = None
  Limit = 2
  MaxCommits = 2
  MaxEdits = 1
  MaxFaults = 0
  MaxRetarget = 0
INVARIANT Mirrored
CHECK_DEADLOCK FALSE
