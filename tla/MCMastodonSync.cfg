\* A budget of two over two timelines, so that three statuses leave a gap that
\* is closed over several connections.
SPECIFICATION Spec
CONSTANTS
  Feed <- MCFeed
  Feeds <- MCFeeds
  BackfillLimit = 2
  PageLimit = 1
  MaxStatus = 3
  Kind <- MCKind
  MaxChanges = 1
  MaxFaults = 1
INVARIANT CommittedCovers
INVARIANT VersionsAscend
PROPERTY GapsClosed
CHECK_DEADLOCK FALSE
