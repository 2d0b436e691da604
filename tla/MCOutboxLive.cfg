\* Two publishers, one with two source records; fair delivery.
SPECIFICATION FairSpec
CONSTANTS
  k1 = k1  k2 = k2  s1 = s1  s2 = s2  s3 = s3  w1 = w1  w2 = w2
  Pubkey = {k1, k2}
  Source = {s1, s2, s3}
  Version = {v1}
  Author <- MCAuthor
  Worker = {w1}
  NoWorker = NoWorker  NoRow = NoRow  NoVersion = NoVersion
  Limit = 4
  MaySuspend = FALSE
  MaxRows = 4
  MaxLate = 0
  MaxDrift = 1
INVARIANT PurgedNotAllowed
PROPERTY ChannelLive
