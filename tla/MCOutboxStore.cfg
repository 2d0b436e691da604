\* Every operation of the store: one publisher, two suspended dispatchers.
SPECIFICATION Spec
CONSTANTS
  k1 = k1  k2 = k2  s1 = s1  s2 = s2  s3 = s3  w1 = w1  w2 = w2
  Pubkey = {k1}
  Source = {s1}
  Version = {v1}
  Author <- OneKeyAuthor
  Worker = {w1, w2}
  NoWorker = NoWorker  NoRow = NoRow  NoVersion = NoVersion
  Limit = 3
  MaySuspend = TRUE
  MaxRows = 3
  MaxLate = 0
  MaxDrift = 0
SYMMETRY WorkerSymmetry
INVARIANTS TypeOK PurgeIsLast PurgeCoversMappings
