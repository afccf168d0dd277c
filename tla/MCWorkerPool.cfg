CONSTANTS
  Workers = {w1, w2}
  Spawners = {s1, s2}
  j1 = j1
  j2 = j2
  j3 = j3
  j4 = j4
  j5 = j5
  j6 = j6
  Jobs = {j1, j2, j3, j4, j5, j6}
  NoJob = NoJob
  Children <- TwoParents
  Capacity = 2
SPECIFICATION FairSpec
INVARIANT JobRunsOnce
PROPERTY SpawnedIsRun
CHECK_DEADLOCK FALSE
