\* Two tasks, sharing an open file or with a file each.
SPECIFICATION FairSpec
CONSTANTS
  Tasks = {t1, t2}
  NoTask = NoTask
  Files = {f1, f2}
  Fds <- SharedOrPrivate
  HELLODEV_SIZE = 2
  UINT_RANGE = 4
  Bytes = {0, 1}
  Counts = {2}
  Offsets <- SomeOffsets
  MaxSeekCur = 2
INVARIANTS
  AccessInBounds
  CopiesAreWhole
PROPERTIES
  SolePosition
  CallsReturn
