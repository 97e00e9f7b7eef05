\* Two tasks, three bytes, so that a write can find room for only a part and a
\* read leaves bytes to be moved to the front.
SPECIFICATION Spec
CONSTANTS
  Tasks = {t1, t2}
  NoTask = NoTask
  HELLODEV_SIZE = 3
  Bytes = {0, 1}
  ReadCounts = {1}
  WriteCounts = {2}
  Ops = {"read", "write", "ioctl"}
  OverlapMoves = TRUE
INVARIANTS
  CountFits
PROPERTY
  ImplementsFifo
SYMMETRY TaskSymmetry
CHECK_DEADLOCK FALSE
