\* Two tasks, one byte, every operation that sleeps or wedges: the locks, the wait
\* queues, the wake-ups and the signals in every order, and what eventually happens.
SPECIFICATION FairSpec
CONSTANTS
  Tasks = {t1, t2}
  NoTask = NoTask
  HELLODEV_SIZE = 1
  Bytes = {0}
  ReadCounts = {1}
  WriteCounts = {1}
  Ops = {"read", "write", "poll"}
  OverlapMoves = FALSE
INVARIANTS
  MutexDiscipline
  NoLostWakeup
  EntriesTracked
PROPERTIES
  SleepsOnlyWhileBlocked
  SignalledReturns
  PollWedges
CHECK_DEADLOCK FALSE
