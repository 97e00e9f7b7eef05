\* Three tasks, two kretprobe instances, three mounts in all.
SPECIFICATION FairSpec
CONSTANTS
  Flags = {0}
  Tasks = {t1, t2, t3}
  Instances = {i1, i2}
  None = None
  Calls = 3
INVARIANTS
  OwnArguments
  MemoryAccounted
PROPERTY
  UnloadEnds
CHECK_DEADLOCK FALSE
