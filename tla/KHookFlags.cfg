\* One task that mounts with one of two flags.
SPECIFICATION Spec
CONSTANTS
  Flags = {0, 1}
  Tasks = {t1}
  Instances = {i1}
  None = None
  Calls = 1
INVARIANT SavedFlags
CHECK_DEADLOCK FALSE
