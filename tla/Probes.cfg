\* Two tasks that make two calls each: mounts while the ftrace hook comes and
\* goes, or writes, renames and unlinks while the kprobes come and go.  Texts of
\* test.txt that end before, at and after the count, and one beyond PATH_MAX.
CONSTANTS
  Tasks = {t1, t2}
  Mounts = 2
  NulAt = {0, 1, 3}
  Counts = {3}
  PATH_MAX = 3
SPECIFICATION MCFairSpec
INVARIANTS MountedOnce FaultOnlyInHook ProbesDrained ProbesHarmless
PROPERTIES HooksReturn
\* a fault is final
CHECK_DEADLOCK FALSE
