\* More items than the ring has room for; five modules, and three tasks that open
\* the device at any time.
SPECIFICATION MCFairSpec
CONSTANTS
  FIFO_SIZE = 5
  Enqueues = 7
  Users = {u1, u2, u3}
INVARIANTS RingHoldsItems ItemLifetime NothingOutlives
PROPERTIES UnloadEnds ModulesUnload
\* the module may be gone for good
CHECK_DEADLOCK FALSE
