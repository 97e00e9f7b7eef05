\* A few interrupts around the unload.
SPECIFICATION Spec
CONSTANT MaxIrqs = 3
INVARIANT TaskletReleased
CHECK_DEADLOCK FALSE
