SPECIFICATION Spec
CONSTANTS
    Children = {k1, k2, k3}
    None = None
    MaxTasks = 1
INVARIANT RunningIsHeld
CHECK_DEADLOCK FALSE
