SPECIFICATION Spec
CONSTANTS
    Threads = {"host", "other"}
    MaxSteps = 6
INVARIANT SinkUnlocked
CHECK_DEADLOCK FALSE
