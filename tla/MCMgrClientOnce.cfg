SPECIFICATION Spec
CONSTANTS
    Commands = {c1, c2}
    Targets = {11, 12}
    MaxAttempts = 2
    MaxChanges = 2
    MaxCreations = 2
CHECK_DEADLOCK FALSE
INVARIANT ManagerCommandOnce
