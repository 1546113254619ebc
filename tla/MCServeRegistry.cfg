SPECIFICATION Spec
CONSTANTS
    Pids = {p1, p2, p3}
    Free = Free
    Stamped = TRUE
    MaxStarts = 4
    MaxFaults = 1
SYMMETRY PidSymmetry
INVARIANTS
    ServerListed
    ListTrue
CHECK_DEADLOCK FALSE
