\* Appends whose readings of the lock file are timely.
SPECIFICATION TimelySpec
CONSTANTS
    Processes = {p1, p2}
    None = None
    MaxAppends = 2
    MaxWaits = 1
SYMMETRY Symmetry
INVARIANT SingleHolder
PROPERTY OneLog
CHECK_DEADLOCK FALSE
