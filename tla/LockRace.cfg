\* Two processes that append at once.
SPECIFICATION Spec
CONSTANTS
    Processes = {p1, p2}
    None = None
    MaxAppends = 1
    MaxWaits = 1
SYMMETRY Symmetry
INVARIANT SingleHolder
CHECK_DEADLOCK FALSE
