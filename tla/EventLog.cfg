\* Every race of the lock file, crash and failed write; live processes go on with their appends.
SPECIFICATION FairSpec
CONSTANTS
    Processes = {p1, p2}
    None = None
    MaxAppends = 2
    MaxWaits = 1
INVARIANTS
    TypeOK
    LinesExtendTheLog
    DamageIsContained
PROPERTIES
    AppendsEnd
    AppendProgress
CHECK_DEADLOCK FALSE
