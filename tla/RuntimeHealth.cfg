\* Every document of four passing checks and at most two more in two layers, as it ages.
SPECIFICATION Spec
CONSTANTS
    MaxExtraChecks = 2
    MaxWrongChecks = 1
    MaxAge = 2
    Reasons = {"no reason", "active_override", "scheduler_stalled", "missing_verifier", "governance_gate_failed"}
    GrowingLayers = {"process", "governance"}
INVARIANTS
    FailClosed
    AggregateMatchesLayers
    TwinsAgree
PROPERTY MoreChecksNeverHelp
CHECK_DEADLOCK FALSE
