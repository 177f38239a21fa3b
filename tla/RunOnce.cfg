\* Two passes of the server on one engine, a budget of two entries and one attempt.
SPECIFICATION MCSpec
CONSTANTS
    Passes = {c1, c2}
    Contents = {"a", "b", "q", "e"}
    Ids = {"p", "e"}
    Keys = {"a", "b", "q", "e"}
    IdOf <- MCIdOf
    KeyOf <- MCKeyOf
    Escalations = {"e"}
    HasAdapter = {"a", "b"}
    Worklists <- MCWorklists
    Concurrency = 2
    MaxAttempts = 1
    WallBudget = 1
    LeaseTTL = 1
    CapabilityTTL = 1
    VerdictTTL = 2
    ContractExpiry = 3
    MaxTime = 3
    None = None
SYMMETRY Symmetry
INVARIANTS
    TypeOK
    
    ResultsTruthful
PROPERTIES
    RepetitionEnds
    FailureIsFinal
    PassesGoverned
CHECK_DEADLOCK FALSE
