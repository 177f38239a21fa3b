\* Three calls of one port: repeated saves, a key used by two queues and a claim.
SPECIFICATION MCSpec
CONSTANTS
    Calls = {1, 2, 3}
    Queues = {"q1", "q2"}
    Keys = {"k"}
    Versions = {1}
    None = None
INVARIANTS
    TypeOK
    VersionsTellSaves
    OneWinner
    QueueBalance
PROPERTY
    HonestAnswers
CHECK_DEADLOCK FALSE
