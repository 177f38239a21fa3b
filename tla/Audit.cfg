\* Two runs, reruns after every crash, a verification, a sync and edits, in any order.
SPECIFICATION MCSpec
CONSTANTS
    Runs = {"r1", "r2"}
    Options <- MCOptions
    Files = {"kept", "changed", "gone", "new"}
    Releases = {"v1", "v2"}
    Generated <- MCGenerated
    First = "v1"
    MaxTree = 1
    None = None
INVARIANTS
    TypeOK
    PassIsEarned
    StalePassIsVisible
    PacketIsOneMoment
CHECK_DEADLOCK FALSE
