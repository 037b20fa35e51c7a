\* Refuted: UnattributedIsSeen.
CONSTANTS
    N = 2
    BatchSize = 32
    Modes <- FailClosed
    Kinds <- AllKinds
    Actions <- OneAction
    Latencies = {1, 30}
    DeadlineMs = 25
    DelayMs = 50
SPECIFICATION Spec
CHECK_DEADLOCK FALSE
INVARIANTS
    UnattributedIsSeen
