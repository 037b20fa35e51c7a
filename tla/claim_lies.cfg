\* Refuted: EveryLieIsAnEnforcementFailure.
CONSTANTS
    N = 2
    BatchSize = 32
    Modes <- FailOpen
    Kinds <- AllKinds
    Actions <- OneAction
    Latencies = {1, 30}
    DeadlineMs = 25
    DelayMs = 50
SPECIFICATION Spec
CHECK_DEADLOCK FALSE
INVARIANTS
    EveryLieIsAnEnforcementFailure
