\* The loop ends, the edge lets go, and the arm is a gate.
CONSTANTS
    N = 2
    BatchSize = 32
    Modes <- RetryModes
    Kinds <- AllKinds
    Actions <- OneAction
    Latencies = {1, 30}
    DeadlineMs = 25
    DelayMs = 50
SPECIFICATION FairSpec
CHECK_DEADLOCK FALSE
PROPERTIES
    RunEnds
    ImplementsGate
