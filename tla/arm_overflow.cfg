\* Batches of one: what holds even when a read does not reach the event itself.
CONSTANTS
    N = 4
    BatchSize = 1
    Modes <- RetryModes
    Kinds <- QueueKinds
    Actions <- TwoActions
    Latencies = {1, 30}
    DeadlineMs = 25
    DelayMs = 50
SPECIFICATION Spec
CHECK_DEADLOCK FALSE
INVARIANTS
    BacklogComesAfterTheGate
