\* Three events, two of them faulty, every control and every condition of the matrix.
CONSTANTS
    N = 3
    BatchSize = 32
    Modes <- TheSettings
    Kinds <- AllKinds
    Actions <- TwoActions
    Latencies = {1, 30}
    DeadlineMs = 25
    DelayMs = 50
    Studies <- TheStudies
SPECIFICATION ExperimentSpec
CHECK_DEADLOCK FALSE
INVARIANTS
    SharesAreEven
    BothRunsReadOneStream
    PositionIsTheOnlyDifference
    FailOpenOnlyAdds
    SingleWriterLosesTheLies
    DedupIsLoadBearing
