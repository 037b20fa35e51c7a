\* Two events, up to three calls each, dedup and single writing on and off.
CONSTANTS
    N = 2
    Modes <- AnyModes
    MaxCalls = 3
SPECIFICATION Spec
CHECK_DEADLOCK FALSE
INVARIANTS
    RunsAtMostOnce
    ChainTellsExecutions
PROPERTIES
    FirstCallSettles
