\* Every fault on two events, every setting, batches that never overflow.
CONSTANTS
    N = 2
    BatchSize = 32
    Modes <- FaultModes
    Kinds <- AllKinds
    Actions <- FourActions
    Latencies = {1, 30}
    DeadlineMs = 25
    DelayMs = 50
SPECIFICATION Spec
CHECK_DEADLOCK FALSE
INVARIANTS
    TypeOK
    GateInvariant
    FailClosedHolds
    OnlyRetriesRunTwice
    CrashesAreRedelivered
    OnlyCurrentUndecided
    JoinGapsAreRefusedOutages
    LiesAreEnforcementFailures
    CausesNameTheFailMode
    TalliesMatchTheChain
    RatesAreProper
    ReportsAgree
    PinnedReplayFindsTheAltered
    StrataAddUp
