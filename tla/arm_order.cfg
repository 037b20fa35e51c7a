\* Three events under the faults that change what is read and when.
CONSTANTS
    N = 3
    BatchSize = 32
    Modes <- RetryModes
    Kinds <- OrderKinds
    Actions <- TwoActions
    Latencies = {1, 30}
    DeadlineMs = 25
    DelayMs = 50
SPECIFICATION Spec
CHECK_DEADLOCK FALSE
INVARIANTS
    PendingAreDuplicates
    EdgeConservesEvents
    OnlyTrailingReordersUnread
    PermittedNotRunIsRewritten
PROPERTIES
    RewritesAreAfterTheFact
    AcknowledgedIsJudged
