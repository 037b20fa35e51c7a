\* Chains of up to three records, altered up to twice, dumped, cut and loaded.
CONSTANTS
    Fields <- RecordFields
    Values <- FieldValues
    Contents <- Appended
    MaxLength = 3
    MaxTampers = 2
SPECIFICATION LedgerSpec
CHECK_DEADLOCK FALSE
INVARIANTS
    HonestChainsVerify
PROPERTIES
    AppendingNeverRepairs
    TamperIsFound
    ForgedSealIsFound
    OnlyTheLastGoesUnnoticed
