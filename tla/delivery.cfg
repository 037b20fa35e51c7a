\* Two consumers, three entries, one crash, pages of one.
CONSTANTS
    c1 = c1
    c2 = c2
    e1 = e1
    Items <- OneItem
    Consumers <- TwoConsumers
    Count = 2
    PageSize = 1
    ScanLimit = 2
    MaxStream = 3
    MaxCrashes = 1
SPECIFICATION FairDelivery
CHECK_DEADLOCK FALSE
PROPERTIES
    ConsumersShareABroker
    TakeoversMissNothing
    TakeoversEnd
