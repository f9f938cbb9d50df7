SPECIFICATION FairDeliverySpec
CONSTANTS
    Flushers = {f1, f2}
    MaxId = 3
    BatchSize = 2
    MaxMessages = 2
    PruneExtra = 1
    FaultyDb = FALSE
    Services = {scanner, collector}
    Collectors = {collector}
    MaxMsgs = 2
INVARIANTS DeliveryTypeOK CapacityBound Accounted HandedOverReachesClient
PROPERTY FlushEmptiesTable
