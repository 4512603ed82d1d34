\* Two events, two conflicting requests each, two workers, one crash.
CONSTANTS
    Keys = {k1, k2}
    Contents = {c1, c2}
    Workers = {w1, w2}
    MaxAttempts = 2
    MaxCrashes = 1
SPECIFICATION FairSpec
INVARIANTS
    DeliveredIsAcknowledged
PROPERTIES
    QueueKeepsPromise
    EveryDeliveryEnds
CHECK_DEADLOCK FALSE
