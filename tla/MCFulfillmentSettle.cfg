\* Two triggers of one fulfillment, two threads.
CONSTANTS
    m1 = m1
    m2 = m2
    m3 = m3
    Messages = {m1, m2}
    OpOf <- MCOneOp
    Workers = {w1, w2}
    MaxAttempts = 2
    MaxFaults = 1
    MayCrash = TRUE
SPECIFICATION FairSpec
INVARIANTS
    AckedWasHandled
PROPERTIES
    DeliveriesSettle
