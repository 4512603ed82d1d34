\* A fulfillment and a cancellation of one order, two threads.
CONSTANTS
    m1 = m1
    m2 = m2
    m3 = m3
    w1 = w1
    w2 = w2
    Messages = {m1, m3}
    OpOf <- MCBoth
    Workers = {w1, w2}
    MaxAttempts = 2
    MaxFaults = 1
    MayCrash = FALSE
SPECIFICATION Spec
SYMMETRY Symmetry
PROPERTIES
    CancellationIsFinal
