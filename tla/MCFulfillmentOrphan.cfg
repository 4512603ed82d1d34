\* One delivery, one thread, one failed dispatch.
CONSTANTS
    m1 = m1
    m2 = m2
    m3 = m3
    Messages = {m1}
    OpOf <- MCOne
    Workers = {w1}
    MaxAttempts = 2
    MaxFaults = 1
    MayCrash = FALSE
SPECIFICATION Spec
INVARIANTS
    CompletedHasSentEffects
