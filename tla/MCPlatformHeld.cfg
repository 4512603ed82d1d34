\* The client of a quote stream does not read while pricing is told to stop.
CONSTANTS
    a = a
    b = b
    s1 = s1
    s2 = s2
    Skus = {a, b}
    Writers = {w1, w2}
    Subscribers = {s1, s2}
    Filter <- MCFilter
    Early = {s1}
    Quoters = {"q1", "q2"}
    Requested = {a}
    MaxSequence = 2
    MaxLosses = 1
    Streams = {"t1", "t2"}
    Held = {"t1"}
    Workers = {"w"}
    Callers = {"d1", "d2"}
    MaxDrops = 2
    MaxUses = 2
    Parts = {"postgres", "rabbitmq", "postgres-migrate", "notifications", "pricing", "checkout", "storefront"}
    MaxOutages = 1
    Migrators = {"m1", "m2"}
    Files = 3
    Needs <- MCNeeds
    Verified = {1, 3}
    MaxCrashes = 3
SPECIFICATION PlatformSpec
PROPERTIES
    ShutdownAlwaysEnds
CHECK_DEADLOCK FALSE
