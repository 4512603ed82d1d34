\* A good, a poison and a malformed event, two consumers, two faults.
SPECIFICATION FairSpec
CONSTANTS
    Events = {e1, e2, e3}
    Poison = {e2}
    Malformed = {e3}
    Consumers = {c1, c2}
    MaxAttempts = 3
    MaxFaults = 2
CHECK_DEADLOCK FALSE
INVARIANTS
    NothingLost
PROPERTIES
    EveryOrderEventSettles
