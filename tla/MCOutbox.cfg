\* One event with the code's budget of three attempts, two publisher loops
\* and one operator replay.
CONSTANTS
    Events = {1}
    Publishers = {p1, p2}
    MaxAttempts = 3
    MaxReplays = 1
SPECIFICATION FairSpec
PROPERTIES
    LiveClaimIsExclusive
    OutboxKeepsPromise
    EveryEventSettles
CHECK_DEADLOCK FALSE
