\* A compensation worker overtakes the handler.
CONSTANTS
    c1 = c1
    ReconcileWorkers = {}
    CompensateWorkers = {c1}
    MaxGeneration = 1
    MaxReconcile = 1
    MaxCompensate = 1
    MaxFaults = 0
SPECIFICATION FairSpec
PROPERTIES
    CancelledFundsReturned
CHECK_DEADLOCK FALSE
