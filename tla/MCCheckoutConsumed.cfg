\* The reconciler loses the answer to a consume.
CONSTANTS
    r1 = r1
    ReconcileWorkers = {r1}
    CompensateWorkers = {}
    MaxGeneration = 1
    MaxReconcile = 1
    MaxCompensate = 1
    MaxFaults = 1
SPECIFICATION Spec
INVARIANTS
    ConsumedOrderNotRefunded
CHECK_DEADLOCK FALSE
