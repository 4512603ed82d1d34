\* A reclaiming handler repeats a capture that was refunded.
CONSTANTS
    r1 = r1
    ReconcileWorkers = {r1}
    CompensateWorkers = {}
    MaxGeneration = 2
    MaxReconcile = 1
    MaxCompensate = 1
    MaxFaults = 0
SPECIFICATION Spec
INVARIANTS
    PaidOrderHoldsFunds
CHECK_DEADLOCK FALSE
