\* A reclaiming handler fails before it reaches the payment.
CONSTANTS
    r1 = r1
    ReconcileWorkers = {r1}
    CompensateWorkers = {}
    MaxGeneration = 2
    MaxReconcile = 1
    MaxCompensate = 1
    MaxFaults = 0
SPECIFICATION Spec
INVARIANTS
    ChargeNeverForgotten
CHECK_DEADLOCK FALSE
