\* Two generations, one compensation worker.
CONSTANTS
    c1 = c1
    ReconcileWorkers = {}
    CompensateWorkers = {c1}
    MaxGeneration = 2
    MaxReconcile = 1
    MaxCompensate = 2
    MaxFaults = 0
SPECIFICATION Spec
INVARIANTS
    PaidOrderIsBacked
    OldGenerationsRetired
PROPERTIES
    StoredAnswersStand
CHECK_DEADLOCK FALSE
