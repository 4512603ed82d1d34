\* Two generations, one reconciliation worker, one fault.
CONSTANTS
    r1 = r1
    ReconcileWorkers = {r1}
    CompensateWorkers = {}
    MaxGeneration = 2
    MaxReconcile = 2
    MaxCompensate = 1
    MaxFaults = 1
SPECIFICATION Spec
INVARIANTS
    PaidOrderIsBacked
    AnswerMatchesOrder
PROPERTIES
    StoredAnswersStand
CHECK_DEADLOCK FALSE
