\* One generation; the worker that is awake may die or be cut off twice.
CONSTANTS
    r1 = r1
    c1 = c1
    ReconcileWorkers = {r1}
    CompensateWorkers = {c1}
    MaxGeneration = 1
    MaxReconcile = 2
    MaxCompensate = 2
    MaxFaults = 2
SPECIFICATION WorkersSpec
PROPERTIES
    ReconcilerDrains
    CompensatorDrains
CHECK_DEADLOCK FALSE
