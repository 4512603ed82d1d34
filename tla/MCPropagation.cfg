\* Every request a client may send.
CONSTANTS
    Tenants = {"t1", "t2"}
    ClientRequests <- MCRequests
INIT PropagationInit
NEXT PropagationNext
INVARIANT CarrierCrossesEveryHop
CHECK_DEADLOCK FALSE
