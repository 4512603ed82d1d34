\* One order, two authorize request ids, three operation request ids.
CONSTANTS
    o1 = o1
    a1 = a1
    a2 = a2
    r1 = r1
    r2 = r2
    r3 = r3
    Orders = {o1}
    Amount <- MCAmount
    MaxAmount = 2
    AuthIds = {a1, a2}
    OrderOf <- MCOrderOf
    OpIds = {r1, r2, r3}
SPECIFICATION Spec
INVARIANTS
    OneActivePayment
    BalancesAddUp
    AnswerAgreesWithPayment
CHECK_DEADLOCK FALSE
