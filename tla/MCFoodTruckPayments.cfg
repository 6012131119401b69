SPECIFICATION FairSpec
CONSTANTS
    o1 = o1
    a1 = a1
    a2 = a2
    Orders = {o1}
    Attempts = {a1, a2}
    OrderOf <- MCOrderOf
    Verifiers = {v1, v2}
    Processes = {p1, p2}
    Nothing = Nothing
INVARIANTS
    CapturesAreReal
    AnsweredCapturesCount
PROPERTIES
    ImplementsPaidOrder
    PaidOrdersComplete
CHECK_DEADLOCK FALSE
