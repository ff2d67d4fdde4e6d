CONSTANTS
    v1 = v1
    v2 = v2
    Variant = {v1, v2}
    Worker = {w1}
    Nobody = Nobody
    NoRef = NoRef
    Ref <- MCRef
    Sale = {q1, q2}
    Return = {n1, n2}
    Shift = {s1, s2}
    OpenAtStart = {}
    CashierOf <- OneCashier
    InitialStock <- MCInitialStock
    Carts <- MCCarts
    ReturnBodies <- DistinctLines
    AllowNegativeStock = FALSE
SPECIFICATION Spec
INVARIANTS ClosureIsExact NeverOverReturned
CHECK_DEADLOCK FALSE
