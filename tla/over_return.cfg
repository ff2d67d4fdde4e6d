CONSTANTS
    v1 = v1
    v2 = v2
    Variant = {v1, v2}
    Worker = {w1}
    Nobody = Nobody
    NoRef = NoRef
    Ref <- MCRef
    Sale = {q1}
    Return = {n1}
    Shift = {s1}
    OpenAtStart = {}
    CashierOf <- OneCashier
    InitialStock <- MCInitialStock
    Carts <- MCCarts
    ReturnBodies <- RepeatedLine
    AllowNegativeStock = FALSE
SPECIFICATION Spec
INVARIANTS NeverOverReturned
CHECK_DEADLOCK FALSE
