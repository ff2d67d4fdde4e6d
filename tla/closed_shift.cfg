CONSTANTS
    v1 = v1
    v2 = v2
    Variant = {v1, v2}
    Worker = {w1, w2}
    Nobody = Nobody
    NoRef = NoRef
    Ref <- MCRef
    Sale = {q1}
    Return = {n1}
    Shift = {s1}
    OpenAtStart = {s1}
    CashierOf <- OwnCashier
    InitialStock <- MCInitialStock
    Carts <- MCCarts
    ReturnBodies <- FirstLine
    AllowNegativeStock = FALSE
SPECIFICATION Spec
INVARIANTS ClosureIsExact
SYMMETRY TillSymmetry
CHECK_DEADLOCK FALSE
