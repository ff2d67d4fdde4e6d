CONSTANTS
    v1 = v1
    v2 = v2
    Variant = {v1, v2}
    Worker = {w1, w2}
    Nobody = Nobody
    NoRef = NoRef
    Ref <- MCRef
    Sale = {q1, q2}
    Return = {n1}
    Shift = {s1, s2}
    OpenAtStart = {s1, s2}
    CashierOf <- OwnCashier
    InitialStock <- MCInitialStock
    Carts <- MCCarts
    ReturnBodies <- FirstLine
    AllowNegativeStock = TRUE
SPECIFICATION Spec
INVARIANTS TypeOK LedgerInv Isolation BooksReconcile SaleIsPosted
PROPERTIES BookSpec SaleOnOpenShift ClosureIsFinal
SYMMETRY TillSymmetry
CHECK_DEADLOCK FALSE
