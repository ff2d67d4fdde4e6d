\* A sale under a percentage discount on the whole cart.
CONSTANTS
    Items = {a}
    MaxCharges = 1
    Rates = {5, 20}
    Return = {r}
    Price = 100
    CreditValue = 100
    MayOverride = FALSE
    MaxUnits = 2
    MaxHolds = 1
    MaxEvals = 1
    MaxVisits = 1
    Habits <- DiscountHabit
    None = None
SPECIFICATION Spec
INVARIANT ChargedAsShown
CHECK_DEADLOCK FALSE
