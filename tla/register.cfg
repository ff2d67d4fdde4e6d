\* The terminal: one or two sales, with each habit of MCRegister.
CONSTANTS
    Items = {a}
    MaxCharges = 2
    Rates = {5, 20}
    Return = {r}
    Price = 100
    CreditValue = 100
    MayOverride = FALSE
    MaxUnits = 2
    MaxHolds = 2
    MaxEvals = 1
    MaxVisits = 1
    Habits <- MixedHabits
    None = None
SPECIFICATION Spec
INVARIANTS TypeOK SnapshotIsCart OneSaleInFlight CreditSpentOnce
PROPERTIES SwapKeepsTheCart CounterSpec SubmissionEnds
CHECK_DEADLOCK FALSE
