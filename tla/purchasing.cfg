CONSTANTS
    l1 = l1
    l2 = l2
    Clerk = {ann}
    Line = {l1, l2}
    Ordered <- MCOrdered
    MaxRequests = 2
    MaxReads = 3
    MaxTake = 1
    Nothing = Nothing
SPECIFICATION Spec
INVARIANTS TypeOK StatusMatchesLines EntriesFit
PROPERTIES CancelledIsFinal InboundSpec
CHECK_DEADLOCK FALSE
