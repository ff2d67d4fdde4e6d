CONSTANTS
    v1 = v1
    v2 = v2
    Variant = {v1, v2}
    Session = {s1, s2}
    Worker = {w1}
    Null = Null
    NoRef = NoRef
    Ref <- MCRef
    InitialStock <- MCInitialStock
    Scopes <- MCScopes
    Deltas <- MCDeltas
    Batches <- MCBatches
    MaxCount = 1
    MaxMovements = 2
SPECIFICATION Spec
INVARIANTS PostedExactlyOnce CompletedIsFullyCounted
PROPERTIES SessionLifecycle
