CONSTANTS
    v1 = v1
    v2 = v2
    Variant = {v1, v2}
    Session = {s1}
    Worker = {w1, w2}
    Null = Null
    NoRef = NoRef
    Ref <- MCRef
    InitialStock <- MCInitialStock
    Scopes <- MCScopes
    Deltas <- MCDeltas
    Batches <- MCBatches
    MaxCount = 1
    MaxMovements = 2
SYMMETRY WorkerSymmetry
SPECIFICATION Spec
INVARIANTS PostedAtMostOnce
