\* A list of two elements, at most two views, two writes, a careful program.
CONSTANTS
    StartSize = 2
    Values = {4}
    MaxObjects = 3
    MaxWrites = 2
    Careful = TRUE
SPECIFICATION Spec
INVARIANTS
    ReadsAreLive
    Survives
PROPERTY KeepsPromise
\* The writes are bounded.
CHECK_DEADLOCK FALSE
