CONSTANTS
    operator = operator
    stranger = stranger
    Key = {operator, stranger}
    NoKey = NoKey
    Authority = {operator}
    MaxHeight = 3
    MaxSettled = 40
    MaxBatch = 8
    Batch <- MCBatch
    MaxBuilt = 3
SPECIFICATION Spec
INVARIANTS ChainIntact TotalExact InclusionExact MountainsPerfect
CHECK_DEADLOCK FALSE
