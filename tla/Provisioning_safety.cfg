SPECIFICATION Spec
CONSTANTS
    Credentials = {c1, c2}
    NoCredential = NoCredential
    Nodes = {n1, n2}
    NoNode = NoNode
    Workers = {w1, w2}
    Reconcilers = {k1}
    Seeds <- TightSeeds
    MaxRevision = 3
    MaxAttempts = 2
CONSTRAINT Scope
SYMMETRY Interchangeable
CHECK_DEADLOCK FALSE
INVARIANTS
    OutcomesFollowOperations
    EndpointsWereApplied
    RemovalIsFinal
    CapacityIsAccounted
PROPERTIES
    StaleWorkersChangeNothing
