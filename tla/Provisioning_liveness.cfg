SPECIFICATION FairSpec
CONSTANTS
    Credentials = {c1}
    NoCredential = NoCredential
    Nodes = {n1, n2}
    NoNode = NoNode
    Workers = {w1}
    Reconcilers = {k1}
    Seeds <- TightSeeds
    MaxRevision = 2
    MaxAttempts = 1
CHECK_DEADLOCK FALSE
PROPERTIES
    CommandsSettle
    RemovalConverges
    ImplementsContract
