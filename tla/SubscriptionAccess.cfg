SPECIFICATION JointSpec
CONSTANTS
    Payments = {1, 2}
    Duration <- OnePlan
    Grace <- OneGrace
    Schedulers = {k1}
    MaxRefunds = 1
    Doubtful = {}
    MaxDelay = 1
    MaxRevokes = 1
    Credentials = {c1, c2}
    Nodes = {n1, n2}
    MaxRevision = 3
    MaxEvents = 5
    MaxTime = 2
CHECK_DEADLOCK FALSE
SYMMETRY JointSymmetry
INVARIANTS
    AccessMatchesEntitlement
