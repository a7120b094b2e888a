SPECIFICATION FairSubSpec
CONSTANTS
    Payments = {1, 2, 3}
    Duration <- MixedPlans
    Grace <- OneGrace
    Schedulers = {k1, k2}
    MaxTime = 4
    MaxRefunds = 1
    Doubtful = {1}
    MaxDelay = 1
    MaxRevokes = 1
CHECK_DEADLOCK FALSE
INVARIANTS
    EntitlementMatchesPayments
    LapseIsReported
    EntitlementIsRight
PROPERTIES
    SchedulersCatchUp
