SPECIFICATION FairSpec
CONSTANTS
    w1 = w1
    w2 = w2
    Facts = {1, 2}
    Streams <- MCStreams
    Workers = {w1, w2}
    MaxAttempts = 2
    MaxFaults = 2
CHECK_DEADLOCK FALSE
INVARIANTS
    NoSilentDuplicates
    MessagesInOrder
PROPERTIES
    JobsSettle
