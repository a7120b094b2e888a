SPECIFICATION FairSpec
CONSTANTS
    h1 = h1
    h2 = h2
    Handlers = {h1, h2}
    Updates = {1, 2, 3}
    Chats <- MCChats
    NoHandler = NoHandler
    Limit = 2
    MaxFaults = 1
CHECK_DEADLOCK FALSE
INVARIANTS
    OrdersAreWanted
    AnswersAreRight
PROPERTIES
    UpdatesSettle
