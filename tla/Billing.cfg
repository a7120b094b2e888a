SPECIFICATION FairSpec
CONSTANTS
    k1 = k1
    k2 = k2
    p1 = p1
    p2 = p2
    Orders = {1, 2}
    Keys = {k1, k2}
    Plan <- MCPlan
    Processes = {p1, p2}
    Refusals = FALSE
    Budgets <- MCBudgets
CHECK_DEADLOCK FALSE
INVARIANTS
    BooksAreTrue
PROPERTIES
    PaymentsSettle
