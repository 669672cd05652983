SPECIFICATION Spec
CONSTANTS
    Worker = {1, 2, 3}
    Request = {1, 2, 3}
    Ops = {"read", "forget", "destroy"}
    Supported = {"read", "forget"}
    Denied = {}
    Intr = TRUE
    MaxIdle = 1
    Budgets <- MCBudgets
    Null = Null
CHECK_DEADLOCK FALSE
INVARIANTS
    RequestLifetimes
    InterruptsDelivered
    WorkersAccounted
    DestroyedOnceAndLast
PROPERTIES
    AnsweredAndEnded
