SPECIFICATION SupFairSpec
CONSTANTS
    WORD = 4
    MaxTasks = 3
    Priorities = {0, 1}
    Delays = {0, 2, 3}
    Exiting = {1, 2}
    YIELD_EVERY = 2
    MaxFailures = 2
INVARIANTS
    OneConsole
PROPERTIES
    DeadStaysDead
    TasksProceed
    Supervises
