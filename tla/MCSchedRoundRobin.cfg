SPECIFICATION FairSpec
CONSTANTS
    WORD = 4
    MaxTasks = 3
    Priorities = {0}
    Delays = {}
    Exiting = {}
PROPERTIES
    ReadyTasksRun
