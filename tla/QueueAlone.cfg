SPECIFICATION Spec
CONSTANTS
    Rows = {1, 2}
    Runs = {d1}
    Kinds = {"email", "webhook", "chat"}
    Scheduler = "timers"
    Bound = {1}
    Batch = 1
    MaxAttempts = 5
    MaxAborts = 1
INVARIANTS
    LogTellsOutcome
PROPERTIES
    KeepsPromise
    IsSettled
CHECK_DEADLOCK FALSE
