SPECIFICATION Spec
CONSTANTS
    Rows = {1, 2}
    Runs = {d1, d2}
    Kinds = {"email", "webhook"}
    Scheduler = "timers"
    Bound = {1}
    Batch = 2
    MaxAttempts = 2
    MaxAborts = 1
INVARIANTS
    SentWasAccepted
    GivesUpLate
CHECK_DEADLOCK FALSE
