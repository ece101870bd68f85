SPECIFICATION Spec
CONSTANTS
    None = None
    calendar = calendar
    m1 = m1
    m2 = m2
    Meetings = {m1, m2}
    Accounts = {a1}
    Calendar <- OneCalendar
    Events = {e1, e2}
    Hands = {h1}
    Overlap = FALSE
    MaxAttempts = 2
    MaxSequence <- TwoThenNone
    MaxTrouble = 1
INVARIANTS
    TruthUnlessOvertaken
    StraysExplained
PROPERTY
    LinkSettles
CHECK_DEADLOCK FALSE
