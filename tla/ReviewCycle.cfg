SPECIFICATION Spec
CONSTANTS
    None = None
    Reviews = {r1, r2}
    Sessions = {c1, c2}
    Templates <- LongAndShort
    Ratings = {good}
    OffScale = {high}
SYMMETRY Symmetry
INVARIANTS
    StagesInStep
    ApprovalsCurrent
    ClosedSettled
PROPERTIES
    UnapprovedOnlyIfEarly
    OpenSessionKeeps
