SPECIFICATION TxSpec
CONSTANTS
    None = None
    p1 = p1
    p2 = p2
    meal = meal
    hq = hq
    lab = lab
    Persons = {p1}
    Plans = {pl1}
    Requests = {r1}
    Sources = {s1, s2}
    Batches = {b1, b2}
    Categories = {meal}
    Units = {hq, lab}
    UnitOf <- OneUnitOf
    Below <- MCBelow
    Share <- OneShare
    Terms <- WithPremium
    SourceForms <- OneSource
    Claims <- OneClaim
    CategoryForms = {}
    LimitTables = {}
    Presets <- MCPresets
    Adjustments = {}
    MaxDay = 0
    MaxCredit = 1
    Sessions = {x1, x2}
    MaxReleases = 1
SYMMETRY Symmetry
INVARIANTS
    RegisterExplained
PROPERTY
    SerialUnlessOvertaken
CHECK_DEADLOCK FALSE
