SPECIFICATION Spec
CONSTANTS
    None = None
    p1 = p1
    p2 = p2
    meal = meal
    hq = hq
    lab = lab
    Persons = {p1, p2}
    Plans = {pl1}
    Requests = {}
    Sources = {s1, s2}
    Batches = {}
    Categories = {meal}
    Units = {hq, lab}
    UnitOf <- MCUnitOf
    Below <- MCBelow
    Share <- MCShare
    Terms <- PlanForms
    SourceForms <- SourceMix
    Claims <- MCNoClaims
    CategoryForms = {}
    LimitTables = {}
    Presets <- MCPresets
    Adjustments = {}
    MaxDay = 2
    MaxCredit = 1
INVARIANTS
    CreditedOnce
PROPERTIES
    DueIsCredited
CHECK_DEADLOCK FALSE
