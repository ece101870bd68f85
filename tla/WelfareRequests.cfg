SPECIFICATION Spec
CONSTANTS
    None = None
    p1 = p1
    p2 = p2
    meal = meal
    hq = hq
    lab = lab
    Persons = {p1}
    Plans = {pl1, pl2}
    Requests = {r1, r2}
    Sources = {s1}
    Batches = {b1}
    Categories = {meal}
    Units = {hq, lab}
    UnitOf <- OneUnitOf
    Below <- MCBelow
    Share <- OneShare
    Terms <- OpenPlan
    SourceForms <- OneSource
    Claims <- TwoClaims
    CategoryForms <- RegimeForms
    LimitTables <- FamilyTables
    Presets <- MCPresets
    Adjustments <- UpAndDown
    MaxDay = 0
    MaxCredit = 1
SYMMETRY Symmetry
INVARIANTS
    BookingsMatchStatus
    RegisterMatchesRequests
    Solvent
    LotsMatchRequests
PROPERTIES
    ExemptWithinThreshold
CHECK_DEADLOCK FALSE
