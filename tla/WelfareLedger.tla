----------------------------- MODULE WelfareLedger -----------------------------
(***************************************************************************)
(* The welfare account: plans, budget sources, requests and payroll lots   *)
(* over an append-only register of movements.  One action per handler of   *)
(* WelfareService and WelfareAdminService and one for the worker's welfare *)
(* section.  A request runs in one database transaction; here transactions *)
(* run one after the other, and WelfareTx interleaves them.                *)
(*                                                                         *)
(* Each operation is a guard CanX and an effect DoX whose last arguments   *)
(* are the values the handler computed from what it read.  Amounts are in  *)
(* cents.  All plans belong to one fiscal year.  The register is kept as   *)
(* its totals: per plan, person and kind (led), per person and category    *)
(* (used), per request (entries) and per source and person (credits).      *)
(***************************************************************************)
EXTENDS Integers, FiniteSets, Totals

CONSTANTS
    Persons, Plans, Requests, Sources, Batches, Categories, Units,
    UnitOf,        \* [Persons -> Units]: persons.org_unit_id
    Below,         \* [Units -> SUBSET Units]: a unit and its descendants
    Share,         \* [Persons -> 0..100]: percent of the period left at hiring
    Terms,         \* plan settings HR can save (see TermsType)
    SourceForms,   \* budget sources HR can add (see SourceType)
    Claims,        \* requests that pass the catalogue and attachment checks
    CategoryForms, \* category settings HR can save (see CategoryType)
    LimitTables,   \* threshold tables HR can save
    Presets,       \* the preset categories and their threshold rows
    Adjustments,   \* signed amounts of manual adjustments
    MaxDay,        \* bound on the calendar
    MaxCredit,     \* bound on a person's credit in a plan: HR stops there
    None           \* an absent row or value

Kinds == {"credit", "recharge", "clawback", "reserve", "release", "spend", "expire"}
EntryKinds == {"reserve", "release", "spend"}
OPEN == {"submitted", "in_review", "needs_docs"}
Released == {"cancelled", "rejected"}
Approved == {"approved", "fulfilled", "in_payroll", "paid"}
RequestKinds == {"voucher", "service", "reimbursement"}
Regimes == {"exempt", "threshold", "taxable"}
Limits == Nat \cup {None}

TermsType == [units: SUBSET Units, persons: SUBSET Persons, exclude: SUBSET Persons,
              enabled: SUBSET Categories, keep: 0 .. 100,
              premium: Nat, percents: SUBSET (0 .. 100), from: Int, to: Int]
SourceType == [amount: Nat, day: Nat, premium: BOOLEAN]
ClaimType == [kind: RequestKinds, cat: Categories, amount: Nat \ {0}]
CategoryType == [regime: Regimes, active: BOOLEAN]
NoRequest == [status |-> "none"]
SourceRow == [plan: Plans, amount: Nat, day: Nat, premium: BOOLEAN, credited: BOOLEAN]
RequestRow == [status: OPEN \cup Released \cup Approved, person: Persons, plan: Plans,
               kind: RequestKinds, cat: Categories, amount: Nat \ {0},
               taxable: Nat, batch: Batches \cup {None}]
BatchRow == [status: {"exported", "confirmed"}, items: Nat, total: Nat]
LimitType == [Categories -> [base: Limits, children: Limits]]

ASSUME NoneAssumption ==
    /\ None \notin Nat /\ None \notin Plans /\ None \notin Batches
    /\ None \notin CategoryType /\ None \notin SourceRow /\ None \notin BatchRow
ASSUME ConstantsAssumption ==
    /\ IsFiniteSet(Persons) /\ IsFiniteSet(Requests) /\ IsFiniteSet(Sources)
    /\ UnitOf \in [Persons -> Units] /\ Below \in [Units -> SUBSET Units]
    /\ Share \in [Persons -> 0 .. 100]
    /\ Terms \subseteq TermsType /\ SourceForms \subseteq SourceType
    /\ Claims \subseteq ClaimType /\ CategoryForms \subseteq CategoryType
    /\ LimitTables \subseteq LimitType
    /\ Presets \in [category: [Categories -> CategoryType \cup {None}], limit: LimitType]
    /\ Adjustments \subseteq Int /\ MaxDay \in Nat /\ MaxCredit \in Nat

VARIABLES
    staff,      \* persons active, invited or leaving
    today,      \* the calendar day
    status,     \* status[pl]: welfare_plans.status
    terms,      \* terms[pl]: the plan's settings
    source,     \* source[s]: its row with plan and creditedAt, or None
    credits,    \* credits[s][p]: credit movements of source s to person p
    led,        \* led[pl][p][k]: total of the movements of kind k
    used,       \* used[p][c]: usedByCategory of the fiscal year
    entries,    \* entries[r]: how many movements of each kind carry request r
    req,        \* req[r]: the welfare_requests row, status "none" when absent
    batch,      \* batch[b]: the welfare_payroll_batches row, or None
    chosen,     \* chosen[pl][p]: premium choices recorded
    declared,   \* persons who declared dependent children
    category,   \* category[c]: the welfare_categories row, or None
    limit       \* limit[c]: its threshold rows, without and with condition

vars == <<staff, today, status, terms, source, credits, led, used, entries,
          req, batch, chosen, declared, category, limit>>

-------------------------------------------------------------------------------
(* Reading the register *)

Plus(l, k, n) == [l EXCEPT ![k] = l[k] + n]
Floor0(n) == IF n < 0 THEN 0 ELSE n
RoundPercent(a, pct) == (2 * a * pct + 100) \div 200

\* computeBalance: balance and available of one person's movements l in a plan.
Balance(l) == l["credit"] + l["recharge"] - l["clawback"] - l["spend"] - l["expire"]
Available(l) == Balance(l) - Floor0(l["reserve"] - l["release"])

\* thresholdFor: the row for families if declared, else the base row, else any row.
ThresholdFor(c, p) ==
    IF limit[c].children # None /\ (p \in declared \/ limit[c].base = None)
    THEN limit[c].children ELSE limit[c].base

\* checkThreshold: the part of amount a above the room left by what is used.
TaxablePortion(regime, threshold, already, a) ==
    CASE regime = "taxable" -> a
      [] regime = "exempt" \/ threshold = None -> 0
      [] OTHER -> Floor0(a - Floor0(threshold - already))

\* resolvePopulation: persons in service of the units' subtrees or listed.
Members(t, units) ==
    {p \in staff \ t.exclude :
        IF t.units # {} THEN UnitOf[p] \in units \/ p \in t.persons
                        ELSE t.persons = {} \/ p \in t.persons}
Population(t) == Members(t, UNION {Below[u] : u \in t.units})
\* The worker compares the unit itself, never its descendants.
WorkerPopulation(t) == Members(t, t.units)

-------------------------------------------------------------------------------
(* Crediting *)

\* Mutant: the check on creditedAt is missing.
DueAgain(src, plans) ==
    {s \in Sources : /\ src[s] # None
                     /\ src[s].plan \in plans
                     /\ ~ src[s].premium
                     /\ src[s].day <= today}
Due(src, plans) ==
    {s \in Sources : /\ src[s] # None
                     /\ src[s].plan \in plans
                     /\ ~ src[s].credited
                     /\ ~ src[s].premium
                     /\ src[s].day <= today}

\* The pro-rata amount of one source for each person of the population.
Quota(src, s, p) == RoundPercent(src[s].amount, Share[p])
Credited(src, due, pops, s, p) ==
    s \in due /\ p \in pops[src[s].plan] /\ Quota(src, s, p) > 0
Gain(src, due, pops, pl, p) ==
    LET paying == {s \in due : src[s].plan = pl /\ Credited(src, due, pops, s, p)}
    IN  Sum([s \in paying |-> Quota(src, s, p)], paying)

\* Mutant: a source that credits nobody is not marked.
MarkIfPaid(src, due, pops) ==
    LET paid(s) == \E p \in Persons : Credited(src, due, pops, s, p) IN
    /\ source' = [s \in Sources |->
                    IF s \in due /\ paid(s) THEN [src[s] EXCEPT !.credited = TRUE] ELSE src[s]]
    /\ credits' = [s \in Sources |-> [p \in Persons |->
                    credits[s][p] + IF Credited(src, due, pops, s, p) THEN 1 ELSE 0]]
    /\ led' = [pl \in Plans |-> [p \in Persons |->
                Plus(led[pl][p], "credit", Gain(src, due, pops, pl, p))]]
\* Credit the due sources to the populations of their plans and mark them.
CreditSources(src, due, pops) ==
    /\ source' = [s \in Sources |->
                    IF s \in due THEN [src[s] EXCEPT !.credited = TRUE] ELSE src[s]]
    /\ credits' = [s \in Sources |-> [p \in Persons |->
                    credits[s][p] + IF Credited(src, due, pops, s, p) THEN 1 ELSE 0]]
    /\ led' = [pl \in Plans |-> [p \in Persons |->
                Plus(led[pl][p], "credit", Gain(src, due, pops, pl, p))]]

SavedPlans == {pl \in Plans : status[pl] # "none"}
ActivePlans == {pl \in Plans : status[pl] = "active"}
ApiPopulations == [pl \in SavedPlans |-> Population(terms[pl])]
WorkerPopulations == [pl \in SavedPlans |-> WorkerPopulation(terms[pl])]

\* The worker's daily job, one transaction for the tenant: every active plan.
DoRunReminders(due, pops) ==
    /\ CreditSources(source, due, pops)
    /\ UNCHANGED <<staff, today, status, terms, used, entries, req, batch, chosen,
                   declared, category, limit>>
RunReminders == DoRunReminders(Due(source, ActivePlans), WorkerPopulations)

-------------------------------------------------------------------------------
(* Plans and sources *)

CreatePlan(pl, t) ==
    /\ status[pl] = "none"
    /\ status' = [status EXCEPT ![pl] = "draft"]
    /\ terms' = [terms EXCEPT ![pl] = t]
    /\ UNCHANGED <<staff, today, source, credits, led, used, entries, req, batch,
                   chosen, declared, category, limit>>

UpdatePlan(pl, t) ==
    /\ status[pl] \in {"draft", "active"}
    /\ terms' = [terms EXCEPT ![pl] = t]
    /\ UNCHANGED <<staff, today, status, source, credits, led, used, entries, req,
                   batch, chosen, declared, category, limit>>

CanActivatePlan(pl) == status[pl] = "draft"
DoActivatePlan(pl) ==
    /\ status' = [status EXCEPT ![pl] = "active"]
    /\ CreditSources(source, Due(source, {pl}), ApiPopulations)
    /\ UNCHANGED <<staff, today, terms, used, entries, req, batch, chosen, declared,
                   category, limit>>
ActivatePlan(pl) == CanActivatePlan(pl) /\ DoActivatePlan(pl)

\* A source added to an active plan is credited at once if its day has come.
WithSource(s, pl, f) ==
    [source EXCEPT ![s] = [plan |-> pl, amount |-> f.amount, day |-> f.day,
                           premium |-> f.premium, credited |-> FALSE]]
CanAddSource(s, pl) == source[s] = None /\ status[pl] \in {"draft", "active"}
DoAddSource(s, pl, f, due, pops) ==
    /\ CreditSources(WithSource(s, pl, f), due, pops)
    /\ UNCHANGED <<staff, today, status, terms, used, entries, req, batch, chosen,
                   declared, category, limit>>
AddSource(s, pl, f) ==
    /\ CanAddSource(s, pl)
    /\ DoAddSource(s, pl, f, Due(WithSource(s, pl, f), {pl} \cap ActivePlans),
                   ApiPopulations)

\* closePlan: what the roll-over rule does not keep expires, reserved or not.
Lost(pl, p) == RoundPercent(Floor0(Balance(led[pl][p])), 100 - terms[pl].keep)
CanClosePlan(pl) == status[pl] = "active"
DoClosePlan(pl, lost) ==
    /\ led' = [led EXCEPT ![pl] = [p \in Persons |-> Plus(led[pl][p], "expire", lost[p])]]
    /\ status' = [status EXCEPT ![pl] = "closed"]
    /\ UNCHANGED <<staff, today, terms, source, credits, used, entries, req, batch,
                   chosen, declared, category, limit>>
ClosePlan(pl) == CanClosePlan(pl) /\ DoClosePlan(pl, [p \in Persons |-> Lost(pl, p)])

Adjust(pl, p, n) ==
    /\ status[pl] # "none"
    /\ led[pl][p]["recharge"] + led[pl][p]["clawback"] < MaxCredit
    /\ led' = [led EXCEPT ![pl][p] = IF n >= 0 THEN Plus(led[pl][p], "recharge", n)
                                              ELSE Plus(led[pl][p], "clawback", -n)]
    /\ UNCHANGED <<staff, today, status, terms, source, credits, used, entries, req,
                   batch, chosen, declared, category, limit>>

CanChoosePremium(p, pl, percent) ==
    /\ status[pl] = "active"
    /\ terms[pl].from <= today /\ today <= terms[pl].to
    /\ chosen[pl][p] = 0
    /\ percent \in terms[pl].percents
\* The choice is credited from any premium source of the plan, marked as credited
\* or not, or else from a new one, if Sources has a row left for it.
PremiumOf(pl) ==
    {s \in Sources : source[s] # None /\ source[s].plan = pl /\ source[s].premium}
PremiumSource(pl, s) ==
    IF PremiumOf(pl) = {} THEN source[s] = None ELSE s \in PremiumOf(pl)
DoChoosePremium(p, pl, amount, s) ==
    /\ chosen' = [chosen EXCEPT ![pl][p] = @ + 1]
    /\ source' = [source EXCEPT ![s] =
                    IF @ # None THEN @
                    ELSE [plan |-> pl, amount |-> 0, day |-> 0, premium |-> TRUE, credited |-> TRUE]]
    /\ credits' = [credits EXCEPT ![s][p] = @ + 1]
    /\ led' = [led EXCEPT ![pl][p] = Plus(led[pl][p], "credit", amount)]
    /\ UNCHANGED <<staff, today, status, terms, used, entries, req, batch, declared,
                   category, limit>>
ChoosePremium(p, pl, percent) ==
    /\ CanChoosePremium(p, pl, percent)
    /\ \E s \in Sources :
        /\ PremiumSource(pl, s)
        /\ DoChoosePremium(p, pl, RoundPercent(terms[pl].premium, percent), s)

-------------------------------------------------------------------------------
(* Requests *)

\* Mutant: the amount is not compared with what is available.
CanOverdraw(r, p, pl, k) ==
    /\ req[r].status = "none"
    /\ status[pl] = "active"
    /\ p \in Population(terms[pl])
    /\ terms[pl].enabled = {} \/ k.cat \in terms[pl].enabled
    /\ category[k.cat] # None /\ category[k.cat].active
CanCreateRequest(r, p, pl, k) ==
    /\ req[r].status = "none"
    /\ status[pl] = "active"
    /\ p \in Population(terms[pl])
    /\ terms[pl].enabled = {} \/ k.cat \in terms[pl].enabled
    /\ category[k.cat] # None /\ category[k.cat].active
    /\ k.amount <= Available(led[pl][p])
\* Mutant: what the year has already used does not count.
TaxableOfFresh(p, k) ==
    TaxablePortion(category[k.cat].regime, ThresholdFor(k.cat, p), 0, k.amount)
TaxableOf(p, k) ==
    TaxablePortion(category[k.cat].regime, ThresholdFor(k.cat, p), used[p][k.cat], k.amount)
DoCreateRequest(r, p, pl, k, taxable) ==
    /\ req' = [req EXCEPT ![r] =
                [status |-> "submitted", person |-> p, plan |-> pl, kind |-> k.kind,
                 cat |-> k.cat, amount |-> k.amount, taxable |-> taxable, batch |-> None]]
    /\ led' = [led EXCEPT ![pl][p] = Plus(led[pl][p], "reserve", k.amount)]
    /\ used' = [used EXCEPT ![p][k.cat] = @ + k.amount]
    /\ entries' = [entries EXCEPT ![r] = Plus(entries[r], "reserve", 1)]
    /\ UNCHANGED <<staff, today, status, terms, source, credits, batch, chosen,
                   declared, category, limit>>
CreateRequest(r, p, pl, k) ==
    CanCreateRequest(r, p, pl, k) /\ DoCreateRequest(r, p, pl, k, TaxableOf(p, k))

\* Mutant: a request can be decided at any stage.
CanDecideAny(r) == req[r].status # "none"
\* cancelRequest by its owner and decide "reject": the reservation is released.
CanDecide(r) == req[r].status \in OPEN
\* Mutant: the reservation is taken back instead of being released.
Unreserve(r, outcome) ==
    LET q == req[r]
        l == led[q.plan][q.person]
    IN
    /\ req' = [req EXCEPT ![r].status = outcome]
    /\ led' = [led EXCEPT ![q.plan][q.person] = Plus(l, "reserve", -q.amount)]
    /\ used' = [used EXCEPT ![q.person][q.cat] = @ - q.amount]
    /\ entries' = [entries EXCEPT ![r] = Plus(entries[r], "release", 1)]
    /\ UNCHANGED <<staff, today, status, terms, source, credits, batch, chosen,
                   declared, category, limit>>
Release(r, outcome) ==
    LET q == req[r]
        l == led[q.plan][q.person]
    IN
    /\ req' = [req EXCEPT ![r].status = outcome]
    /\ led' = [led EXCEPT ![q.plan][q.person] = Plus(l, "release", q.amount)]
    /\ used' = [used EXCEPT ![q.person][q.cat] = @ - q.amount]
    /\ entries' = [entries EXCEPT ![r] = Plus(entries[r], "release", 1)]
    /\ UNCHANGED <<staff, today, status, terms, source, credits, batch, chosen,
                   declared, category, limit>>
CancelRequest(r) == CanDecide(r) /\ Release(r, "cancelled")
RejectRequest(r) == CanDecide(r) /\ Release(r, "rejected")

\* Mutant: the spend is written without the release.
SpendOnly(r) ==
    LET q == req[r]
        next == IF q.kind = "reimbursement" \/ q.taxable > 0 THEN "approved" ELSE "fulfilled"
    IN
    /\ req' = [req EXCEPT ![r].status = next]
    /\ led' = [led EXCEPT ![q.plan][q.person] = Plus(led[q.plan][q.person], "spend", q.amount)]
    /\ entries' = [entries EXCEPT ![r] = Plus(entries[r], "spend", 1)]
    /\ UNCHANGED <<staff, today, status, terms, source, credits, used, batch, chosen,
                   declared, category, limit>>
\* decide "approve": the reservation becomes a spend; used counts the amount once.
DoApprove(r) ==
    LET q == req[r]
        l == led[q.plan][q.person]
        next == IF q.kind = "reimbursement" \/ q.taxable > 0 THEN "approved" ELSE "fulfilled"
    IN
    /\ req' = [req EXCEPT ![r].status = next]
    /\ led' = [led EXCEPT ![q.plan][q.person] =
                Plus(Plus(l, "release", q.amount), "spend", q.amount)]
    /\ entries' = [entries EXCEPT ![r] = Plus(Plus(entries[r], "release", 1), "spend", 1)]
    /\ UNCHANGED <<staff, today, status, terms, source, credits, used, batch, chosen,
                   declared, category, limit>>
ApproveRequest(r) == CanDecide(r) /\ DoApprove(r)

SetNeedsDocs(r) ==
    /\ req' = [req EXCEPT ![r].status = "needs_docs"]
    /\ UNCHANGED <<staff, today, status, terms, source, credits, led, used, entries,
                   batch, chosen, declared, category, limit>>
AskForDocs(r) == CanDecide(r) /\ SetNeedsDocs(r)

-------------------------------------------------------------------------------
(* Payroll lots *)

Reimbursed(r) == IF req[r].kind = "reimbursement" THEN req[r].amount ELSE 0
ToPay == {r \in Requests : /\ req[r].status = "approved"
                           /\ req[r].batch = None
                           /\ req[r].kind = "reimbursement" \/ req[r].taxable > 0}
CanCreateBatch(b) == batch[b] = None /\ ToPay # {}
\* Mutant: the lot's total counts every item, reimbursement or not.
ExportAll(b, toPay) ==
    /\ batch' = [batch EXCEPT ![b] =
                  [status |-> "exported", items |-> Cardinality(toPay),
                   total |-> Sum([r \in toPay |-> req[r].amount], toPay)]]
    /\ req' = [r \in Requests |->
                IF r \in toPay THEN [req[r] EXCEPT !.status = "in_payroll", !.batch = b]
                ELSE req[r]]
    /\ UNCHANGED <<staff, today, status, terms, source, credits, led, used, entries,
                   chosen, declared, category, limit>>
DoCreateBatch(b, toPay) ==
    /\ batch' = [batch EXCEPT ![b] =
                  [status |-> "exported", items |-> Cardinality(toPay),
                   total |-> Sum([r \in toPay |-> Reimbursed(r)], toPay)]]
    /\ req' = [r \in Requests |->
                IF r \in toPay THEN [req[r] EXCEPT !.status = "in_payroll", !.batch = b]
                ELSE req[r]]
    /\ UNCHANGED <<staff, today, status, terms, source, credits, led, used, entries,
                   chosen, declared, category, limit>>
CreateBatch(b) == CanCreateBatch(b) /\ DoCreateBatch(b, ToPay)

CanConfirmBatch(b) == batch[b] # None /\ batch[b].status = "exported"
DoConfirmBatch(b) ==
    /\ req' = [r \in Requests |->
                IF req[r].status = "in_payroll" /\ req[r].batch = b
                THEN [req[r] EXCEPT !.status = "paid"] ELSE req[r]]
    /\ batch' = [batch EXCEPT ![b].status = "confirmed"]
    /\ UNCHANGED <<staff, today, status, terms, source, credits, led, used, entries,
                   chosen, declared, category, limit>>
ConfirmBatch(b) == CanConfirmBatch(b) /\ DoConfirmBatch(b)

-------------------------------------------------------------------------------
(* Categories, thresholds, declarations, people and the calendar *)

UpsertCategory(c, f) ==
    /\ category' = [category EXCEPT ![c] = f]
    /\ UNCHANGED <<staff, today, status, terms, source, credits, led, used, entries,
                   req, batch, chosen, declared, limit>>

\* putThresholds deletes every row of the year and inserts the given table.
PutThresholds(table) ==
    /\ limit' = table
    /\ UNCHANGED <<staff, today, status, terms, source, credits, led, used, entries,
                   req, batch, chosen, declared, category>>

\* loadPresets adds the categories and the rows that are missing, keeps the others.
Kept(old, preset) == IF old = None THEN preset ELSE old
LoadPresets ==
    /\ category' = [c \in Categories |-> Kept(category[c], Presets.category[c])]
    /\ limit' = [c \in Categories |->
                  [base |-> Kept(limit[c].base, Presets.limit[c].base),
                   children |-> Kept(limit[c].children, Presets.limit[c].children)]]
    /\ UNCHANGED <<staff, today, status, terms, source, credits, led, used, entries,
                   req, batch, chosen, declared>>

Declare(p, value) ==
    /\ declared' = IF value THEN declared \cup {p} ELSE declared \ {p}
    /\ UNCHANGED <<staff, today, status, terms, source, credits, led, used, entries,
                   req, batch, chosen, category, limit>>

\* Hirings and departures, and the day going by, happen outside the welfare module.
Hire(p) ==
    /\ p \notin staff
    /\ staff' = staff \cup {p}
    /\ UNCHANGED <<today, status, terms, source, credits, led, used, entries, req,
                   batch, chosen, declared, category, limit>>
Leave(p) ==
    /\ p \in staff
    /\ staff' = staff \ {p}
    /\ UNCHANGED <<today, status, terms, source, credits, led, used, entries, req,
                   batch, chosen, declared, category, limit>>
Tick ==
    /\ today < MaxDay
    /\ today' = today + 1
    /\ UNCHANGED <<staff, status, terms, source, credits, led, used, entries, req,
                   batch, chosen, declared, category, limit>>

-------------------------------------------------------------------------------
(* The specification *)

Init ==
    /\ staff = Persons
    /\ today = 0
    /\ status = [pl \in Plans |-> "none"]
    /\ terms = [pl \in Plans |-> None]
    /\ source = [s \in Sources |-> None]
    /\ credits = [s \in Sources |-> [p \in Persons |-> 0]]
    /\ led = [pl \in Plans |-> [p \in Persons |-> [k \in Kinds |-> 0]]]
    /\ used = [p \in Persons |-> [c \in Categories |-> 0]]
    /\ entries = [r \in Requests |-> [k \in EntryKinds |-> 0]]
    /\ req = [r \in Requests |-> NoRequest]
    /\ batch = [b \in Batches |-> None]
    /\ chosen = [pl \in Plans |-> [p \in Persons |-> 0]]
    /\ declared = {}
    /\ category = [c \in Categories |-> None]
    /\ limit = [c \in Categories |-> [base |-> None, children |-> None]]

Next ==
    \/ RunReminders
    \/ \E pl \in Plans, t \in Terms : CreatePlan(pl, t) \/ UpdatePlan(pl, t)
    \/ \E pl \in Plans : ActivatePlan(pl) \/ ClosePlan(pl)
    \/ \E s \in Sources, pl \in Plans, f \in SourceForms : AddSource(s, pl, f)
    \/ \E pl \in Plans, p \in Persons, n \in Adjustments : Adjust(pl, p, n)
    \/ \E p \in Persons, pl \in Plans, percent \in UNION {t.percents : t \in Terms} :
            ChoosePremium(p, pl, percent)
    \/ \E r \in Requests, p \in Persons, pl \in Plans, k \in Claims :
            CreateRequest(r, p, pl, k)
    \/ \E r \in Requests :
            CancelRequest(r) \/ RejectRequest(r) \/ ApproveRequest(r) \/ AskForDocs(r)
    \/ \E b \in Batches : CreateBatch(b) \/ ConfirmBatch(b)
    \/ \E c \in Categories, f \in CategoryForms : UpsertCategory(c, f)
    \/ \E table \in LimitTables : PutThresholds(table)
    \/ LoadPresets
    \/ \E p \in Persons, value \in BOOLEAN : Declare(p, value)
    \/ \E p \in Persons : Hire(p) \/ Leave(p)
    \/ Tick

\* The worker runs every morning whatever the users do.
Spec == Init /\ [][Next]_vars /\ WF_vars(RunReminders)

-------------------------------------------------------------------------------
(* Properties *)

\* Every variable has its type; no total of the register is ever negative.
TypeOK ==
    /\ staff \subseteq Persons
    /\ today \in 0 .. MaxDay
    /\ status \in [Plans -> {"none", "draft", "active", "closed"}]
    /\ terms \in [Plans -> Terms \cup {None}]
    /\ \A pl \in Plans : status[pl] # "none" => terms[pl] \in Terms
    /\ source \in [Sources -> SourceRow \cup {None}]
    /\ credits \in [Sources -> [Persons -> Nat]]
    /\ led \in [Plans -> [Persons -> [Kinds -> Nat]]]
    /\ used \in [Persons -> [Categories -> Int]]
    /\ entries \in [Requests -> [EntryKinds -> Nat]]
    /\ req \in [Requests -> RequestRow \cup {NoRequest}]
    /\ batch \in [Batches -> BatchRow \cup {None}]
    /\ chosen \in [Plans -> [Persons -> Nat]]
    /\ declared \subseteq Persons
    /\ category \in [Categories -> CategoryType \cup {None}]
    /\ limit \in LimitType

\* A request reserves its amount once, releases it once when it is decided or
\* cancelled, and is spent once exactly when it was approved (adr 0008, point 3).
BookingsMatchStatus ==
    \A r \in Requests :
        /\ entries[r]["reserve"] = IF req[r].status = "none" THEN 0 ELSE 1
        /\ entries[r]["release"] = IF req[r].status \in Released \cup Approved THEN 1 ELSE 0
        /\ entries[r]["spend"] = IF req[r].status \in Approved THEN 1 ELSE 0

Owned(stages, pl, p) ==
    {r \in Requests : /\ req[r].status \in stages
                      /\ req[r].plan = pl /\ req[r].person = p}
AmountsOf(stages, pl, p) ==
    Sum([r \in Owned(stages, pl, p) |-> req[r].amount], Owned(stages, pl, p))

\* What the register holds as reserved and as spent for a person in a plan is
\* what the person's open and approved requests amount to: createRequest,
\* cancelRequest and decide keep the two tables together.
RegisterMatchesRequests ==
    \A pl \in Plans, p \in Persons :
        /\ led[pl][p]["reserve"] - led[pl][p]["release"] = AmountsOf(OPEN, pl, p)
        /\ led[pl][p]["spend"] = AmountsOf(Approved, pl, p)

\* While a plan is not closed, requests never commit or spend more than was
\* credited: only HR's negative adjustments (clawback) can overdraw an account.
Solvent ==
    \A pl \in Plans, p \in Persons :
        status[pl] # "closed" =>
            Available(led[pl][p]) + led[pl][p]["clawback"] >= 0

Exempt(p, c) ==
    LET mine == {r \in Requests : /\ req[r].status \in OPEN \cup Approved
                                  /\ req[r].person = p /\ req[r].cat = c}
    IN  Sum([r \in mine |-> req[r].amount - req[r].taxable], mine)

\* When a step makes a person's exempt total of a threshold category grow, the
\* new total is within the threshold in force for that person: createRequest
\* marks as taxable all that checkThreshold finds above it, over all plans.
ExemptWithinThreshold ==
    [][\A p \in Persons, c \in Categories :
        (category[c] # None /\ category[c].regime = "threshold"
            /\ ThresholdFor(c, p) # None /\ Exempt(p, c)' > Exempt(p, c))
        => Exempt(p, c)' <= ThresholdFor(c, p)]_vars

\* A source is credited to a person at most once, and only when it is marked as
\* credited: activation, addition and the worker never repeat it. The mark says
\* nothing of the premium sources, of which a choice credits any of the plan's,
\* marked or not: of all of them together a person is credited at most once.
CreditedOnce ==
    /\ \A s \in Sources, p \in Persons :
        source[s] = None \/ ~ source[s].premium =>
            credits[s][p] <= IF source[s] # None /\ source[s].credited THEN 1 ELSE 0
    /\ \A pl \in Plans, p \in Persons : \A s, z \in PremiumOf(pl) :
        /\ credits[s][p] <= 1
        /\ credits[s][p] > 0 /\ credits[z][p] > 0 => s = z

InBatch(b) == {r \in Requests : req[r].status # "none" /\ req[r].batch = b}

\* A lot pays what it was exported with: its count and total are those of the
\* requests it holds, none of which leaves it, and confirming it pays them all.
LotsMatchRequests ==
    /\ \A b \in Batches : batch[b] # None =>
        /\ batch[b].items = Cardinality(InBatch(b))
        /\ batch[b].total = Sum([r \in InBatch(b) |-> Reimbursed(r)], InBatch(b))
        /\ \A r \in InBatch(b) :
            req[r].status = IF batch[b].status = "confirmed" THEN "paid" ELSE "in_payroll"
    /\ \A r \in Requests : req[r].status \in {"in_payroll", "paid"} =>
        req[r].batch \in Batches /\ batch[req[r].batch] # None

\* A source whose day has come, in an active plan, is eventually credited by the
\* worker unless the plan is closed first.
DueIsCredited ==
    \A s \in Sources :
        s \in Due(source, ActivePlans) ~>
            /\ source[s] # None
            /\ source[s].credited \/ status[source[s].plan] = "closed"

===============================================================================
