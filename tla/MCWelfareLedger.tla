---------------------------- MODULE MCWelfareLedger ----------------------------
(***************************************************************************)
(* Small instances of WelfareLedger for TLC.  Amounts are in cents, small  *)
(* enough to exhaust and odd enough to round.                              *)
(***************************************************************************)
EXTENDS WelfareLedger, TLC

CONSTANTS p1, p2, meal, hq, lab

\* p1 sits in the headquarters, p2 in the laboratory below it, hired half-way.
MCUnitOf == (p1 :> hq) @@ (p2 :> lab)
MCBelow == (hq :> {hq, lab}) @@ (lab :> {lab})
MCShare == (p1 :> 100) @@ (p2 :> 50)
OneShare == p1 :> 100
OneUnitOf == p1 :> hq

Plan(units, exclude, keep, percents) ==
    [units |-> units, persons |-> {}, exclude |-> exclude, enabled |-> {}, keep |-> keep,
     premium |-> 3, percents |-> percents, from |-> 0, to |-> 1]
OpenPlan == {Plan({}, {}, 50, {})}
PlanForms == {[Plan({}, {p1}, 100, {}) EXCEPT !.persons = {p1, p2}],
              [Plan({hq}, {}, 0, {0, 50}) EXCEPT !.enabled = {meal}]}

Form(amount, day, premium) == [amount |-> amount, day |-> day, premium |-> premium]
OneSource == {Form(5, 0, FALSE)}
SourceMix == {Form(3, 0, FALSE), Form(2, 1, FALSE), Form(1, 0, TRUE)}

Claim(kind, a) == [kind |-> kind, cat |-> meal, amount |-> a]
TwoClaims == {Claim("reimbursement", 2), Claim("voucher", 3)}
MCNoClaims == {}

Category(regime) == [regime |-> regime, active |-> TRUE]
Table(base, children) == [c \in Categories |-> [base |-> base, children |-> children]]
MCPresets == [category |-> [c \in Categories |-> Category("threshold")],
              limit |-> Table(4, None)]
FamilyTables == {Table(None, 3)}
RegimeForms == {Category("exempt"), [Category("taxable") EXCEPT !.active = FALSE]}
UpAndDown == {-1, 1}

Symmetry == Permutations(Requests) \cup Permutations(Sources) \cup Permutations(Batches)
            \cup Permutations(Plans)

===============================================================================
