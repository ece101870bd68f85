------------------------------ MODULE MCWelfareTx ------------------------------
(***************************************************************************)
(* Small instances of WelfareTx: two or three connections at work on one   *)
(* plan.                                                                   *)
(***************************************************************************)
EXTENDS WelfareTx, TLC

CONSTANTS p1, p2, meal, hq, lab

MCBelow == (hq :> {hq, lab}) @@ (lab :> {lab})
OneShare == p1 :> 100
OneUnitOf == p1 :> hq

Plan(units, keep, percents) ==
    [units |-> units, persons |-> {}, exclude |-> {}, enabled |-> {}, keep |-> keep,
     premium |-> 4, percents |-> percents, from |-> 0, to |-> 1]
HalfKept == {Plan({}, 50, {})}
WithPremium == {Plan({}, 0, {50})}

OneSource == {[amount |-> 5, day |-> 0, premium |-> FALSE]}
OneClaim == {[kind |-> "reimbursement", cat |-> meal, amount |-> 3]}

MCPresets == [category |-> [c \in Categories |-> [regime |-> "threshold", active |-> TRUE]],
              limit |-> [c \in Categories |-> [base |-> 4, children |-> None]]]

Symmetry == Permutations(Requests) \cup Permutations(Sources) \cup Permutations(Batches)
            \cup Permutations(Sessions)

===============================================================================
