-------------------------------- MODULE Totals --------------------------------
(***************************************************************************)
(* Sums of natural numbers over a finite set.  The amount a[x] of each     *)
(* member is counted as a[x] unit tokens, so a sum is the size of a finite *)
(* set: TLC evaluates it on small amounts, and the theorems on finite sets *)
(* give its laws (module WelfareProofs) without recursion.                 *)
(***************************************************************************)
EXTENDS Integers, FiniteSets

\* The unit tokens of the members of S: a[x] of them for each x.
Tokens(a, S) == UNION {{x} \X (1 .. a[x]) : x \in S}

\* The sum of a[x] over the members x of the finite set S.
Sum(a, S) == Cardinality(Tokens(a, S))

===============================================================================
