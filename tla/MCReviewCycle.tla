----------------------------- MODULE MCReviewCycle -----------------------------
(***************************************************************************)
(* Small instances of ReviewCycle: two reviews, two calibration sessions,  *)
(* and templates with and without a self-assessment, approvals and a       *)
(* signature.                                                              *)
(***************************************************************************)
EXTENDS ReviewCycle, TLC

Template(self, steps, sign) == [self |-> self, steps |-> steps, sign |-> sign]
LongAndShort == {Template(TRUE, 2, TRUE), Template(FALSE, 1, FALSE), Template(TRUE, 0, FALSE)}
OneStep == {Template(TRUE, 1, FALSE)}

Symmetry == Permutations(Reviews) \cup Permutations(Sessions)

===============================================================================
