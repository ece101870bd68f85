----------------------------- MODULE MCSurvey ------------------------------
EXTENDS Survey, TLC

CONSTANTS p1, p2, p3, s1, s2

MCHome == p1 :> s1 @@ p2 :> s1 @@ p3 :> s2

Symmetry == {f @@ g : f \in Permutations(Connections), g \in Permutations({p1, p2})}
=============================================================================
