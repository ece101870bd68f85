--------------------------- MODULE MCCampaign360 ----------------------------
EXTENDS Campaign360, TLC

CONSTANTS boss, p, r, q

MCCategoryOf == boss :> "manager" @@ p :> "peer" @@ r :> "peer" @@ q :> "report"
MCRows == {<<boss, 1>>, <<p, 1>>, <<p, 2>>, <<r, 1>>, <<q, 1>>}

Campaign(least, most, by, approval) ==
  [anonymous |-> {"peer", "report"}, threshold |-> 2, least |-> least, most |-> most,
   nominationBy |-> by, approval |-> approval]
MCRules == {Campaign(0, 2, "subject", TRUE), Campaign(1, 1, "manager", TRUE)}

Symmetry == Permutations(Connections)
=============================================================================
