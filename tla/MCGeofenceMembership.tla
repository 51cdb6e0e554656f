-------------------------- MODULE MCGeofenceMembership --------------------------
(* Instances of GeofenceMembership for TLC.                                *)
EXTENDS GeofenceMembership, TLC

CONSTANTS r1, r2, a1, a2, g1, f1

MCRequests == {r1, r2}
MCAssets == {a1, a2}
MCGroups == {g1}
MCFences == {f1}
MCHistories == {<<>>, <<TRUE>>}

Symmetric == Permutations(MCRequests) \cup Permutations(MCAssets)
=============================================================================
