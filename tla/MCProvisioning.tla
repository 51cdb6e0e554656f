----------------------------- MODULE MCProvisioning -----------------------------
(* Instances of Provisioning for TLC.                                      *)
EXTENDS Provisioning, TLC

CONSTANTS r1, r2, r3, d1, d2, e1, k1, k2, here, there

MCRequests == {r1, r2, r3}
MCOneDevice == {d1}
MCTwoDevices == {d1, d2}
MCEuis == {e1}
MCKeys == {k1, k2}
MCPlaces == {here, there}

Symmetric == Permutations(MCRequests) \cup Permutations(MCKeys)
             \cup Permutations(MCPlaces)
SymmetricDevices == Symmetric \cup Permutations(MCTwoDevices)
=============================================================================
