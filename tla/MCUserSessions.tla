----------------------------- MODULE MCUserSessions -----------------------------
(* Instances of UserSessions for TLC.                                      *)
EXTENDS UserSessions

CONSTANTS r1, r2

MCRequests == {r1, r2}
=============================================================================
