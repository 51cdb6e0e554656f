-------------------------- MODULE MCCommandLifecycle --------------------------
(* Instances of CommandLifecycle for TLC.                                   *)
EXTENDS CommandLifecycle, TLC

CONSTANTS d1, t1, t2, w1, w2

MCDevices == {d1}
MCCreators == {t1}
MCWorkers == {w1, w2}
MCFaults == AllFaults \ {"uplink"}
MCVerdicts == {"EXECUTED", "REJECTED"}
MCSymmetry == Permutations(MCWorkers)

\* The instance in which two transactions number commands at once, and every
\* command is settled.
MCTwoCreators == {t1, t2}
MCVerdict == {"EXECUTED"}
=============================================================================
