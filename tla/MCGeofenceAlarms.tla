---------------------------- MODULE MCGeofenceAlarms ----------------------------
(* Instances of GeofenceAlarms for TLC.                                     *)
EXTENDS GeofenceAlarms

CONSTANTS d1, d2, a1, f1, f2, t1, t2

MCDevices == {d1, d2}
MCAssets == {a1}
MCFences == {f1, f2}
MCTasks == {t1, t2}

(* Every fence assigned and one device on the asset: the changes lead to   *)
(* the other beginnings.                                                   *)
MCInit ==
  /\ Init
  /\ member = Pair
  /\ carries[d1] \in Asset

MCSpec == MCInit /\ [][Next]_vars /\ \A t \in Task : WF_vars(EvaluationStep(t))
=============================================================================
