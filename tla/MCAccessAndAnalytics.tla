------------------------- MODULE MCAccessAndAnalytics -------------------------
(* Instances of AccessControl, TemporalSampling and TemporalAnalytics for  *)
(* TLC.  The three share no state: a behaviour is one of one of them.      *)
EXTENDS AccessControl, TemporalSampling, TemporalAnalytics, TLC

(* AccessControl.                                                          *)
CONSTANTS q1, q2, q3, q4, u1, r1, r2, s1, s2

MCFourRequests == {q1, q2, q3, q4}
MCUsers == {u1}
MCRoles == {r1, r2}
MCServices == {s1, s2}
MCSeededRoles == {r1}
MCSeededServices == {s1}
Symmetric == Permutations(MCFourRequests)

(* TemporalSampling, in minutes.                                           *)
MCAllowed == {1, 2, 5, 10, 15, 20, 30, 45, 60, 90, 120, 180, 240, 360, 720, 1440}
MCWindows == {1, 59, 60, 61, 720, 1439, 1440, 1441, 2880, 2881, 10080, 43200, 44640}
MCDevices == {0, 1, 2, 7, 100, 484, 500, 501, 2500, 5000, 7500, 7501, 12500, 15000, 15001, 25001}

(* TemporalAnalytics; it begins before the epoch.                          *)
MCFirstAt == -9
MCSteps == {0, 2, 3, 7, 10}
MCCharts == {[from |-> f, to |-> f + n, bucket |-> b] : f \in {-8, 2}, n \in {1, 6, 17}, b \in {3, 5}}
MCAnyChart == CHOOSE q \in MCCharts : TRUE    \* where the chart does not matter

VARIABLE part
mcVars == <<part, accessVars, queryVars, observationVars>>

MCInit ==
  /\ part \in {"access", "sampling", "observations"}
  /\ AccessInit /\ QueryInit /\ ObservationInit
  /\ part = "observations" \/ query = MCAnyChart

MCNext ==
  \/ part = "access" /\ AccessNext /\ UNCHANGED <<part, queryVars, observationVars>>
  \/ part = "sampling" /\ QueryNext /\ UNCHANGED <<part, accessVars, observationVars>>
  \/ part = "observations" /\ ObservationNext /\ UNCHANGED <<part, accessVars, queryVars>>

MCSpec == MCInit /\ [][MCNext]_mcVars
=============================================================================
