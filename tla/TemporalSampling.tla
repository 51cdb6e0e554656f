---------------------------- MODULE TemporalSampling ----------------------------
(***************************************************************************)
(* The resolution of a chart: the size of the buckets for a query over a   *)
(* window of time and a number of devices, from a fixed list of sizes.  A  *)
(* query grows as a user widens the window or adds devices; time is counted*)
(* in units that divide every bucket of the list.                          *)
(***************************************************************************)
EXTENDS Integers, FiniteSets, FiniteSetsExt

CONSTANTS
  AllowedBuckets,   \* ALLOWED_BUCKET_SECONDS within the limits of the query
  TargetPoints, MaxPoints,
  Windows, Devices  \* bounds: the windows and numbers of devices asked for

(* _validate_inputs.                                                       *)
ValidInputs ==
  /\ AllowedBuckets # {} /\ AllowedBuckets \subseteq Nat \ {0}
  /\ TargetPoints \in Nat \ {0} /\ MaxPoints \in Nat /\ TargetPoints <= MaxPoints
  /\ Windows \subseteq Nat \ {0} /\ Devices \subseteq Nat

ASSUME InputsOK == ValidInputs /\ Windows # {} /\ Devices # {}

VARIABLES window, devices
queryVars == <<window, devices>>

-----------------------------------------------------------------------------
CeilDiv(a, b) == (a + b - 1) \div b

EstimatePoints(w, d, b) == CeilDiv(w, b) * d

(* bucket_seconds >= window * devices / target, without the division.      *)
TargetCandidates(w, d) == {b \in AllowedBuckets : b * TargetPoints >= w * d}

Resolution(b, w, d, met) ==
  [bucket |-> b, points |-> EstimatePoints(w, d, b), target_met |-> met]
NoResolution == [bucket |-> 0, points |-> 0, target_met |-> FALSE]

\* Mutant: the first candidate is taken without an estimate of its points.
FirstCandidate(w, d) ==
  LET ok == {b \in AllowedBuckets : EstimatePoints(w, d, b) <= MaxPoints} IN
  IF d = 0 THEN Resolution(Min(AllowedBuckets), w, 0, TRUE)
  ELSE IF TargetCandidates(w, d) # {} THEN Resolution(Min(TargetCandidates(w, d)), w, d, TRUE)
  ELSE IF ok # {} THEN Resolution(Min(ok), w, d, FALSE) ELSE NoResolution

CalculateBucketResolution(w, d) ==
  LET met == {b \in TargetCandidates(w, d) : EstimatePoints(w, d, b) <= TargetPoints}
      ok == {b \in AllowedBuckets : EstimatePoints(w, d, b) <= MaxPoints} IN
  IF d = 0 THEN Resolution(Min(AllowedBuckets), w, 0, TRUE)
  ELSE IF met # {} THEN Resolution(Min(met), w, d, TRUE)
  ELSE IF ok # {} THEN Resolution(Min(ok), w, d, FALSE)
  ELSE NoResolution      \* BucketResolutionLimitError

Answer == CalculateBucketResolution(window, devices)

-----------------------------------------------------------------------------
QueryInit == window = Min(Windows) /\ devices = Min(Devices)

WidenWindow ==
  \E w \in Windows : w > window /\ window' = w /\ UNCHANGED devices

AddDevices ==
  \E d \in Devices : d > devices /\ devices' = d /\ UNCHANGED window

QueryNext == WidenWindow \/ AddDevices

QuerySpec == QueryInit /\ [][QueryNext]_queryVars

-----------------------------------------------------------------------------
QueryTypeOK == window \in Windows /\ devices \in Devices

(* The answer is the smallest bucket whose points meet the target, and, if *)
(* none does, the smallest within the limit; an error means that none is   *)
(* within the limit (temporal_sampling.py:69, "Choose the smallest         *)
(* supported bucket that satisfies target or max size").                   *)
SmallestThatFits ==
  LET Fits(limit) == {b \in AllowedBuckets : CeilDiv(window, b) * devices <= limit}
      best == IF Fits(TargetPoints) # {} THEN Fits(TargetPoints) ELSE Fits(MaxPoints) IN
  IF best = {} THEN Answer = NoResolution
  ELSE /\ Answer.bucket \in best /\ \A b \in best : Answer.bucket <= b
       /\ Answer.target_met <=> Fits(TargetPoints) # {}
       /\ Answer.points = CeilDiv(window, Answer.bucket) * devices
=============================================================================
