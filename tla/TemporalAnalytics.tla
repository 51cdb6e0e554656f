--------------------------- MODULE TemporalAnalytics ---------------------------
(***************************************************************************)
(* Observed time of a device: its observations are told apart into         *)
(* stretches of continuous reporting and silences, by the cadence before   *)
(* and after each interval; the time observed is then spread over buckets  *)
(* aligned to UTC.  Observations arrive one by one, and a chart may be     *)
(* drawn after any of them.                                                *)
(*                                                                         *)
(* Time stamps are integers.  A median of an even number of integers may be*)
(* a half, so medians are doubled and their bounds with them.              *)
(***************************************************************************)
EXTENDS Integers, Sequences, FiniteSets, FiniteSetsExt

CONSTANTS
  CadenceWindow, MinSamples, GapFactor, Jitter,
  VariabilityInverse,   \* 1 / max_cadence_variability
  FirstAt,              \* the first observation
  Steps,                \* bound: intervals between observations
  MaxObservations,      \* bound: observations
  Queries               \* bound: [from, to, bucket], the charts drawn

(* _validate_configuration, _validate_window and _validate_bucket_seconds. *)
ValidConfiguration ==
  /\ CadenceWindow \in Nat /\ MinSamples \in 1 .. CadenceWindow
  /\ GapFactor \in Nat \ {0} /\ Jitter \in Nat /\ VariabilityInverse \in Nat \ {0}
  /\ \A q \in Queries : q.from < q.to /\ q.bucket \in Nat \ {0}

ASSUME ObservationConstants ==
  /\ ValidConfiguration /\ \A q \in Queries : q.from \in Int /\ q.to \in Int
  /\ FirstAt \in Int /\ Steps \subseteq Nat /\ MaxObservations \in Nat

VARIABLES
  observed,   \* the time stamps, in order
  query
observationVars == <<observed, query>>

-----------------------------------------------------------------------------
(* Continuity.                                                             *)

Deltas(s) == [i \in 1 .. Len(s) - 1 |-> s[i + 1] - s[i]]

(* deltas[from:to], cut off at the ends of the series.                     *)
Slice(d, from, to) == [i \in DOMAIN d \cap (from .. to) |-> d[i]]

(* The value at place k when the values of f are sorted.                   *)
Ranked(f, k) ==
  Min({v \in {f[i] : i \in DOMAIN f} : Cardinality({i \in DOMAIN f : f[i] <= v}) >= k})

(* statistics.median, doubled.                                             *)
Median2(f) ==
  LET n == Cardinality(DOMAIN f) IN Ranked(f, (n + 1) \div 2) + Ranked(f, n \div 2 + 1)

Abs(n) == IF n < 0 THEN - n ELSE n
NoCadence == [expected |-> 0, threshold |-> 0]
Known(e) == e.expected > 0

(* The bound is on the deviation relative to the median.                   *)
EstimateCadence(deltas) ==
  LET positive == {i \in DOMAIN deltas : deltas[i] > 0}
      valid == [i \in positive |-> deltas[i]] IN
  IF Cardinality(positive) < MinSamples THEN NoCadence
  ELSE LET m == Median2(valid)
           deviation == Median2([i \in positive |-> Abs(2 * valid[i] - m)]) IN
       IF deviation * VariabilityInverse > 2 * m THEN NoCadence
       ELSE [expected |-> m, threshold |-> Max({m * GapFactor, m + 2 * Jitter})]

Left(d, i) == EstimateCadence(Slice(d, i - CadenceWindow, i - 1))

\* Mutant: everything that follows is evidence.
RightOpen(d, i) == EstimateCadence(Slice(d, i + 1, Len(d)))

Right(d, i) == EstimateCadence(Slice(d, i + 1, i + CadenceWindow))

Supports(e, delta) == Known(e) /\ 2 * delta <= e.threshold

Source(left, right) ==
  CASE left /\ right -> "both" [] left /\ ~ right -> "left"
    [] ~ left /\ right -> "right" [] OTHER -> "none"

Assess(s, i) ==
  LET d == Deltas(s)
      left == Left(d, i)   right == Right(d, i)
      l == Supports(left, d[i])   r == Supports(right, d[i]) IN
  IF d[i] <= 0 THEN [status |-> "indeterminate", source |-> "none"]
  ELSE [status |-> CASE l \/ r -> "continuous"
                     [] ~ (l \/ r) /\ Known(left) /\ Known(right) -> "gap"
                     [] OTHER -> "indeterminate",
        source |-> IF l \/ r THEN Source(l, r) ELSE Source(Known(left), Known(right))]

Continuity(s) == [i \in 1 .. Len(s) - 1 |-> Assess(s, i)]

-----------------------------------------------------------------------------
(* Observed time and its buckets.                                          *)

Spans(s) ==
  LET a == Continuity(s) IN
  {i \in DOMAIN a : a[i].status = "continuous" /\ s[i] < s[i + 1]}

Seconds(s, status) ==
  LET a == Continuity(s) IN
  SumFunction([i \in {i \in DOMAIN a : a[i].status = status} |-> s[i + 1] - s[i]])

\* Mutant: rounded towards zero, before the epoch too.
TruncatedStart(t, size) == IF t >= 0 THEN (t \div size) * size ELSE - ((- t) \div size) * size

FloorBucketStart(t, size) == (t \div size) * size

Clipped(s, i, q) == [from |-> Max({s[i], q.from}), to |-> Min({s[i + 1], q.to})]

(* The while loop: a span is cut at the boundaries of the buckets.         *)
Segments(span, size) ==
  LET Cut[from \in span.from .. Max({span.from, span.to})] ==
        IF from >= span.to THEN {}
        ELSE LET b == FloorBucketStart(from, size)  e == Min({b + size, span.to}) IN
             {[bucket |-> b, from |-> from, to |-> e]} \cup Cut[e]
  IN IF span.from >= span.to THEN {} ELSE Cut[span.from]

Buckets(s, q) ==
  LET segs == UNION {Segments(Clipped(s, i, q), q.bucket) : i \in Spans(s)} IN
  [b \in {g.bucket : g \in segs} |->
     [seconds |-> SumFunction([g \in {g \in segs : g.bucket = b} |-> g.to - g.from]),
      spans |-> Cardinality({g \in segs : g.bucket = b})]]

-----------------------------------------------------------------------------
ObservationInit ==
  /\ observed = <<FirstAt>>
  /\ query \in Queries

(* _validate_timestamps: in non-decreasing order.                          *)
Observe ==
  /\ Len(observed) < MaxObservations
  /\ \E d \in Steps : observed' = Append(observed, observed[Len(observed)] + d)
  /\ UNCHANGED query

ObservationNext == Observe

ObservationSpec == ObservationInit /\ [][ObservationNext]_observationVars

-----------------------------------------------------------------------------
ObservationTypeOK ==
  /\ observed \in Seq(Int) /\ Len(observed) <= MaxObservations
  /\ query \in Queries

(* Time read backwards gives the same verdicts, left and right exchanged:  *)
(* the evidence before an interval weighs what the evidence after it weighs*)
(* (temporal_continuity.py:92).                                            *)
MirrorImage ==
  LET n == Len(observed) - 1
      backwards == [i \in DOMAIN observed |-> - observed[Len(observed) + 1 - i]]
      Exchanged(src) == CASE src = "left" -> "right" [] src = "right" -> "left" [] OTHER -> src IN
  \A i \in 1 .. n :
    LET a == Assess(observed, i)  b == Assess(backwards, n + 1 - i) IN
    b.status = a.status /\ b.source = Exchanged(a.source)

(* The verdict on an interval is final when a window of intervals follows  *)
(* it, and until then a new observation never turns a verdict of "gap" or  *)
(* "continuous" that needed the left side only (temporal_continuity.py:100)*)
OldVerdictsStay ==
  [][\A i \in 1 .. Len(observed) - 1 :
       LET a == Assess(observed, i)  b == Assess(observed', i) IN
       /\ i + CadenceWindow <= Len(observed) - 1 => b = a
       /\ a.status = "continuous" /\ a.source \in {"left", "both"} => b.status = "continuous"]_observationVars

(* The seconds of a bucket are those of its part of the window that lie in *)
(* a continuous interval, counted second by second; buckets are multiples  *)
(* of their size from the epoch, also before it, and none is empty or      *)
(* overfull.  Every second of the observations is of one kind              *)
(* (temporal_bucketing.py:62, observed_time.py:57).                        *)
BucketsCountSeconds ==
  LET a == Continuity(observed)
      Covered(t) == \E i \in DOMAIN a : /\ a[i].status = "continuous"
                                        /\ observed[i] <= t /\ t < observed[i + 1]
      seconds == {t \in query.from .. query.to - 1 : Covered(t)}
      buckets == Buckets(observed, query) IN
  /\ \A b \in DOMAIN buckets :
       /\ b % query.bucket = 0 /\ buckets[b].seconds > 0
       /\ buckets[b].seconds = Cardinality(seconds \cap (b .. b + query.bucket - 1))
  /\ Cardinality(seconds) = SumFunction([b \in DOMAIN buckets |-> buckets[b].seconds])
  /\ Seconds(observed, "continuous") + Seconds(observed, "gap")
       + Seconds(observed, "indeterminate") = observed[Len(observed)] - observed[1]
=============================================================================
