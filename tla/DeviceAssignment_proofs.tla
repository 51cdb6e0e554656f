------------------------ MODULE DeviceAssignment_proofs ------------------------
(***************************************************************************)
(* Proofs about DeviceAssignment, for every set of devices, assets and     *)
(* requests and any number of requests and instants.  The inductive        *)
(* invariant says what a request knows of its locked row (RequestOK), that *)
(* locks and uncommitted index entries exclude each other (LocksOK,        *)
(* CreatesOK, IndexOK), and what the committed tables satisfy (TablesOK).  *)
(***************************************************************************)
EXTENDS DeviceAssignment, TLAPS

Working(r) == step[r] \in {"check", "wait", "write", "commit"}

\* The rows of device d ended, if they did, at t or before.
EndedBy(d, t) ==
  \A i \in DOMAIN history :
    history[i].device = d =>
      history[i].since <= t /\ (history[i].until = Open \/ history[i].until <= t)

RequestOK(r) ==
  /\ step[r] = "idle" <=> dev[r] = NoDevice
  /\ step[r] = "idle" => was[r] = NoAsset
  /\ Working(r) => was[r] = carries[dev[r]]
  /\ step[r] # "idle" /\ kind[r] # "create" => dev[r] \in exists
  /\ step[r] # "idle" /\ kind[r] = "create" => Working(r) /\ dev[r] \notin exists
  /\ step[r] # "idle" /\ kind[r] = "assign" => want[r] # NoAsset
  /\ step[r] \in {"write", "commit"} => stamp[r] <= clock /\ EndedBy(dev[r], stamp[r])
  /\ step[r] = "commit" => want[r] = NoAsset \/ Holders(r) = {}

RequestsOK == \A r \in Request : RequestOK(r)

LocksOK ==
  \A r, u \in Request : r # u /\ Working(r) /\ Working(u) => dev[r] # dev[u]

CreatesOK ==
  \A r, u \in Request :
    r # u /\ step[r] # "idle" /\ kind[r] = "create" => dev[u] # dev[r]

IndexOK ==
  \A r, u \in Request :
    r # u /\ step[r] = "commit" /\ step[u] = "commit" /\ want[r] # NoAsset
      => want[u] # want[r]

OneToOne ==
  \A d, e \in Device : d # e /\ carries[d] # NoAsset => carries[e] # carries[d]

OnlyRows == \A d \in Device : carries[d] # NoAsset => d \in exists

Past == \A d \in Device : EndedBy(d, clock)

TablesOK ==
  OneToOne /\ OnlyRows /\ Past /\ ActiveCarries /\ CurrentMatchesHistory /\ OnePlaceAtATime

IInv == TypeOK /\ RequestsOK /\ LocksOK /\ CreatesOK /\ IndexOK /\ TablesOK

-----------------------------------------------------------------------------
(* Facts used throughout.                                                  *)

LEMMA TimeFacts == Time \subseteq Nat /\ Open \in Nat /\ Open \notin Time
                   /\ \A t \in Time : t < Open
  BY ConstantsOK DEF Time, Open

LEMMA RowFacts ==
  ASSUME TypeOK, NEW i \in DOMAIN history
  PROVE  /\ i \in 1 .. Len(history)
         /\ history[i].device \in Device /\ history[i].asset \in Asset
         /\ history[i].since \in Time /\ history[i].until \in Time \cup {Open}
<1>1. history \in Seq(Rows) BY DEF TypeOK
<1>2. i \in 1 .. Len(history) /\ history[i] \in Rows BY <1>1
<1> QED BY <1>2 DEF Rows

LEMMA InitIInv == Init => IInv
<1> SUFFICES ASSUME Init PROVE IInv OBVIOUS
<1>1. DOMAIN history = {} BY DEF Init
<1>2. TypeOK BY ConstantsOK DEF Init, TypeOK, Time, Kind
<1>3. RequestsOK BY DEF Init, RequestsOK, RequestOK, Working
<1>4. LocksOK /\ CreatesOK /\ IndexOK BY DEF Init, LocksOK, CreatesOK, IndexOK, Working
<1>5. OneToOne /\ OnlyRows /\ ActiveCarries BY DEF Init, OneToOne, OnlyRows, ActiveCarries
<1>6. Past /\ OnePlaceAtATime BY <1>1 DEF Past, EndedBy, OnePlaceAtATime
<1>7. CurrentMatchesHistory BY <1>1 DEF Init, CurrentMatchesHistory
<1> QED BY <1>2, <1>3, <1>4, <1>5, <1>6, <1>7 DEF IInv, TablesOK

\* Steps that leave the tables and the clock alone keep what is said of them.
LEMMA SameTables ==
  ASSUME TablesOK, UNCHANGED <<database, clock>>
  PROVE  TablesOK'
<1>1. exists' = exists /\ carries' = carries /\ active' = active /\ history' = history
      /\ clock' = clock
  BY DEF database
<1> QED BY <1>1 DEF TablesOK, OneToOne, OnlyRows, Past, EndedBy, ActiveCarries,
                    CurrentMatchesHistory, OnePlaceAtATime, IsOpen

-----------------------------------------------------------------------------
(* The steps.                                                              *)

LEMMA TickStep == IInv /\ Tick => IInv'
<1> SUFFICES ASSUME IInv, Tick PROVE IInv' OBVIOUS
<1> USE DEF IInv
<1>1. /\ clock' = clock + 1 /\ clock' \in Time /\ clock \in Nat
      /\ exists' = exists /\ carries' = carries /\ active' = active
      /\ history' = history /\ step' = step /\ kind' = kind /\ dev' = dev
      /\ want' = want /\ was' = was /\ stamp' = stamp
  BY ConstantsOK DEF Tick, TypeOK, Time, database, request, reads
<1>2. TypeOK' BY <1>1 DEF Tick, TypeOK, reads
<1>3. ASSUME NEW d \in Device PROVE EndedBy(d, clock + 1)
  <2> SUFFICES ASSUME NEW i \in DOMAIN history, history[i].device = d
      PROVE /\ history[i].since <= clock + 1
            /\ history[i].until = Open \/ history[i].until <= clock + 1
    BY DEF EndedBy
  <2>1. /\ history[i].since <= clock
        /\ history[i].until = Open \/ history[i].until <= clock
    BY DEF TablesOK, Past, EndedBy
  <2>2. history[i].since \in Nat /\ history[i].until \in Nat BY RowFacts, TimeFacts
  <2> QED BY <2>1, <2>2, <1>1
<1>4. Past' BY <1>1, <1>3 DEF Past, EndedBy
<1>5. ASSUME NEW r \in Request PROVE RequestOK(r)'
  <2>3. stamp[r] \in Nat BY TimeFacts DEF TypeOK
  <2>1. stamp[r] <= clock => stamp[r] <= clock + 1 BY <1>1, <2>3
  <2>2. RequestOK(r) BY DEF RequestsOK
  <2> QED BY <2>1, <2>2, <1>1 DEF RequestOK, Working, EndedBy, Holders
<1>6. LocksOK' /\ CreatesOK' /\ IndexOK'
  BY <1>1 DEF LocksOK, CreatesOK, IndexOK, Working
<1>7. OneToOne' /\ OnlyRows' /\ ActiveCarries' /\ CurrentMatchesHistory' /\ OnePlaceAtATime'
  BY <1>1 DEF TablesOK, OneToOne, OnlyRows, ActiveCarries, CurrentMatchesHistory,
              OnePlaceAtATime, IsOpen
<1> QED BY <1>2, <1>4, <1>5, <1>6, <1>7 DEF RequestsOK, TablesOK

\* What only request r's columns decide, for a step of r that leaves the tables
\* alone: the other requests are as they were.
OthersSame(r) ==
  \A u \in Request \ {r} :
    /\ step'[u] = step[u] /\ kind'[u] = kind[u] /\ dev'[u] = dev[u]
    /\ want'[u] = want[u] /\ was'[u] = was[u] /\ stamp'[u] = stamp[u]

LEMMA OtherRequests ==
  ASSUME IInv, NEW r \in Request, OthersSame(r), UNCHANGED <<database, clock>>
  PROVE  \A u \in Request \ {r} : RequestOK(u)' /\ (Working(u)' <=> Working(u))
<1> SUFFICES ASSUME NEW u \in Request \ {r}
    PROVE RequestOK(u)' /\ (Working(u)' <=> Working(u))
  OBVIOUS
<1>1. exists' = exists /\ carries' = carries /\ history' = history /\ clock' = clock
  BY DEF database
<1>2. RequestOK(u) BY DEF IInv, RequestsOK
<1> QED BY <1>1, <1>2 DEF OthersSame, RequestOK, Working, EndedBy, Holders

\* A step of request r in its transaction: r keeps what it is about.
Proceeds(r) ==
  /\ step[r] # "idle" /\ step'[r] # "idle"
  /\ OthersSame(r)
  /\ kind'[r] = kind[r] /\ dev'[r] = dev[r] /\ want'[r] = want[r]
  /\ UNCHANGED <<database, clock>>

LEMMA ProceedStep ==
  ASSUME IInv, NEW r \in Request, Proceeds(r), TypeOK',
         Working(r)' => was'[r] = carries[dev[r]],
         kind[r] = "create" => Working(r)',
         step'[r] \in {"write", "commit"} =>
           stamp'[r] <= clock /\ EndedBy(dev[r], stamp'[r]),
         step'[r] = "commit" => want[r] = NoAsset \/ Holders(r) = {},
         Working(r)' /\ ~Working(r) => \A u \in Request \ {r} : ~Holds(u, dev[r]),
         step'[r] = "commit" /\ step[r] # "commit" /\ want[r] # NoAsset =>
           \A u \in Request \ {r} : step[u] = "commit" => want[u] # want[r]
  PROVE  IInv'
<1> USE DEF IInv
<1>1. /\ exists' = exists /\ carries' = carries /\ history' = history /\ clock' = clock
      /\ step[r] # "idle" /\ step'[r] # "idle"
      /\ kind'[r] = kind[r] /\ dev'[r] = dev[r] /\ want'[r] = want[r]
  BY DEF Proceeds, database
<1>2. RequestOK(r)
  BY DEF RequestsOK
<1>3. RequestOK(r)'
  <2>1. EndedBy(dev[r], stamp'[r]) => EndedBy(dev[r], stamp[r])'
    BY <1>1 DEF EndedBy
  <2>2. Holders(r)' = Holders(r) BY <1>1 DEF Holders
  <2> QED BY <1>1, <1>2, <2>1, <2>2 DEF RequestOK
<1>4. \A u \in Request \ {r} : RequestOK(u)' /\ (Working(u)' <=> Working(u))
  BY OtherRequests DEF Proceeds
<1>5. RequestsOK' BY <1>3, <1>4 DEF RequestsOK
<1>6. LocksOK'
  <2>1. ASSUME NEW u \in Request \ {r}, Working(r)', Working(u)' PROVE dev[r] # dev[u]
    <3>1. Working(u) BY <1>4, <2>1
    <3>2. CASE Working(r) BY <3>1, <3>2 DEF LocksOK
    <3>3. CASE ~Working(r)
      <4>1. ~Holds(u, dev[r]) BY <2>1, <3>3
      <4> QED BY <3>1, <4>1 DEF Holds, Working
    <3> QED BY <3>2, <3>3
  <2>2. \A u \in Request : dev'[u] = dev[u] BY <1>1 DEF Proceeds, OthersSame
  <2> QED BY <2>1, <2>2, <1>4 DEF LocksOK
<1>7. CreatesOK'
  BY <1>1 DEF CreatesOK, Proceeds, OthersSame
<1>8. IndexOK'
  <2> SUFFICES ASSUME NEW p \in Request, NEW u \in Request, p # u,
                      step'[p] = "commit", step'[u] = "commit", want'[p] # NoAsset
      PROVE want'[u] # want'[p]
    BY DEF IndexOK
  <2>1. want'[p] = want[p] /\ want'[u] = want[u] BY <1>1 DEF Proceeds, OthersSame
  <2>2. CASE p = r
    <3>1. step[u] = "commit" BY <2>2 DEF Proceeds, OthersSame
    <3> QED BY <2>1, <2>2, <3>1 DEF IndexOK
  <2>3. CASE u = r
    <3>1. step[p] = "commit" BY <2>3 DEF Proceeds, OthersSame
    <3> QED BY <2>1, <2>3, <3>1 DEF IndexOK
  <2>4. CASE p # r /\ u # r
    <3>1. step[p] = "commit" /\ step[u] = "commit" BY <2>4 DEF Proceeds, OthersSame
    <3> QED BY <2>1, <3>1 DEF IndexOK
  <2> QED BY <2>2, <2>3, <2>4
<1>9. TablesOK' BY SameTables DEF Proceeds
<1> QED BY <1>5, <1>6, <1>7, <1>8, <1>9

LEMMA AskStep ==
  ASSUME IInv, NEW r \in Request, NEW k \in Kind, NEW d \in Device,
         NEW a \in Asset \cup {NoAsset}, Ask(r, k, d, a)
  PROVE  IInv'
<1> USE DEF IInv
<1>1. /\ step[r] = "idle" /\ dev'[r] = d /\ kind'[r] = k /\ want'[r] = a
      /\ step'[r] = (CASE k = "create" -> "check" [] k = "deactivate" -> "read" [] OTHER -> "lock")
      /\ was' = was /\ stamp' = stamp /\ UNCHANGED <<database, clock>>
  BY DEF Ask, TypeOK, reads
<1>2. step'[r] \in {"check", "read", "lock"} /\ (step'[r] = "check" <=> k = "create")
  BY <1>1
<1>3. /\ k = "create" => d \notin exists /\ a # NoAsset /\ \A u \in Request : dev[u] # d
      /\ k # "create" => d \in exists
      /\ k = "assign" => a # NoAsset
  BY DEF Ask, Kind
<1>4. OthersSame(r) BY <1>1 DEF Ask, OthersSame, TypeOK
<1>5. TypeOK'
  <2>1. step' \in [Request -> {"idle", "lock", "check", "wait", "write", "commit", "read", "switch"}]
    BY <1>2 DEF Ask, TypeOK
  <2>2. made' \in Nat BY DEF Ask, TypeOK
  <2>3. /\ kind' \in [Request -> Kind]
        /\ dev' \in [Request -> Device \cup {NoDevice}]
        /\ want' \in [Request -> Asset \cup {NoAsset}]
    BY DEF Ask, TypeOK
  <2> QED BY <2>1, <2>2, <2>3 DEF Ask, TypeOK, database, reads
<1>6. exists' = exists /\ carries' = carries /\ history' = history /\ clock' = clock
  BY <1>1 DEF database
<1>7. \A u \in Request \ {r} : RequestOK(u)' /\ (Working(u)' <=> Working(u))
  BY <1>1, <1>4, OtherRequests
<1>8. k = "create" => was[r] = carries[d]
  <2>1. was[r] = NoAsset BY <1>1 DEF RequestsOK, RequestOK
  <2>2. d \notin exists => carries[d] = NoAsset BY DEF TablesOK, OnlyRows
  <2> QED BY <2>1, <2>2, <1>3
<1>9. RequestOK(r)'
  BY <1>1, <1>2, <1>3, <1>6, <1>8, ConstantsOK DEF RequestOK, Working
<1>10. RequestsOK' BY <1>7, <1>9 DEF RequestsOK
<1>11. ASSUME NEW u \in Request \ {r}, Working(u), k = "create" PROVE dev[u] # d
  BY <1>3, <1>11
<1>12. LocksOK'
  <2>1. Working(r)' => k = "create" BY <1>2 DEF Working
  <2>2. \A u \in Request \ {r} : dev'[u] = dev[u] BY <1>4 DEF OthersSame
  <2> QED BY <1>1, <1>7, <1>11, <2>1, <2>2 DEF LocksOK
<1>13. CreatesOK'
  <2> SUFFICES ASSUME NEW p \in Request, NEW u \in Request, p # u,
                      step'[p] # "idle", kind'[p] = "create"
      PROVE dev'[u] # dev'[p]
    BY DEF CreatesOK
  <2>1. CASE p = r
    <3>1. dev'[u] = dev[u] BY <2>1, <1>4 DEF OthersSame
    <3> QED BY <2>1, <3>1, <1>1, <1>3
  <2>2. CASE p # r
    <3>1. step[p] # "idle" /\ kind[p] = "create" /\ dev'[p] = dev[p]
      BY <2>2, <1>4 DEF OthersSame
    <3>2. dev[p] \notin exists BY <3>1 DEF RequestsOK, RequestOK
    <3>3. CASE u = r BY <3>1, <3>2, <3>3, <1>1, <1>3
    <3>4. CASE u # r BY <3>1, <3>4, <1>4 DEF OthersSame, CreatesOK
    <3> QED BY <3>3, <3>4
  <2> QED BY <2>1, <2>2
<1>14. IndexOK' BY <1>2, <1>4 DEF IndexOK, OthersSame
<1>15. TablesOK' BY <1>1, SameTables
<1> QED BY <1>5, <1>10, <1>12, <1>13, <1>14, <1>15

\* The lock of a free row: nobody else works on the device.
LEMMA LockStep ==
  ASSUME IInv, NEW r \in Request, LockDevice(r)
  PROVE  IInv'
<1> USE DEF IInv
<1>1. /\ step[r] = "lock" /\ step'[r] = "check" /\ was'[r] = carries[dev[r]]
      /\ UNCHANGED <<database, clock, request>>
  BY DEF LockDevice, TypeOK
<1>2. kind[r] # "create" BY <1>1 DEF RequestsOK, RequestOK, Working
<1>3. dev[r] \in Device
  BY <1>1 DEF RequestsOK, RequestOK, TypeOK
<1>4. TypeOK'
  <2>1. was' \in [Request -> Asset \cup {NoAsset}] BY <1>3 DEF LockDevice, TypeOK
  <2>2. wasActive' \in [Request -> BOOLEAN] BY <1>3 DEF LockDevice, TypeOK
  <2>3. step' \in [Request -> {"idle", "lock", "check", "wait", "write", "commit", "read", "switch"}]
    BY DEF LockDevice, TypeOK
  <2> QED BY <2>1, <2>2, <2>3 DEF LockDevice, TypeOK, database, request
<1>5. Proceeds(r) BY <1>1 DEF Proceeds, LockDevice, OthersSame, TypeOK, request
<1>6. \A u \in Request \ {r} : ~Holds(u, dev[r]) BY DEF LockDevice, Busy
<1> QED BY <1>1, <1>2, <1>4, <1>5, <1>6, ProceedStep

\* Waiting for a rival's row and reading without a lock decide nothing.
LEMMA QueueStep ==
  ASSUME IInv, NEW r \in Request,
         (\E d \in Device : MeetRival(r, d)) \/ ReadActive(r)
  PROVE  IInv'
<1> USE DEF IInv
<1>1. /\ \/ step[r] = "check" /\ step'[r] = "wait"
         \/ step[r] = "read" /\ step'[r] = "switch"
      /\ was' = was /\ stamp' = stamp
      /\ UNCHANGED <<database, clock, request>>
  BY DEF MeetRival, ReadActive, TypeOK
<1>2. RequestOK(r) BY DEF RequestsOK
<1>3. dev[r] \in Device BY <1>1, <1>2 DEF RequestOK, TypeOK
<1>4. TypeOK'
  <2>1. CASE \E d \in Device : MeetRival(r, d)
    BY <2>1 DEF MeetRival, TypeOK, database, request
  <2>2. CASE ReadActive(r)
    <3>1. wasActive' \in [Request -> BOOLEAN] BY <2>2, <1>3 DEF ReadActive, TypeOK
    <3>2. step' \in [Request -> {"idle", "lock", "check", "wait", "write", "commit", "read", "switch"}]
      BY <2>2 DEF ReadActive, TypeOK
    <3> QED BY <3>1, <3>2, <2>2 DEF ReadActive, TypeOK, database, request
  <2> QED BY <2>1, <2>2
<1>5. Proceeds(r)
  <2>1. OthersSame(r) BY <1>1 DEF MeetRival, ReadActive, OthersSame, TypeOK, request
  <2> QED BY <2>1, <1>1 DEF Proceeds, request
<1>6. Working(r)' <=> Working(r) BY <1>1 DEF Working
<1> QED BY <1>1, <1>2, <1>4, <1>5, <1>6, ProceedStep DEF RequestOK

\* assignment_time is not before anything committed.
LEMMA StampStep ==
  ASSUME IInv, NEW r \in Request, CheckAvailable(r) \/ RivalLeft(r)
  PROVE  IInv'
<1> USE DEF IInv
<1>1. /\ step[r] \in {"check", "wait"} /\ step'[r] = "write" /\ stamp'[r] = clock
      /\ was' = was /\ UNCHANGED <<database, clock, request>>
  BY DEF CheckAvailable, RivalLeft, Stamped, TypeOK
<1>2. RequestOK(r) BY DEF RequestsOK
<1>3. dev[r] \in Device BY <1>1, <1>2 DEF RequestOK, TypeOK
<1>4. TypeOK'
  BY DEF CheckAvailable, RivalLeft, Stamped, TypeOK, database, request
<1>5. Proceeds(r)
  <2>1. OthersSame(r)
    BY <1>1 DEF CheckAvailable, RivalLeft, Stamped, OthersSame, TypeOK, request
  <2> QED BY <2>1, <1>1 DEF Proceeds, request
<1>6. Working(r)' /\ Working(r) BY <1>1 DEF Working
<1>7. clock <= clock /\ EndedBy(dev[r], clock)
  BY <1>3, TimeFacts DEF TablesOK, Past, TypeOK
<1> QED BY <1>1, <1>2, <1>4, <1>5, <1>6, <1>7, ProceedStep DEF RequestOK

\* The index admits one uncommitted entry per asset.
LEMMA WriteStep ==
  ASSUME IInv, NEW r \in Request, WriteDevice(r)
  PROVE  IInv'
<1> USE DEF IInv
<1>1. /\ step[r] = "write" /\ step'[r] = "commit"
      /\ was' = was /\ stamp' = stamp /\ UNCHANGED <<database, clock, request>>
  BY DEF WriteDevice, TypeOK, reads
<1>2. RequestOK(r) BY DEF RequestsOK
<1>3. TypeOK' BY DEF WriteDevice, TypeOK, database, request, reads
<1>4. Proceeds(r)
  <2>1. OthersSame(r) BY <1>1 DEF WriteDevice, OthersSame, TypeOK, request
  <2> QED BY <2>1, <1>1 DEF Proceeds, request
<1>5. Working(r)' /\ Working(r) BY <1>1 DEF Working
<1>6. want[r] = NoAsset \/ Holders(r) = {} BY DEF WriteDevice, IndexAdmits
<1>7. want[r] # NoAsset =>
        \A u \in Request \ {r} : step[u] = "commit" => want[u] # want[r]
  BY DEF WriteDevice, IndexUsers
<1> QED BY <1>1, <1>2, <1>3, <1>4, <1>5, <1>6, <1>7, ProceedStep DEF RequestOK

\* The end of request r without a change of its device's asset.
LEMMA EndStep ==
  ASSUME IInv, NEW r \in Request, End(r),
         exists' = exists, carries' = carries, history' = history,
         active' \in [Device -> BOOLEAN], ActiveCarries'
  PROVE  IInv'
<1> USE DEF IInv
<1>1. /\ step'[r] = "idle" /\ dev'[r] = NoDevice /\ was'[r] = NoAsset
      /\ clock' = clock
  BY DEF End, TypeOK
<1>2. OthersSame(r) BY DEF End, OthersSame, TypeOK
<1>3. TypeOK' BY ConstantsOK DEF End, TypeOK, Kind, Time
<1>4. \A u \in Request \ {r} : RequestOK(u)' /\ (Working(u)' <=> Working(u))
  <2> SUFFICES ASSUME NEW u \in Request \ {r}
      PROVE RequestOK(u)' /\ (Working(u)' <=> Working(u))
    OBVIOUS
  <2>1. RequestOK(u) BY DEF RequestsOK
  <2> QED BY <2>1, <1>1, <1>2 DEF OthersSame, RequestOK, Working, EndedBy, Holders
<1>5. RequestOK(r)' BY <1>1 DEF RequestOK, Working
<1>6. RequestsOK' BY <1>4, <1>5 DEF RequestsOK
<1>7. LocksOK' BY <1>1, <1>2, <1>4 DEF LocksOK, OthersSame, Working
<1>8. CreatesOK'
  <2> SUFFICES ASSUME NEW p \in Request, NEW u \in Request, p # u,
                      step'[p] # "idle", kind'[p] = "create"
      PROVE dev'[u] # dev'[p]
    BY DEF CreatesOK
  <2>1. p # r /\ step[p] # "idle" /\ kind[p] = "create" /\ dev'[p] = dev[p]
    BY <1>1, <1>2 DEF OthersSame
  <2>2. dev[p] # NoDevice BY <2>1 DEF RequestsOK, RequestOK
  <2>3. CASE u = r BY <2>1, <2>2, <2>3, <1>1
  <2>4. CASE u # r BY <2>1, <2>4, <1>2 DEF OthersSame, CreatesOK
  <2> QED BY <2>3, <2>4
<1>9. IndexOK' BY <1>1, <1>2 DEF IndexOK, OthersSame
<1>10. TablesOK'
  BY <1>1 DEF TablesOK, OneToOne, OnlyRows, Past, EndedBy, CurrentMatchesHistory,
              OnePlaceAtATime, IsOpen
<1> QED BY <1>3, <1>6, <1>7, <1>8, <1>9, <1>10

-----------------------------------------------------------------------------
(* The commit of a move.                                                   *)

\* What history becomes: the device's open rows are closed at the stamp and, if
\* an asset is wanted, a row is opened.
Closes(d, t) ==
  /\ DOMAIN history \subseteq DOMAIN history'
  /\ \A i \in DOMAIN history :
       /\ history'[i].device = history[i].device
       /\ history'[i].asset = history[i].asset
       /\ history'[i].since = history[i].since
       /\ history[i].device = d /\ history[i].until = Open => history'[i].until = t
       /\ history[i].device # d \/ history[i].until # Open
            => history'[i].until = history[i].until

Opens(d, a, t) ==
  /\ a = NoAsset => DOMAIN history' = DOMAIN history
  /\ a # NoAsset =>
       \E n \in Nat :
         /\ n \notin DOMAIN history /\ DOMAIN history' = DOMAIN history \cup {n}
         /\ \A i \in DOMAIN history : i < n
         /\ history'[n] = [device |-> d, asset |-> a, since |-> t, until |-> Open]

LEMMA CommitRows ==
  ASSUME IInv, NEW r \in Request, CommitMove(r)
  PROVE  /\ dev[r] \in Device /\ want[r] \in Asset \cup {NoAsset}
         /\ stamp[r] \in Time /\ stamp[r] <= clock /\ clock \in Time
         /\ was[r] = carries[dev[r]]
         /\ history' \in Seq(Rows)
         /\ Closes(dev[r], stamp[r]) /\ Opens(dev[r], want[r], stamp[r])
<1> DEFINE d == dev[r]
           t == stamp[r]
           C == CloseRow(history, d, was[r], t)
           new == [device |-> d, asset |-> want[r], since |-> t, until |-> Open]
<1> USE DEF IInv
<1>1. step[r] = "commit" /\ RequestOK(r) BY DEF CommitMove, RequestsOK
<1>2. /\ d \in Device /\ want[r] \in Asset \cup {NoAsset} /\ was[r] = carries[d]
      /\ t \in Time /\ t <= clock /\ clock \in Time
  BY <1>1 DEF RequestOK, Working, TypeOK
<1>3. \A i \in DOMAIN history :
        history[i].device = d /\ history[i].until = Open => history[i].asset = was[r]
  BY <1>2 DEF TablesOK, CurrentMatchesHistory, IsOpen
<1>4. history' = OpenRow(C, d, want[r], t) BY DEF CommitMove
<1>5. history \in Seq(Rows) /\ DOMAIN history = 1 .. Len(history) /\ Len(history) \in Nat
  BY DEF TypeOK
<1>6. /\ DOMAIN C = DOMAIN history
      /\ \A i \in DOMAIN history :
           C[i] = IF history[i].device = d /\ history[i].asset = was[r]
                       /\ history[i].until = Open
                  THEN [history[i] EXCEPT !.until = t] ELSE history[i]
  BY DEF CloseRow
<1>7. \A i \in DOMAIN history :
        /\ C[i] \in Rows
        /\ C[i].device = history[i].device
        /\ C[i].asset = history[i].asset
        /\ C[i].since = history[i].since
        /\ history[i].device = d /\ history[i].until = Open => C[i].until = t
        /\ history[i].device # d \/ history[i].until # Open => C[i].until = history[i].until
  <2> SUFFICES ASSUME NEW i \in DOMAIN history
      PROVE /\ C[i] \in Rows
            /\ C[i].device = history[i].device
            /\ C[i].asset = history[i].asset
            /\ C[i].since = history[i].since
            /\ history[i].device = d /\ history[i].until = Open => C[i].until = t
            /\ history[i].device # d \/ history[i].until # Open
                 => C[i].until = history[i].until
    OBVIOUS
  <2>1. history[i] \in Rows BY <1>5
  <2>2. CASE history[i].device = d /\ history[i].until = Open
    <3>1. C[i] = [history[i] EXCEPT !.until = t] BY <2>2, <1>3, <1>6
    <3> HIDE DEF C
    <3> QED BY <2>1, <2>2, <3>1, <1>2 DEF Rows
  <2>3. CASE ~(history[i].device = d /\ history[i].until = Open)
    <3>1. C[i] = history[i] BY <2>3, <1>6
    <3> HIDE DEF C
    <3> QED BY <2>1, <2>3, <3>1
  <2> QED BY <2>2, <2>3
<1> HIDE DEF C
<1>8. C \in Seq(Rows) /\ Len(C) = Len(history)
  <2>1. C = [i \in 1 .. Len(history) |-> C[i]] BY <1>5, <1>6 DEF C, CloseRow
  <2> QED BY <2>1, <1>5, <1>7
<1>9. CASE want[r] = NoAsset
  <2>1. history' = C BY <1>9, <1>4 DEF OpenRow
  <2> QED BY <1>9, <2>1, <1>2, <1>6, <1>7, <1>8 DEF Closes, Opens
<1>10. CASE want[r] # NoAsset
  <2>1. history' = Append(C, new) BY <1>10, <1>4 DEF OpenRow
  <2>2. new \in Rows BY <1>2, <1>10 DEF Rows
  <2> DEFINE n == Len(history) + 1
  <2> HIDE DEF new
  <2>3. /\ history' \in Seq(Rows) /\ DOMAIN history' = 1 .. n /\ history'[n] = new
        /\ \A i \in 1 .. Len(history) : history'[i] = C[i]
    BY <2>1, <2>2, <1>5, <1>8
  <2>4. Closes(d, t) BY <2>3, <1>5, <1>7 DEF Closes
  <2>5. Opens(d, want[r], t)
    <3>1. /\ n \in Nat /\ n \notin DOMAIN history /\ DOMAIN history' = DOMAIN history \cup {n}
          /\ \A i \in DOMAIN history : i < n
      BY <2>3, <1>5
    <3> QED BY <1>10, <2>3, <3>1 DEF Opens, new
  <2> QED BY <1>2, <2>3, <2>4, <2>5
<1> QED BY <1>9, <1>10


\* What the tables say of the device that moved and of the others.
LEMMA CommitTables ==
  ASSUME IInv, NEW r \in Request, CommitMove(r)
  PROVE  TablesOK'
<1> DEFINE d == dev[r]
           t == stamp[r]
<1> USE DEF IInv
<1>1. /\ d \in Device /\ want[r] \in Asset \cup {NoAsset}
      /\ t \in Time /\ t <= clock /\ clock \in Time /\ was[r] = carries[d]
      /\ Closes(d, t) /\ Opens(d, want[r], t)
  BY CommitRows
<1>2. /\ exists' = exists \cup {d} /\ clock' = clock
      /\ carries' = [carries EXCEPT ![d] = want[r]]
      /\ active' = [active EXCEPT ![d] = want[r] # NoAsset]
  BY DEF CommitMove, End
<1>3. /\ carries'[d] = want[r] /\ \A e \in Device \ {d} : carries'[e] = carries[e]
      /\ active'[d] = (want[r] # NoAsset) /\ \A e \in Device \ {d} : active'[e] = active[e]
  BY <1>1, <1>2 DEF TypeOK
<1>4. /\ step[r] = "commit" /\ (want[r] = NoAsset \/ Holders(r) = {}) /\ EndedBy(d, t)
  BY DEF CommitMove, RequestsOK, RequestOK
<1>5. PICK n \in Nat :
        /\ want[r] = NoAsset => DOMAIN history' = DOMAIN history
        /\ want[r] # NoAsset =>
             /\ n \notin DOMAIN history /\ DOMAIN history' = DOMAIN history \cup {n}
             /\ \A i \in DOMAIN history : i < n
             /\ history'[n] = [device |-> d, asset |-> want[r], since |-> t, until |-> Open]
  BY <1>1 DEF Opens
<1>6. Open \in Nat /\ t \in Nat /\ clock \in Nat /\ t # Open
  BY <1>1, TimeFacts
<1>7. \A i \in DOMAIN history :
        /\ i \in Nat /\ history[i].device \in Device /\ history[i].until \in Nat
        /\ history[i].since \in Nat /\ history[i].since < Open
  <2> SUFFICES ASSUME NEW i \in DOMAIN history
      PROVE /\ i \in Nat /\ history[i].device \in Device /\ history[i].until \in Nat
            /\ history[i].since \in Nat /\ history[i].since < Open
    OBVIOUS
  <2>1. history[i].since \in Time /\ i \in Nat BY RowFacts
  <2> QED BY <2>1, RowFacts, TimeFacts
\* The new row, seen through its columns.
<1>8. ASSUME NEW i \in DOMAIN history', i \notin DOMAIN history
      PROVE /\ i = n /\ want[r] # NoAsset
            /\ history'[i].device = d /\ history'[i].asset = want[r]
            /\ history'[i].since = t /\ history'[i].until = Open
  BY <1>5, <1>8
\* The old rows, seen through theirs.
<1>9. ASSUME NEW i \in DOMAIN history
      PROVE /\ history'[i].device = history[i].device
            /\ history'[i].asset = history[i].asset
            /\ history'[i].since = history[i].since
            /\ history'[i].until = IF history[i].device = d /\ history[i].until = Open
                                    THEN t ELSE history[i].until
  BY <1>1, <1>9 DEF Closes
<1>10. DOMAIN history \subseteq DOMAIN history' BY <1>1 DEF Closes
<1> HIDE DEF d, t
<1>11. ActiveCarries' BY <1>3 DEF TablesOK, ActiveCarries
<1>12. OnlyRows' BY <1>2, <1>3 DEF TablesOK, OnlyRows
<1>13. OneToOne'
  <2>1. ASSUME NEW e \in Device \ {d}, want[r] # NoAsset PROVE carries[e] # want[r]
    <3>1. CASE e \in exists BY <2>1, <3>1, <1>4 DEF Holders, d
    <3>2. CASE e \notin exists BY <2>1, <3>2 DEF TablesOK, OnlyRows
    <3> QED BY <3>1, <3>2
  <2>2. ASSUME NEW e \in Device, NEW f \in Device, e # f, carries'[e] # NoAsset
        PROVE carries'[f] # carries'[e]
    <3>1. CASE e = d BY <2>2, <3>1, <2>1, <1>3
    <3>2. CASE f = d
      <4>1. carries'[e] = carries[e] /\ carries'[f] = want[r] BY <2>2, <3>2, <1>3
      <4>2. want[r] # NoAsset => carries[e] # want[r] BY <2>1, <2>2, <3>2
      <4> QED BY <2>2, <4>1, <4>2
    <3>3. CASE e # d /\ f # d BY <2>2, <3>3, <1>3 DEF TablesOK, OneToOne
    <3> QED BY <3>1, <3>2, <3>3
  <2> QED BY <2>2 DEF OneToOne
<1>14. Past'
  <2> SUFFICES ASSUME NEW e \in Device, NEW i \in DOMAIN history', history'[i].device = e
      PROVE /\ history'[i].since <= clock
            /\ history'[i].until = Open \/ history'[i].until <= clock
    BY <1>2 DEF Past, EndedBy
  <2>1. CASE i \in DOMAIN history
    <3>1. /\ history[i].since <= clock
          /\ history[i].until = Open \/ history[i].until <= clock
      BY <2>1, <1>7 DEF TablesOK, Past, EndedBy
    <3> QED BY <2>1, <3>1, <1>1, <1>9 DEF t
  <2>2. CASE i \notin DOMAIN history BY <2>2, <1>1, <1>8 DEF t
  <2> QED BY <2>1, <2>2
<1>15. CurrentMatchesHistory'
  <2>1. ASSUME NEW i \in DOMAIN history', history'[i].until = Open
        PROVE /\ i \in DOMAIN history => history[i].until = Open /\ history[i].device # d
              /\ i \notin DOMAIN history => history'[i].device = d
    BY <2>1, <1>6, <1>8, <1>9
  <2>2. ASSUME NEW e \in Device, carries'[e] # NoAsset
        PROVE \E i \in DOMAIN history' :
                /\ history'[i].until = Open /\ history'[i].device = e
                /\ history'[i].asset = carries'[e]
    <3>1. CASE e = d
      <4>1. want[r] # NoAsset /\ carries'[e] = want[r] BY <2>2, <3>1, <1>3
      <4>2. n \in DOMAIN history' /\ n \notin DOMAIN history BY <4>1, <1>5
      <4> QED BY <3>1, <4>1, <4>2, <1>8
    <3>2. CASE e # d
      <4>1. carries'[e] = carries[e] BY <3>2, <1>3
      <4>2. PICK i \in DOMAIN history : /\ history[i].until = Open /\ history[i].device = e
                                        /\ history[i].asset = carries[e]
        BY <2>2, <4>1 DEF TablesOK, CurrentMatchesHistory, IsOpen
      <4> QED BY <3>2, <4>1, <4>2, <1>9, <1>10
    <3> QED BY <3>1, <3>2
  <2>3. ASSUME NEW i \in DOMAIN history', history'[i].until = Open
        PROVE carries'[history'[i].device] = history'[i].asset
    <3>1. CASE i \in DOMAIN history
      <4>1. history[i].until = Open /\ history[i].device # d BY <2>1, <2>3, <3>1
      <4>2. carries[history[i].device] = history[i].asset
        BY <3>1, <4>1 DEF TablesOK, CurrentMatchesHistory, IsOpen
      <4>3. carries'[history[i].device] = carries[history[i].device]
        BY <3>1, <4>1, <1>3, <1>7
      <4> QED BY <3>1, <4>2, <4>3, <1>9
    <3>2. CASE i \notin DOMAIN history BY <3>2, <1>3, <1>8
    <3> QED BY <3>1, <3>2
  <2>4. ASSUME NEW i \in DOMAIN history', NEW j \in DOMAIN history',
               history'[i].until = Open, history'[j].until = Open,
               history'[i].device = history'[j].device
        PROVE i = j
    <3>1. CASE i \in DOMAIN history /\ j \in DOMAIN history
      <4>1. history[i].until = Open /\ history[j].until = Open BY <2>1, <2>4, <3>1
      <4>2. history[i].device = history[j].device BY <2>4, <3>1, <1>9
      <4> QED BY <3>1, <4>1, <4>2 DEF TablesOK, CurrentMatchesHistory, IsOpen
    <3>2. CASE i \in DOMAIN history /\ j \notin DOMAIN history
      BY <2>1, <2>4, <3>2, <1>9
    <3>3. CASE i \notin DOMAIN history /\ j \in DOMAIN history
      BY <2>1, <2>4, <3>3, <1>9
    <3>4. CASE i \notin DOMAIN history /\ j \notin DOMAIN history BY <3>4, <1>8
    <3> QED BY <3>1, <3>2, <3>3, <3>4
  <2> QED BY <2>2, <2>3, <2>4 DEF CurrentMatchesHistory, IsOpen
<1>16. OnePlaceAtATime'
  <2> SUFFICES ASSUME NEW i \in DOMAIN history', NEW j \in DOMAIN history',
                      history'[i].device = history'[j].device, i < j
      PROVE history'[i].until <= history'[j].since
    BY DEF OnePlaceAtATime
  <2>1. CASE i \in DOMAIN history /\ j \in DOMAIN history
    <3>1. history[i].until <= history[j].since
      BY <2>1, <1>9 DEF TablesOK, OnePlaceAtATime
    <3>2. history[i].until # Open BY <2>1, <3>1, <1>6, <1>7
    <3> QED BY <2>1, <3>1, <3>2, <1>9
  <2>2. CASE i \in DOMAIN history /\ j \notin DOMAIN history
    <3>1. history'[j].since = t /\ history[i].device = d BY <2>2, <1>8, <1>9
    <3>2. history[i].until = Open \/ history[i].until <= t
      BY <2>2, <3>1, <1>4 DEF EndedBy
    <3> QED BY <2>2, <3>1, <3>2, <1>6, <1>9
  <2>3. CASE i \notin DOMAIN history
    <3>1. i = n /\ want[r] # NoAsset BY <2>3, <1>8
    <3>2. j = n \/ j < n BY <3>1, <1>5
    <3> QED BY <3>1, <3>2, <1>5, <1>7
  <2> QED BY <2>1, <2>2, <2>3
<1> QED BY <1>11, <1>12, <1>13, <1>14, <1>15, <1>16 DEF TablesOK


LEMMA CommitStep ==
  ASSUME IInv, NEW r \in Request, CommitMove(r)
  PROVE  IInv'
<1> DEFINE d == dev[r]
<1> USE DEF IInv
<1>1. /\ d \in Device /\ want[r] \in Asset \cup {NoAsset} /\ clock \in Time
      /\ history' \in Seq(Rows) /\ Closes(d, stamp[r]) /\ Opens(d, want[r], stamp[r])
  BY CommitRows
<1>2. /\ exists' = exists \cup {d} /\ clock' = clock /\ made' = made
      /\ carries' = [carries EXCEPT ![d] = want[r]]
      /\ active' = [active EXCEPT ![d] = want[r] # NoAsset]
      /\ step'[r] = "idle" /\ dev'[r] = NoDevice /\ was'[r] = NoAsset
  BY DEF CommitMove, End, TypeOK
<1>3. carries'[d] = want[r] /\ \A e \in Device \ {d} : carries'[e] = carries[e]
  BY <1>1, <1>2 DEF TypeOK
<1>4. step[r] = "commit" /\ Working(r) BY DEF CommitMove, Working
<1>5. OthersSame(r) BY DEF CommitMove, End, OthersSame, TypeOK
<1>6. TypeOK'
  <2>1. End(r) BY DEF CommitMove
  <2>2. /\ step' \in [Request -> {"idle", "lock", "check", "wait", "write", "commit", "read", "switch"}]
        /\ kind' \in [Request -> Kind] /\ dev' \in [Request -> Device \cup {NoDevice}]
        /\ want' \in [Request -> Asset \cup {NoAsset}] /\ was' \in [Request -> Asset \cup {NoAsset}]
        /\ wasActive' \in [Request -> BOOLEAN] /\ rival' \in [Request -> Device \cup {NoDevice}]
        /\ stamp' \in [Request -> Time] /\ clock' \in Time /\ made' \in Nat
    BY <2>1, ConstantsOK DEF End, TypeOK, Kind, Time
  <2>3. exists' \subseteq Device BY <1>1, <1>2 DEF TypeOK
  <2>4. carries' \in [Device -> Asset \cup {NoAsset}] BY <1>1, <1>2 DEF TypeOK
  <2>5. active' \in [Device -> BOOLEAN] BY <1>1, <1>2 DEF TypeOK
  <2> HIDE DEF d
  <2> QED BY <1>1, <2>2, <2>3, <2>4, <2>5 DEF TypeOK
<1>7. ASSUME NEW u \in Request \ {r} PROVE RequestOK(u)' /\ (Working(u)' <=> Working(u))
  <2>1. /\ step'[u] = step[u] /\ kind'[u] = kind[u] /\ dev'[u] = dev[u]
        /\ want'[u] = want[u] /\ was'[u] = was[u] /\ stamp'[u] = stamp[u]
    BY <1>5 DEF OthersSame
  <2>2. RequestOK(u) BY DEF RequestsOK
  <2>3. Working(u) \/ (step[u] # "idle" /\ kind[u] = "create") => dev[u] # d
    BY <1>4 DEF LocksOK, CreatesOK
  <2>4. Working(u) => dev[u] \in Device BY <2>2 DEF RequestOK, Working, TypeOK
  <2>5. Working(u)' <=> Working(u) BY <2>1 DEF Working
  <2>6. Working(u)' => was'[u] = carries'[dev'[u]]
    BY <2>1, <2>2, <2>3, <2>4, <2>5, <1>3 DEF RequestOK
  <2>7. step[u] \in {"write", "commit"} => EndedBy(dev[u], stamp[u])'
    <3> SUFFICES ASSUME step[u] \in {"write", "commit"},
                        NEW i \in DOMAIN history', history'[i].device = dev[u]
        PROVE /\ history'[i].since <= stamp[u]
              /\ history'[i].until = Open \/ history'[i].until <= stamp[u]
      BY <2>1 DEF EndedBy
    <3>1. dev[u] # d BY <2>3 DEF Working
    <3>2. i \in DOMAIN history
      <4>1. Opens(d, want[r], stamp[r]) BY <1>1
      <4>2. ASSUME i \notin DOMAIN history PROVE history'[i].device = d
        <5> SUFFICES ASSUME want[r] # NoAsset PROVE history'[i].device = d
          BY <4>1, <4>2 DEF Opens
        <5>1. PICK n \in Nat :
                /\ DOMAIN history' = DOMAIN history \cup {n}
                /\ history'[n] = [device |-> d, asset |-> want[r], since |-> stamp[r],
                                 until |-> Open]
          BY <4>1 DEF Opens
        <5>2. i = n BY <4>2, <5>1
        <5> QED BY <5>1, <5>2
      <4> QED BY <3>1, <4>2
    <3>3. /\ history[i].device = dev[u] /\ history'[i].since = history[i].since
          /\ history'[i].until = history[i].until
      BY <3>1, <3>2, <1>1 DEF Closes
    <3>4. EndedBy(dev[u], stamp[u]) BY <2>2 DEF RequestOK
    <3> QED BY <3>2, <3>3, <3>4 DEF EndedBy
  <2>8. step[u] = "commit" => want[u] = NoAsset \/ Holders(u)' = {}
    <3> SUFFICES ASSUME step[u] = "commit", want[u] # NoAsset,
                        NEW e \in exists', e # dev[u]
        PROVE carries'[e] # want[u]
      BY <2>1 DEF Holders
    <3>1. CASE e = d BY <3>1, <1>3, <1>4 DEF IndexOK
    <3>2. CASE e # d
      <4>1. e \in exists /\ carries[e] # want[u]
        BY <3>2, <1>2, <2>2 DEF RequestOK, Holders
      <4> QED BY <3>2, <4>1, <1>3 DEF TypeOK
    <3> QED BY <3>1, <3>2
  <2>9. /\ step[u] # "idle" /\ kind[u] # "create" => dev[u] \in exists'
        /\ step[u] # "idle" /\ kind[u] = "create" => dev[u] \notin exists'
    BY <1>2, <2>2, <2>3 DEF RequestOK
  <2> QED BY <1>2, <2>1, <2>2, <2>5, <2>6, <2>7, <2>8, <2>9 DEF RequestOK
<1>8. RequestOK(r)' BY <1>2 DEF RequestOK, Working
<1>9. RequestsOK' BY <1>7, <1>8 DEF RequestsOK
<1>10. LocksOK' BY <1>2, <1>5, <1>7 DEF LocksOK, OthersSame, Working
<1>11. CreatesOK'
  <2> SUFFICES ASSUME NEW p \in Request, NEW u \in Request, p # u,
                      step'[p] # "idle", kind'[p] = "create"
      PROVE dev'[u] # dev'[p]
    BY DEF CreatesOK
  <2>1. p # r /\ step[p] # "idle" /\ kind[p] = "create" /\ dev'[p] = dev[p]
    BY <1>2, <1>5 DEF OthersSame
  <2>2. dev[p] # NoDevice BY <2>1 DEF RequestsOK, RequestOK
  <2>3. CASE u = r BY <2>1, <2>2, <2>3, <1>2
  <2>4. CASE u # r BY <2>1, <2>4, <1>5 DEF OthersSame, CreatesOK
  <2> QED BY <2>3, <2>4
<1>12. IndexOK' BY <1>2, <1>5 DEF IndexOK, OthersSame
<1>13. TablesOK' BY CommitTables
<1> QED BY <1>6, <1>9, <1>10, <1>11, <1>12, <1>13

\* The named facts are inductive.
LEMMA NextIInv == IInv /\ [Next]_vars => IInv'
<1> SUFFICES ASSUME IInv, [Next]_vars PROVE IInv' OBVIOUS
<1>1. CASE Tick BY <1>1, TickStep
<1>2. ASSUME NEW r \in Request, NEW k \in Kind, NEW d \in Device,
             NEW a \in Asset \cup {NoAsset}, Ask(r, k, d, a)
      PROVE IInv'
  BY <1>2, AskStep
<1>3. ASSUME NEW r \in Request, NothingToMove(r) PROVE IInv'
  <2>1. /\ step[r] = "check" /\ kind[r] \in {"assign", "release"} /\ was[r] = want[r]
        /\ End(r) /\ exists' = exists /\ carries' = carries /\ history' = history
        /\ active' = [active EXCEPT ![dev[r]] = @ \/ kind[r] = "assign"]
    BY <1>3 DEF NothingToMove
  <2>2. RequestOK(r) BY DEF IInv, RequestsOK
  <2>3. dev[r] \in Device BY <2>1, <2>2 DEF RequestOK, IInv, TypeOK
  <2>4. kind[r] = "assign" => carries[dev[r]] # NoAsset
    BY <2>1, <2>2 DEF RequestOK, Working
  <2>5. active' \in [Device -> BOOLEAN] BY <2>1 DEF IInv, TypeOK
  <2>6. active'[dev[r]] => active[dev[r]] \/ kind[r] = "assign"
    BY <2>1, <2>3 DEF IInv, TypeOK
  <2>7. \A e \in Device \ {dev[r]} : active'[e] = active[e]
    BY <2>1, <2>3 DEF IInv, TypeOK
  <2>8. ActiveCarries'
    BY <2>1, <2>4, <2>6, <2>7 DEF IInv, TablesOK, ActiveCarries
  <2> QED BY <2>1, <2>5, <2>8, EndStep
<1>4. ASSUME NEW r \in Request, SwitchOff(r) PROVE IInv'
  <2>1. /\ step[r] = "switch"
        /\ End(r) /\ exists' = exists /\ carries' = carries /\ history' = history
        /\ active' = [active EXCEPT ![dev[r]] = @ /\ ~wasActive[r]]
    BY <1>4 DEF SwitchOff
  <2>2. dev[r] \in Device BY <2>1 DEF IInv, RequestsOK, RequestOK, TypeOK
  <2>3. active' \in [Device -> BOOLEAN]
    BY <2>1, <2>2 DEF IInv, TypeOK
  <2>4. \A e \in Device : active'[e] => active[e]
    <3>1. active'[dev[r]] => active[dev[r]] BY <2>1, <2>2 DEF IInv, TypeOK
    <3>2. \A e \in Device \ {dev[r]} : active'[e] = active[e]
      BY <2>1, <2>2 DEF IInv, TypeOK
    <3> QED BY <3>1, <3>2
  <2>5. ActiveCarries' BY <2>1, <2>4 DEF IInv, TablesOK, ActiveCarries
  <2> QED BY <2>1, <2>3, <2>5, EndStep
<1>5. ASSUME NEW r \in Request,
             RivalStays(r) \/ IndexRefuses(r) \/ DeadlockVictim(r) \/ Fail(r)
      PROVE IInv'
  <2>1. /\ End(r) /\ exists' = exists /\ carries' = carries /\ active' = active
        /\ history' = history
    BY <1>5 DEF RivalStays, IndexRefuses, DeadlockVictim, Fail, database
  <2>2. active' \in [Device -> BOOLEAN] BY <2>1 DEF IInv, TypeOK
  <2>3. ActiveCarries' BY <2>1 DEF IInv, TablesOK, ActiveCarries
  <2> QED BY <2>1, <2>2, <2>3, EndStep
<1>6. ASSUME NEW r \in Request, RequestStep(r) PROVE IInv'
  BY <1>3, <1>4, <1>5, <1>6, LockStep, QueueStep, StampStep, WriteStep, CommitStep
  DEF RequestStep
<1>7. CASE UNCHANGED vars
  <2>1. /\ UNCHANGED <<database, clock>> /\ made' = made
        /\ exists' = exists /\ carries' = carries /\ active' = active /\ history' = history
        /\ clock' = clock /\ step' = step /\ kind' = kind /\ dev' = dev /\ want' = want
        /\ was' = was /\ wasActive' = wasActive /\ rival' = rival /\ stamp' = stamp
    BY <1>7 DEF vars, database, request, reads
  <2>2. TypeOK' BY <2>1 DEF IInv, TypeOK
  <2>3. RequestsOK'
    BY <2>1 DEF IInv, RequestsOK, RequestOK, Working, EndedBy, Holders
  <2>4. LocksOK' /\ CreatesOK' /\ IndexOK'
    BY <2>1 DEF IInv, LocksOK, CreatesOK, IndexOK, Working
  <2>5. TablesOK' BY <2>1, SameTables DEF IInv
  <2> QED BY <2>2, <2>3, <2>4, <2>5 DEF IInv
<1> QED BY <1>1, <1>2, <1>5, <1>6, <1>7 DEF Next

\* Locks, index entries, requests and tables agree in every reachable state.
THEOREM Invariance == Spec => []IInv
  BY InitIInv, NextIInv, PTL DEF Spec

-----------------------------------------------------------------------------
(* What follows.                                                           *)

\* Every variable keeps its type.
THEOREM TypeCorrect == Spec => []TypeOK
<1>1. IInv => TypeOK BY DEF IInv
<1> QED BY Invariance, <1>1, PTL

\* devices.asset_id is the asset of the device's one open assignment.
THEOREM HistoryAgrees == Spec => []CurrentMatchesHistory
<1>1. IInv => CurrentMatchesHistory BY DEF IInv, TablesOK
<1> QED BY Invariance, <1>1, PTL

\* The assignments of a device do not overlap, so a position in time belongs to
\* one asset at most.
THEOREM HistoryDisjoint == Spec => []OnePlaceAtATime
<1>1. IInv => OnePlaceAtATime BY DEF IInv, TablesOK
<1> QED BY Invariance, <1>1, PTL

\* No active device is without an asset, though deactivation reads unlocked.
THEOREM ActiveDevices == Spec => []ActiveCarries
<1>1. IInv => ActiveCarries BY DEF IInv, TablesOK
<1> QED BY Invariance, <1>1, PTL

\* Two devices never carry one asset.
THEOREM OneDevicePerAsset == Spec => []OneToOne
<1>1. IInv => OneToOne BY DEF IInv, TablesOK
<1> QED BY Invariance, <1>1, PTL

\* The current assignment changes by whole moves of one device to a free asset.
THEOREM OneMoveAtATime == Spec => MovesOneDevice
<1> DEFINE Moves ==
      carries' # carries =>
        \E d \in Device, a \in Asset \cup {NoAsset} :
          /\ a = NoAsset \/ \A e \in Device : carries[e] # a
          /\ carries' = [carries EXCEPT ![d] = a]
<1>1. ASSUME IInv, [Next]_vars PROVE [Moves]_vars
  <2>1. ASSUME NEW r \in Request, CommitMove(r) PROVE Moves
    <3>1. dev[r] \in Device /\ want[r] \in Asset \cup {NoAsset} /\ was[r] = carries[dev[r]]
      BY <1>1, <2>1, CommitRows
    <3>2. carries' = [carries EXCEPT ![dev[r]] = want[r]] BY <2>1 DEF CommitMove
    <3>3. want[r] = NoAsset \/ Holders(r) = {}
      BY <1>1, <2>1 DEF CommitMove, IInv, RequestsOK, RequestOK
    <3>4. CASE want[r] = carries[dev[r]]
      BY <1>1, <3>1, <3>2, <3>4 DEF IInv, TypeOK
    <3>5. CASE want[r] # carries[dev[r]]
      <4>1. ASSUME NEW e \in Device, want[r] # NoAsset PROVE carries[e] # want[r]
        <5>1. CASE e = dev[r] BY <3>5, <5>1
        <5>2. CASE e # dev[r] /\ e \in exists BY <3>3, <4>1, <5>2 DEF Holders
        <5>3. CASE e \notin exists BY <1>1, <4>1, <5>3 DEF IInv, TablesOK, OnlyRows
        <5> QED BY <5>1, <5>2, <5>3
      <4> QED BY <3>1, <3>2, <4>1
    <3> QED BY <3>4, <3>5
  <2>2. CASE UNCHANGED vars BY <2>2
  <2>3. CASE Tick BY <2>3 DEF Tick, database
  <2>4. ASSUME NEW r \in Request, NEW k \in Kind, NEW d \in Device,
               NEW a \in Asset \cup {NoAsset}, Ask(r, k, d, a)
        PROVE carries' = carries
    BY <2>4 DEF Ask, database
  <2>5. ASSUME NEW r \in Request, RequestStep(r) \/ Fail(r), ~CommitMove(r)
        PROVE carries' = carries
    BY <2>5 DEF RequestStep, Fail, LockDevice, NothingToMove, CheckAvailable, MeetRival,
                RivalLeft, RivalStays, WriteDevice, IndexRefuses, ReadActive, SwitchOff,
                DeadlockVictim, database
  <2>6. CASE Next
    <3>1. CASE \E r \in Request : CommitMove(r) BY <2>1, <3>1
    <3>2. CASE ~\E r \in Request : CommitMove(r)
      BY <2>3, <2>4, <2>5, <2>6, <3>2 DEF Next
    <3> QED BY <3>1, <3>2
  <2> QED BY <1>1, <2>2, <2>6
<1> QED BY Invariance, <1>1, PTL DEF Spec, MovesOneDevice
=============================================================================
