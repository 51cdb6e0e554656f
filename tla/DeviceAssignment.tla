---------------------------- MODULE DeviceAssignment ----------------------------
(***************************************************************************)
(* Which device is on which asset: devices.asset_id is the current answer, *)
(* device_asset_assignments the history of answers, and the requests of    *)
(* DeviceAssignmentService change both in one transaction each.            *)
(*                                                                         *)
(* Transactions run under READ COMMITTED.  A request locks its device's row*)
(* (SELECT ... FOR UPDATE), looks for another holder of the asset, takes   *)
(* the time, writes the device's row, where the unique index on asset_id   *)
(* makes it wait or refuses it, and commits.  Deactivation reads the device*)
(* without a lock.                                                         *)
(***************************************************************************)
EXTENDS Integers, Sequences, FiniteSets

CONSTANTS
  Device, Asset, Request,
  NoDevice, NoAsset,
  MaxRequests,    \* bound: requests ever made
  MaxTime         \* bound: the last instant of the clock

ASSUME ConstantsOK ==
  /\ NoDevice \notin Device
  /\ NoAsset \notin Asset
  /\ MaxRequests \in Nat /\ MaxTime \in Nat

Open == MaxTime + 1     \* unassigned_at of the current assignment, NULL
Kind == {"assign", "release", "create", "deactivate"}
Time == 0 .. MaxTime

VARIABLES
  exists,       \* devices whose row is committed
  carries,      \* carries[d], devices.asset_id
  active,       \* active[d], devices.active
  history,      \* rows of device_asset_assignments, in the order of insertion
  clock,        \* the API's clock
  made,         \* requests made so far
  step,         \* step[r], where request r's transaction is
  kind,         \* kind[r]
  dev,          \* dev[r], the device it is about
  want,         \* want[r], the asset it assigns, NoAsset to release
  was,          \* was[r], the device's asset when its row was locked
  wasActive,    \* wasActive[r], the device's active flag as r read it
  rival,        \* rival[r], the holder of the asset whose row r waits for
  stamp         \* stamp[r], assignment_time

database == <<exists, carries, active, history>>
request == <<kind, dev, want>>
reads == <<was, wasActive, rival, stamp>>
vars == <<database, clock, made, step, request, reads>>

\* Devices older than the history may be there, without an asset.
Init ==
  /\ exists \in SUBSET Device
  /\ carries = [d \in Device |-> NoAsset]
  /\ active = [d \in Device |-> FALSE]
  /\ history = <<>>
  /\ clock = 0 /\ made = 0
  /\ step = [r \in Request |-> "idle"]
  /\ kind = [r \in Request |-> "assign"]
  /\ dev = [r \in Request |-> NoDevice]
  /\ want = [r \in Request |-> NoAsset]
  /\ was = [r \in Request |-> NoAsset]
  /\ wasActive = [r \in Request |-> FALSE]
  /\ rival = [r \in Request |-> NoDevice]
  /\ stamp = [r \in Request |-> 0]

Tick ==
  /\ clock < MaxTime
  /\ clock' = clock + 1
  /\ UNCHANGED <<database, made, step, request, reads>>

-----------------------------------------------------------------------------
(* Locks.                                                                  *)

\* From the lock of its device's row to its end; a created row is locked by
\* nobody else, who cannot see it.
Holds(r, d) ==
  /\ dev[r] = d
  /\ step[r] \in {"check", "wait", "write", "commit"}

\* Mutant: the device is read without FOR UPDATE.
NeverBusy(r, d) == FALSE

Busy(r, d) == \E u \in Request \ {r} : Holds(u, d)

-----------------------------------------------------------------------------
(* Requests.                                                               *)

Ask(r, k, d, a) ==
  /\ step[r] = "idle"
  /\ made < MaxRequests
  /\ CASE k = "create" -> /\ d \notin exists /\ a # NoAsset
                          /\ \A u \in Request : dev[u] # d
       [] k = "assign" -> d \in exists /\ a # NoAsset
       [] k \in {"release", "deactivate"} -> d \in exists /\ a = NoAsset
  /\ made' = made + 1
  /\ step' = [step EXCEPT ![r] = CASE k = "create" -> "check"
                                   [] k = "deactivate" -> "read"
                                   [] OTHER -> "lock"]
  /\ kind' = [kind EXCEPT ![r] = k]
  /\ dev' = [dev EXCEPT ![r] = d]
  /\ want' = [want EXCEPT ![r] = a]
  /\ UNCHANGED <<database, clock, reads>>

\* The end of a request: rolled back, unless the step is its commit.
End(r) ==
  /\ step' = [step EXCEPT ![r] = "idle"]
  /\ kind' = [kind EXCEPT ![r] = "assign"]
  /\ dev' = [dev EXCEPT ![r] = NoDevice]
  /\ want' = [want EXCEPT ![r] = NoAsset]
  /\ was' = [was EXCEPT ![r] = NoAsset]
  /\ wasActive' = [wasActive EXCEPT ![r] = FALSE]
  /\ rival' = [rival EXCEPT ![r] = NoDevice]
  /\ stamp' = [stamp EXCEPT ![r] = 0]
  /\ UNCHANGED <<clock, made>>

\* The row's committed values are read once it is free.
LockDevice(r) ==
  /\ step[r] = "lock"
  /\ ~Busy(r, dev[r])
  /\ was' = [was EXCEPT ![r] = carries[dev[r]]]
  /\ wasActive' = [wasActive EXCEPT ![r] = active[dev[r]]]
  /\ step' = [step EXCEPT ![r] = "check"]
  /\ UNCHANGED <<database, clock, made, request, rival, stamp>>

\* Nothing to move: the same asset again switches the device on, and a release
\* of a device without an asset does nothing.
NothingToMove(r) ==
  /\ step[r] = "check" /\ kind[r] \in {"assign", "release"}
  /\ was[r] = want[r]
  /\ active' = [active EXCEPT ![dev[r]] = @ \/ kind[r] = "assign"]
  /\ End(r)
  /\ UNCHANGED <<exists, carries, history>>

\* Other devices that carry the wanted asset, as the query's snapshot shows.
Holders(r) == {d \in exists \ {dev[r]} : carries[d] = want[r]}

Stamped(r) ==
  /\ stamp' = [stamp EXCEPT ![r] = clock]
  /\ step' = [step EXCEPT ![r] = "write"]

\* The asset is available, or none is wanted: the time is taken.
CheckAvailable(r) ==
  /\ step[r] = "check" /\ was[r] # want[r]
  /\ want[r] = NoAsset \/ Holders(r) = {}
  /\ Stamped(r)
  /\ UNCHANGED <<database, clock, made, request, was, wasActive, rival>>

\* FOR UPDATE waits for the holder's row when another request has it.
MeetRival(r, d) ==
  /\ step[r] = "check" /\ was[r] # want[r] /\ want[r] # NoAsset
  /\ d \in Holders(r)
  /\ step' = [step EXCEPT ![r] = "wait"]
  /\ rival' = [rival EXCEPT ![r] = d]
  /\ UNCHANGED <<database, clock, made, request, was, wasActive, stamp>>

\* The row is looked at again when it is free: its device has left the asset,
RivalLeft(r) ==
  /\ step[r] = "wait" /\ ~Busy(r, rival[r])
  /\ carries[rival[r]] # want[r]
  /\ Stamped(r)
  /\ UNCHANGED <<database, clock, made, request, was, wasActive, rival>>

\* Mutant: the refused request keeps its locks.
RefuseWithoutRollback(r) ==
  /\ step[r] = "wait" /\ ~Busy(r, rival[r])
  /\ carries[rival[r]] = want[r]
  /\ UNCHANGED vars

\* or the asset is refused.
RivalStays(r) ==
  /\ step[r] = "wait" /\ ~Busy(r, rival[r])
  /\ carries[rival[r]] = want[r]
  /\ End(r)
  /\ UNCHANGED database

\* Transactions with an uncommitted entry for asset a in the index on asset_id,
\* or an uncommitted removal of one.
IndexUsers(r, a) ==
  {u \in Request \ {r} : step[u] = "commit" /\ (want[u] = a \/ was[u] = a)}

IndexAdmits(r) == want[r] = NoAsset \/ Holders(r) = {}

\* UPDATE or INSERT of the device's row.
WriteDevice(r) ==
  /\ step[r] = "write"
  /\ want[r] = NoAsset \/ IndexUsers(r, want[r]) = {}
  /\ IndexAdmits(r)
  /\ step' = [step EXCEPT ![r] = "commit"]
  /\ UNCHANGED <<database, clock, made, request, reads>>

\* IntegrityError: somebody took the asset since it was available.
IndexRefuses(r) ==
  /\ step[r] = "write"
  /\ IndexUsers(r, want[r]) = {}
  /\ ~IndexAdmits(r)
  /\ End(r)
  /\ UNCHANGED database

\* Mutant: the history is left open.
KeepOpen(rows, d, a, t) == rows

\* active_assignment, found when the device was locked, gets its unassigned_at.
CloseRow(rows, d, a, t) ==
  [i \in DOMAIN rows |->
     IF rows[i].device = d /\ rows[i].asset = a /\ rows[i].until = Open
       THEN [rows[i] EXCEPT !.until = t] ELSE rows[i]]

OpenRow(rows, d, a, t) ==
  IF a = NoAsset THEN rows
  ELSE Append(rows, [device |-> d, asset |-> a, since |-> t, until |-> Open])

\* The history's old row is closed and its new one inserted with the device.
CommitMove(r) ==
  LET d == dev[r] IN
  /\ step[r] = "commit"
  /\ exists' = exists \cup {d}
  /\ carries' = [carries EXCEPT ![d] = want[r]]
  /\ active' = [active EXCEPT ![d] = want[r] # NoAsset]
  /\ history' = OpenRow(CloseRow(history, d, was[r], stamp[r]), d, want[r], stamp[r])
  /\ End(r)

\* deactivate_device reads the device, and its UPDATE waits for the row's lock;
\* an attribute that does not change is not written.
ReadActive(r) ==
  /\ step[r] = "read"
  /\ wasActive' = [wasActive EXCEPT ![r] = active[dev[r]]]
  /\ step' = [step EXCEPT ![r] = "switch"]
  /\ UNCHANGED <<database, clock, made, request, was, rival, stamp>>

SwitchOff(r) ==
  /\ step[r] = "switch"
  /\ wasActive[r] => ~Busy(r, dev[r])
  /\ active' = [active EXCEPT ![dev[r]] = @ /\ ~wasActive[r]]
  /\ End(r)
  /\ UNCHANGED <<exists, carries, history>>

\* Any other error or a crash: rolled back.
Fail(r) ==
  /\ step[r] # "idle"
  /\ End(r)
  /\ UNCHANGED database

WaitsFor(r, u) ==
  /\ r # u
  /\ \/ step[r] = "wait" /\ Holds(u, rival[r])
     \/ step[r] \in {"lock", "switch"} /\ Holds(u, dev[r])
     \/ step[r] = "write" /\ want[r] # NoAsset /\ u \in IndexUsers(r, want[r])

\* PostgreSQL aborts one of the transactions that wait for each other in a ring.
DeadlockVictim(r) ==
  /\ \E ring \in SUBSET Request :
       /\ r \in ring
       /\ \A u \in ring : /\ \E v \in ring : WaitsFor(u, v)
                         /\ \E v \in ring : WaitsFor(v, u)
  /\ End(r)
  /\ UNCHANGED database

-----------------------------------------------------------------------------
RequestStep(r) ==
  \/ LockDevice(r) \/ NothingToMove(r) \/ CheckAvailable(r)
  \/ \E d \in Device : MeetRival(r, d)
  \/ RivalLeft(r) \/ RivalStays(r)
  \/ WriteDevice(r) \/ IndexRefuses(r) \/ CommitMove(r)
  \/ ReadActive(r) \/ SwitchOff(r)
  \/ DeadlockVictim(r)

Next ==
  \/ Tick
  \/ \E r \in Request :
       \/ \E k \in Kind, d \in Device, a \in Asset \cup {NoAsset} : Ask(r, k, d, a)
       \/ RequestStep(r)
       \/ Fail(r)

Spec == Init /\ [][Next]_vars

\* A request's statements are executed unless they wait; users and the clock
\* owe nothing.
FairSpec == Spec /\ \A r \in Request : WF_vars(RequestStep(r))

-----------------------------------------------------------------------------
(* Properties.                                                             *)

Rows == [device : Device, asset : Asset, since : Time, until : Time \cup {Open}]

\* Every variable keeps its type.
TypeOK ==
  /\ exists \subseteq Device
  /\ carries \in [Device -> Asset \cup {NoAsset}]
  /\ active \in [Device -> BOOLEAN]
  /\ history \in Seq(Rows)
  /\ clock \in Time /\ made \in Nat
  /\ step \in [Request -> {"idle", "lock", "check", "wait", "write", "commit", "read", "switch"}]
  /\ kind \in [Request -> Kind]
  /\ dev \in [Request -> Device \cup {NoDevice}]
  /\ want \in [Request -> Asset \cup {NoAsset}]
  /\ was \in [Request -> Asset \cup {NoAsset}]
  /\ wasActive \in [Request -> BOOLEAN]
  /\ rival \in [Request -> Device \cup {NoDevice}]
  /\ stamp \in [Request -> Time]

IsOpen(i) == history[i].until = Open

\* A device's asset is that of its one open row of history, and without an
\* asset it has none: DeviceAssignmentInvariantError is never raised.
CurrentMatchesHistory ==
  /\ \A d \in Device :
       carries[d] # NoAsset =>
         \E i \in DOMAIN history :
           IsOpen(i) /\ history[i].device = d /\ history[i].asset = carries[d]
  /\ \A i \in DOMAIN history : IsOpen(i) => carries[history[i].device] = history[i].asset
  /\ \A i, j \in DOMAIN history :
       IsOpen(i) /\ IsOpen(j) /\ history[i].device = history[j].device => i = j

\* At any instant the history puts a device on one asset at most, so
\* get_assignment_for_device_at finds one row or none.
OnePlaceAtATime ==
  \A i, j \in DOMAIN history :
    history[i].device = history[j].device /\ i < j => history[i].until <= history[j].since

\* An active device carries an asset, which the database demands.
ActiveCarries == \A d \in Device : active[d] => carries[d] # NoAsset

\* The current assignment changes for one device at a time, to an asset that
\* no device carries: what GeofenceAlarms takes for granted of Move.
MovesOneDevice ==
  [][carries' # carries =>
       \E d \in Device, a \in Asset \cup {NoAsset} :
         /\ a = NoAsset \/ \A e \in Device : carries[e] # a
         /\ carries' = [carries EXCEPT ![d] = a]]_vars

\* Every request is answered, also when requests wait for each other's rows.
EveryRequestEnds ==
  \A r \in Request : step[r] # "idle" ~> step[r] = "idle"
=============================================================================
