----------------------------- MODULE GeofenceAlarms -----------------------------
(***************************************************************************)
(* Geofence evaluation: the transaction of a location uplink compares the  *)
(* position with every fence of the asset its device carries, updates the  *)
(* row of geofence_asset_states of each fence and asset, and inserts an    *)
(* event when the status changed.  Meanwhile users assign and unassign     *)
(* fences, switch them on and off, and move devices between assets.        *)
(*                                                                         *)
(* A pair is a fence and an asset.  A task handles one uplink at a time;   *)
(* tasks of one device take turns under an advisory lock (EventIngest), and*)
(* two devices meet on a pair when one of them read its asset before it was*)
(* moved.  Each event's commands are inserted with it (CommandLifecycle).  *)
(***************************************************************************)
EXTENDS Integers, Sequences, FiniteSets

CONSTANTS
  Device, Asset, Fence,
  Task,           \* the worker's concurrent event handlers
  NoDevice, NoAsset, NoFence,
  MaxUplinks,     \* bound: locations ever received
  MaxChanges      \* bound: changes users ever make

ASSUME ConstantsOK ==
  /\ NoDevice \notin Device
  /\ NoAsset \notin Asset
  /\ NoFence \notin Fence
  /\ MaxUplinks \in Nat /\ MaxChanges \in Nat

Pair == Fence \X Asset
Status == {"SAFE", "NEAR_LIMIT", "OUTSIDE", "GPS_UNCERTAIN"}
EventType == {"NEAR_LIMIT", "EXITED", "RETURNED", "GPS_UNCERTAIN"}

VARIABLES
  carries,      \* carries[d], devices.asset_id
  member,       \* pairs with an active assignment, direct or through a group
  fence,        \* fence[f] is active, inactive or deleted
  status,       \* status[p], "NONE" when the pair has no state row
  log,          \* log[p], the pair's events since its row was inserted
  received,     \* locations received so far
  step,         \* step[t], where task t's evaluation is
  device,       \* device[t], whose uplink it is
  asset,        \* asset[t], the asset_id the uplink's transaction read
  blurred,      \* blurred[t], the location's accuracy is too bad to judge
  todo,         \* todo[t], fences still to evaluate
  at,           \* at[t], the fence whose row is about to be locked
  draft,        \* draft[t][f], the status to be committed, "NONE" before
  says,         \* says[t][f], the event to be committed with it or "none"
  leaving,      \* an unassignment in progress: its pair and what it will delete
  changes       \* changes users have made

users == <<carries, member, fence, leaving, changes>>
rows == <<status, log>>
evaluations == <<received, step, device, asset, blurred, todo, at, draft, says>>
vars == <<users, rows, evaluations>>

NoDraft == [f \in Fence |-> "NONE"]
NoEvents == [f \in Fence |-> "none"]
Idle == [pair |-> <<NoFence, NoAsset>>, drop |-> FALSE]

OneToOne(c) == \A d, e \in Device : c[d] = c[e] /\ c[d] # NoAsset => d = e

\* Users have assigned devices and fences before the first uplink.
Init ==
  /\ carries \in {c \in [Device -> Asset \cup {NoAsset}] : OneToOne(c)}
  /\ member \in SUBSET Pair
  /\ leaving = Idle /\ changes = 0
  /\ fence = [f \in Fence |-> "active"]
  /\ status = [p \in Pair |-> "NONE"]
  /\ log = [p \in Pair |-> <<>>]
  /\ received = 0
  /\ step = [t \in Task |-> "idle"]
  /\ device = [t \in Task |-> NoDevice]
  /\ asset = [t \in Task |-> NoAsset]
  /\ blurred = [t \in Task |-> FALSE]
  /\ todo = [t \in Task |-> {}]
  /\ at = [t \in Task |-> NoFence]
  /\ draft = [t \in Task |-> NoDraft]
  /\ says = [t \in Task |-> NoEvents]

-----------------------------------------------------------------------------
(* Statuses and transitions.                                               *)

\* What a position may be judged to be: nothing but uncertain when it is
\* blurred, else outside the fence, near its limit or safe.
Judgements(isBlurred) ==
  IF isBlurred THEN {"GPS_UNCERTAIN"} ELSE {"OUTSIDE", "NEAR_LIMIT", "SAFE"}

\* Mutant: returning to the fence's edge is not announced.
QuietReturn(old, new) ==
  CASE new = "OUTSIDE" /\ old # "OUTSIDE" -> "EXITED"
    [] new = "GPS_UNCERTAIN" /\ old # "GPS_UNCERTAIN" -> "GPS_UNCERTAIN"
    [] old = "OUTSIDE" /\ new = "SAFE" -> "RETURNED"
    [] old \notin {"OUTSIDE", "NEAR_LIMIT"} /\ new = "NEAR_LIMIT" -> "NEAR_LIMIT"
    [] OTHER -> "none"

\* The event of a change of status; "NONE" is the status of a new row.
Transition(old, new) ==
  CASE new = "OUTSIDE" /\ old # "OUTSIDE" -> "EXITED"
    [] new = "GPS_UNCERTAIN" /\ old # "GPS_UNCERTAIN" -> "GPS_UNCERTAIN"
    [] old = "OUTSIDE" /\ new \in {"SAFE", "NEAR_LIMIT"} -> "RETURNED"
    [] old \notin {"OUTSIDE", "NEAR_LIMIT"} /\ new = "NEAR_LIMIT" -> "NEAR_LIMIT"
    [] OTHER -> "none"

-----------------------------------------------------------------------------
(* Users.                                                                  *)

\* Two tasks of one device never evaluate at the same time, by the advisory
\* lock; begun is the time the lock and the device's row are held.
Begun(t) == step[t] \in {"probe", "lock"}
Evaluating(d) == \E t \in Task : Begun(t) /\ device[t] = d

Change ==
  /\ changes < MaxChanges
  /\ changes' = changes + 1

\* An asset has one device.  The assignment locks the device's row, which an
\* uplink that inserted its location holds (its foreign key).
Move(d, a) ==
  /\ Change
  /\ ~Evaluating(d)
  /\ a = NoAsset \/ \A e \in Device : carries[e] # a
  /\ carries' = [carries EXCEPT ![d] = a]
  /\ UNCHANGED <<member, fence, leaving, rows, evaluations>>

Assign(p) ==
  /\ Change
  /\ fence[p[1]] # "deleted"
  /\ member' = member \cup {p}
  /\ UNCHANGED <<carries, fence, leaving, rows, evaluations>>

SetFenceActive(f) ==
  /\ Change
  /\ fence[f] # "deleted"
  /\ \E s \in {"active", "inactive"} : fence' = [fence EXCEPT ![f] = s]
  /\ UNCHANGED <<carries, member, leaving, rows, evaluations>>

\* The states of a deleted fence, like those of an inactive one, stay.
DeleteFence(f) ==
  /\ Change
  /\ fence' = [fence EXCEPT ![f] = "deleted"]
  /\ UNCHANGED <<carries, member, leaving, rows, evaluations>>

Effective(p) == p \in member /\ fence[p[1]] = "active"

\* delete_state_if_unassigned looks before the removal is flushed: it deletes
\* the state only of a pair that was not in effect already.
BeginUnassign(p) ==
  /\ Change
  /\ leaving = Idle
  /\ fence[p[1]] # "deleted"
  /\ leaving' = [pair |-> p, drop |-> ~Effective(p) /\ status[p] # "NONE"]
  /\ UNCHANGED <<carries, member, fence, rows, evaluations>>

HeldBy(t, p) == asset[t] = p[2] /\ draft[t][p[1]] # "NONE"

\* DELETE waits for an evaluation that holds the row.
FinishUnassign ==
  LET p == leaving.pair IN
  /\ leaving # Idle
  /\ member' = member \ {p}
  /\ IF leaving.drop
       THEN /\ \A t \in Task : ~HeldBy(t, p)
            /\ status' = [status EXCEPT ![p] = "NONE"]
            /\ log' = [log EXCEPT ![p] = <<>>]
       ELSE UNCHANGED rows
  /\ leaving' = Idle
  /\ UNCHANGED <<carries, fence, changes, evaluations>>

-----------------------------------------------------------------------------
(* An evaluation.                                                          *)

\* handle_event reads the device, asset_id with it, before it waits for the
\* device's lock; evaluate_location gets that same object back.
Receive(t, d) ==
  /\ step[t] = "idle"
  /\ received < MaxUplinks
  /\ received' = received + 1
  /\ step' = [step EXCEPT ![t] = "queued"]
  /\ device' = [device EXCEPT ![t] = d]
  /\ asset' = [asset EXCEPT ![t] = carries[d]]
  /\ UNCHANGED <<users, rows, blurred, todo, at, draft, says>>

\* With the device's lock, the location is inserted and the fences in effect
\* for the asset are read.
Begin(t) ==
  /\ step[t] = "queued" /\ ~Evaluating(device[t])
  /\ step' = [step EXCEPT ![t] = "probe"]
  /\ \E b \in BOOLEAN : blurred' = [blurred EXCEPT ![t] = b]
  /\ todo' = [todo EXCEPT ![t] =
       IF asset[t] = NoAsset THEN {} ELSE {f \in Fence : Effective(<<f, asset[t]>>)}]
  /\ UNCHANGED <<users, rows, received, device, asset, at, draft, says>>

Decide(t, f, old) ==
  \E new \in Judgements(blurred[t]) :
    /\ draft' = [draft EXCEPT ![t][f] = new]
    /\ says' = [says EXCEPT ![t][f] = Transition(old, new)]

\* INSERT ... ON CONFLICT DO NOTHING: the pair gets its first row, after an
\* uncommitted insert of the same pair is over.
InsertState(t, f) ==
  LET p == <<f, asset[t]>> IN
  /\ step[t] = "probe" /\ f \in todo[t]
  /\ status[p] = "NONE"
  /\ \A u \in Task : ~HeldBy(u, p)
  /\ Decide(t, f, "NONE")
  /\ todo' = [todo EXCEPT ![t] = @ \ {f}]
  /\ UNCHANGED <<users, rows, received, step, device, asset, blurred, at>>

\* The row is there: it will be selected, in another statement.
FindState(t, f) ==
  /\ step[t] = "probe" /\ f \in todo[t]
  /\ status[<<f, asset[t]>>] # "NONE"
  /\ step' = [step EXCEPT ![t] = "lock"]
  /\ at' = [at EXCEPT ![t] = f]
  /\ UNCHANGED <<users, rows, received, device, asset, blurred, todo, draft, says>>

\* Mutant: the select lost its FOR UPDATE.
IsThere(t, p) == TRUE

\* No other transaction holds the row.
IsFree(t, p) == \A u \in Task \ {t} : ~HeldBy(u, p)

\* SELECT ... FOR UPDATE reads the status others have committed.
LockState(t) ==
  LET p == <<at[t], asset[t]>> IN
  /\ step[t] = "lock"
  /\ status[p] # "NONE"
  /\ IsFree(t, p)
  /\ Decide(t, at[t], status[p])
  /\ todo' = [todo EXCEPT ![t] = @ \ {at[t]}]
  /\ at' = [at EXCEPT ![t] = NoFence]
  /\ step' = [step EXCEPT ![t] = "probe"]
  /\ UNCHANGED <<users, rows, received, device, asset, blurred>>

Release(t) ==
  /\ step' = [step EXCEPT ![t] = "idle"]
  /\ device' = [device EXCEPT ![t] = NoDevice]
  /\ asset' = [asset EXCEPT ![t] = NoAsset]
  /\ blurred' = [blurred EXCEPT ![t] = FALSE]
  /\ todo' = [todo EXCEPT ![t] = {}]
  /\ at' = [at EXCEPT ![t] = NoFence]
  /\ draft' = [draft EXCEPT ![t] = NoDraft]
  /\ says' = [says EXCEPT ![t] = NoEvents]
  /\ UNCHANGED <<users, received>>

\* States and events become visible together.
Commit(t) ==
  /\ step[t] = "probe" /\ todo[t] = {}
  /\ status' = [p \in Pair |-> IF HeldBy(t, p) THEN draft[t][p[1]] ELSE status[p]]
  /\ log' = [p \in Pair |-> IF HeldBy(t, p) /\ says[t][p[1]] # "none"
                              THEN Append(log[p], says[t][p[1]]) ELSE log[p]]
  /\ Release(t)

\* Mutant: a waiter that fails keeps its transaction open.
FailWithoutRollback(t) ==
  /\ step[t] # "idle"
  /\ step' = [step EXCEPT ![t] = "stuck"]
  /\ UNCHANGED <<users, rows, received, device, asset, blurred, todo, at, draft, says>>

\* Any exception or a crash rolls the uplink back, its location included.
Fail(t) ==
  /\ step[t] # "idle"
  /\ Release(t)
  /\ UNCHANGED rows

\* The row that was found is gone: scalar_one raises NoResultFound.
StateVanished(t) ==
  /\ step[t] = "lock"
  /\ status[<<at[t], asset[t]>>] = "NONE"
  /\ Release(t)
  /\ UNCHANGED rows

\* t waits for a row, or for the insert of one, that u holds.
WaitsFor(t, u) ==
  /\ t # u
  /\ \/ step[t] = "lock" /\ HeldBy(u, <<at[t], asset[t]>>)
     \/ step[t] = "probe" /\ \E f \in todo[t] : HeldBy(u, <<f, asset[t]>>)

\* PostgreSQL aborts one of the transactions that wait for each other in a ring.
DeadlockVictim(t) ==
  /\ \E ring \in SUBSET Task :
       /\ t \in ring
       /\ \A u \in ring : /\ \E v \in ring : WaitsFor(u, v)
                         /\ \E v \in ring : WaitsFor(v, u)
  /\ Release(t)
  /\ UNCHANGED rows

-----------------------------------------------------------------------------
EvaluationStep(t) ==
  \/ Begin(t)
  \/ \E f \in Fence : InsertState(t, f) \/ FindState(t, f)
  \/ LockState(t) \/ StateVanished(t) \/ DeadlockVictim(t)
  \/ Commit(t)

User ==
  \/ \E d \in Device, a \in Asset \cup {NoAsset} : Move(d, a)
  \/ \E p \in Pair : Assign(p) \/ BeginUnassign(p)
  \/ FinishUnassign
  \/ \E f \in Fence : SetFenceActive(f) \/ DeleteFence(f)

Next ==
  \/ User
  \/ \E t \in Task : EvaluationStep(t) \/ Fail(t) \/ \E d \in Device : Receive(t, d)

Spec == Init /\ [][Next]_vars

\* Tasks run and the database ends every statement that is not waiting, and
\* breaks deadlocks; users and failures owe nothing.
FairSpec == Spec /\ \A t \in Task : WF_vars(EvaluationStep(t))

-----------------------------------------------------------------------------
(* Properties.                                                             *)

\* Every variable keeps its type; a held row is being evaluated.
TypeOK ==
  /\ carries \in [Device -> Asset \cup {NoAsset}]
  /\ member \subseteq Pair
  /\ fence \in [Fence -> {"active", "inactive", "deleted"}]
  /\ status \in [Pair -> Status \cup {"NONE"}]
  /\ log \in [Pair -> Seq(EventType)]
  /\ received \in Nat
  /\ step \in [Task -> {"idle", "queued", "probe", "lock"}]
  /\ device \in [Task -> Device \cup {NoDevice}]
  /\ asset \in [Task -> Asset \cup {NoAsset}]
  /\ blurred \in [Task -> BOOLEAN]
  /\ todo \in [Task -> SUBSET Fence]
  /\ at \in [Task -> Fence \cup {NoFence}]
  /\ draft \in [Task -> [Fence -> Status \cup {"NONE"}]]
  /\ says \in [Task -> [Fence -> EventType \cup {"none"}]]
  /\ changes \in Nat
  /\ leaving \in [pair : Pair \cup {<<NoFence, NoAsset>>}, drop : BOOLEAN]

LastEvent(p) == IF log[p] = <<>> THEN "none" ELSE log[p][Len(log[p])]

\* The events a user sees tell the status the pair is in, whichever devices
\* evaluated it at the same time: no alarm is lost or left standing.
StatusMatchesLog ==
  \A p \in Pair :
     /\ status[p] = "OUTSIDE" <=> LastEvent(p) = "EXITED"
     /\ status[p] = "NEAR_LIMIT" => LastEvent(p) \in {"NEAR_LIMIT", "RETURNED", "GPS_UNCERTAIN"}
     /\ status[p] = "GPS_UNCERTAIN" => LastEvent(p) = "GPS_UNCERTAIN"

\* An exit is not announced again right after itself, and a return is announced
\* only right after an exit: no alarm is given twice.
AlarmsAlternate ==
  \A p \in Pair : \A i \in DOMAIN log[p] :
     /\ log[p][i] = "EXITED" => i = 1 \/ log[p][i - 1] # "EXITED"
     /\ log[p][i] = "RETURNED" => i > 1 /\ log[p][i - 1] = "EXITED"

\* Every uplink that was accepted is committed or rolled back in the end.
EveryEvaluationEnds ==
  \A t \in Task : step[t] # "idle" ~> step[t] = "idle"
=============================================================================
