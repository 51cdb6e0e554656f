------------------------------ MODULE EventIngest ------------------------------
(***************************************************************************)
(* The ChirpStack event worker: MQTT messages become tasks of one asyncio  *)
(* process, at most Slots of them at work.  A task records its event in a  *)
(* transaction of its own, applies it in a second one, and then announces  *)
(* a stored location on Redis.  MQTT messages are acknowledged when their  *)
(* task is created and the session is clean, so a process that dies takes  *)
(* its tasks with it; an event may be delivered more than once.            *)
(*                                                                         *)
(* Task t is the t-th delivery and writes at most one row of               *)
(* chirpstack_events, row[t].  What the command events do to their command *)
(* is in CommandLifecycle, what a location does to alarms in GeofenceAlarms*)
(***************************************************************************)
EXTENDS Integers, Sequences, FiniteSets

CONSTANTS
  Event,          \* what ChirpStack published
  Anonymous,      \* events whose payload has no deduplicationId
  KindOf,         \* KindOf[e], a member of Kind
  DeviceOf,       \* DeviceOf[e], the device of the topic's dev_eui
  Device,
  Slots,          \* ChirpStackEventWorker.processing_concurrency
  Faults,         \* what may go wrong, a subset of AllFaults
  MaxDeliveries   \* bound: messages ever delivered

Kind == {"location", "status", "join", "log"}
AllFaults == {"reject", "handler", "database", "commit_reply", "redis", "crash"}

ASSUME ConstantsOK ==
  /\ Anonymous \subseteq Event
  /\ KindOf \in [Event -> Kind]
  /\ DeviceOf \in [Event -> Device]
  /\ Slots \in Nat \ {0}
  /\ Faults \subseteq AllFaults
  /\ MaxDeliveries \in Nat

Task == 1 .. MaxDeliveries

Step == {"waiting", "check", "insert", "record", "resolve", "lock", "process",
         "commit", "announce", "error", "done"}

VARIABLES
  event,        \* event[t], the event of the t-th delivery
  pc,           \* pc[t], the step task t is about to take
  row,          \* row[t]: none, inserted (not committed), recorded, processed, failed
  stamp,        \* stamp[t], the _utcnow() of task t's effects, 0 before
  clock,        \* readings of _utcnow() so far
  applied,      \* committed effects, in the order of their commits
  lastSeen,     \* devices.last_seen_at
  announced     \* tasks whose location was published, in that order

vars == <<event, pc, row, stamp, clock, applied, lastSeen, announced>>

Created == DOMAIN event
\* Tasks that hold a permit of the semaphore.
Running == {t \in Created : pc[t] \notin {"waiting", "done"}}
KindAt(t) == KindOf[event[t]]
DeviceAt(t) == DeviceOf[event[t]]

Init ==
  /\ event = <<>>
  /\ pc = [t \in Task |-> "waiting"]
  /\ row = [t \in Task |-> "none"]
  /\ stamp = [t \in Task |-> 0]
  /\ clock = 0
  /\ applied = <<>>
  /\ lastSeen = [d \in Device |-> 0]
  /\ announced = <<>>

Goto(t, step) ==
  /\ pc' = [pc EXCEPT ![t] = step]
  /\ UNCHANGED event

-----------------------------------------------------------------------------
(* Delivery.                                                               *)

\* on_message creates the task and returns, which acknowledges the message.
Deliver(e) ==
  /\ Len(event) < MaxDeliveries
  /\ event' = Append(event, e)
  /\ UNCHANGED <<pc, row, stamp, clock, applied, lastSeen, announced>>

\* asyncio.Semaphore admits its waiters in order.
Admit(t) ==
  /\ pc[t] = "waiting"
  /\ \A u \in 1 .. t - 1 : pc[u] # "waiting"
  /\ Cardinality(Running) < Slots
  /\ Goto(t, "check")
  /\ UNCHANGED <<row, stamp, clock, applied, lastSeen, announced>>

-----------------------------------------------------------------------------
(* First transaction: record the event once.                               *)

Twin(t, u) == u # t /\ event[u] = event[t] /\ event[t] \notin Anonymous

\* Mutant: no uniqueness on deduplication_id.
NotCommitted(t) == FALSE

\* A committed row of another delivery carries the same deduplication id.
RecordedByTwin(t) ==
  \E u \in Created : Twin(t, u) /\ row[u] \notin {"none", "inserted"}

CheckExists(t) ==
  /\ pc[t] = "check"
  /\ Goto(t, IF RecordedByTwin(t) THEN "done" ELSE "insert")
  /\ UNCHANGED <<row, stamp, clock, applied, lastSeen, announced>>

\* INSERT waits for a twin's uncommitted insert; after its commit the unique
\* index raises IntegrityError and the delivery is skipped as a duplicate.
InsertRow(t) ==
  /\ pc[t] = "insert"
  /\ \A u \in Created : Twin(t, u) => row[u] # "inserted"
  /\ IF RecordedByTwin(t)
       THEN Goto(t, "done") /\ UNCHANGED row
       ELSE Goto(t, "record") /\ row' = [row EXCEPT ![t] = "inserted"]
  /\ UNCHANGED <<stamp, clock, applied, lastSeen, announced>>

\* Mutant: the row is born processed.
CommitRowProcessed(t) ==
  /\ pc[t] = "record"
  /\ row' = [row EXCEPT ![t] = "processed"]
  /\ Goto(t, "resolve")
  /\ UNCHANGED <<stamp, clock, applied, lastSeen, announced>>

CommitRow(t) ==
  /\ pc[t] = "record"
  /\ row' = [row EXCEPT ![t] = "recorded"]
  /\ Goto(t, "resolve")
  /\ UNCHANGED <<stamp, clock, applied, lastSeen, announced>>

\* A database error other than IntegrityError leaves handle_event: the worker
\* rolls back and drops the message.  When only the reply of the commit was
\* lost the row is there all the same.
RecordFails(t) ==
  /\ pc[t] = "record"
  /\ \/ "database" \in Faults /\ row' = [row EXCEPT ![t] = "none"]
     \/ "commit_reply" \in Faults /\ row' = [row EXCEPT ![t] = "recorded"]
  /\ Goto(t, "done")
  /\ UNCHANGED <<stamp, clock, applied, lastSeen, announced>>

-----------------------------------------------------------------------------
(* Second transaction: apply the event.                                    *)

\* Unknown or inactive device, another application id, an unsupported type or
\* port: only the error message is committed.
Reject(t) ==
  /\ pc[t] = "resolve"
  /\ "reject" \in Faults
  /\ row' = [row EXCEPT ![t] = "failed"]
  /\ Goto(t, "done")
  /\ UNCHANGED <<stamp, clock, applied, lastSeen, announced>>

Uplink(t) == KindAt(t) \in {"location", "status"}

\* The device is read; an uplink then queues for the device's advisory lock.
Resolve(t) ==
  /\ pc[t] = "resolve"
  /\ Goto(t, IF Uplink(t) THEN "lock" ELSE "process")
  /\ UNCHANGED <<row, stamp, clock, applied, lastSeen, announced>>

\* Mutant: pg_advisory_xact_lock is not taken.
NobodyHolds(t) == TRUE

\* Mutant: the lock is the session's, which the connection pool keeps open.
NoSessionHolds(t) ==
  \A u \in Created : ~(Uplink(u) /\ DeviceAt(u) = DeviceAt(t) /\ stamp[u] > 0)

\* pg_advisory_xact_lock is free: it is held until the transaction ends.
LockIsFree(t) ==
  \A u \in Created : ~(Uplink(u) /\ DeviceAt(u) = DeviceAt(t) /\ pc[u] \in {"process", "commit"})

AcquireLock(t) ==
  /\ pc[t] = "lock"
  /\ LockIsFree(t)
  /\ Goto(t, "process")
  /\ UNCHANGED <<row, stamp, clock, applied, lastSeen, announced>>

\* The effects are computed and flushed; a log event has none to stamp.
Process(t) ==
  /\ pc[t] = "process"
  /\ IF KindAt(t) = "log"
       THEN UNCHANGED <<stamp, clock>>
       ELSE clock' = clock + 1 /\ stamp' = [stamp EXCEPT ![t] = clock + 1]
  /\ Goto(t, "commit")
  /\ UNCHANGED <<row, applied, lastSeen, announced>>

\* What becomes visible when the second transaction commits.
Apply(t) ==
  /\ applied' = Append(applied, t)
  /\ lastSeen' = IF KindAt(t) = "log" THEN lastSeen
                 ELSE [lastSeen EXCEPT ![DeviceAt(t)] = stamp[t]]

AfterCommit(t) == IF KindAt(t) = "location" THEN "announce" ELSE "done"

CommitEffects(t) ==
  /\ pc[t] = "commit"
  /\ Apply(t)
  /\ row' = [row EXCEPT ![t] = "processed"]
  /\ Goto(t, AfterCommit(t))
  /\ UNCHANGED <<stamp, clock, announced>>

\* An exception before the commit took effect rolls the effects back; a commit
\* whose reply is lost raises too, with the effects in the database.
ProcessingFails(t) ==
  /\ \/ pc[t] \in {"resolve", "lock", "process"} /\ "handler" \in Faults
     \/ pc[t] = "commit" /\ "database" \in Faults
  /\ Goto(t, "error")
  /\ UNCHANGED <<row, stamp, clock, applied, lastSeen, announced>>

CommitReplyLost(t) ==
  /\ pc[t] = "commit"
  /\ "commit_reply" \in Faults
  /\ Apply(t)
  /\ row' = [row EXCEPT ![t] = "processed"]
  /\ Goto(t, "error")
  /\ UNCHANGED <<stamp, clock, announced>>

\* _mark_event_error, a third transaction: processed = FALSE and the message.
MarkError(t) ==
  /\ pc[t] = "error"
  /\ row' = [row EXCEPT ![t] = "failed"]
  /\ Goto(t, "done")
  /\ UNCHANGED <<stamp, clock, applied, lastSeen, announced>>

MarkErrorFails(t) ==
  /\ pc[t] = "error"
  /\ "database" \in Faults
  /\ Goto(t, "done")
  /\ UNCHANGED <<row, stamp, clock, applied, lastSeen, announced>>

-----------------------------------------------------------------------------
(* Announcement, after the commit.                                         *)

IsAnnouncer(t) == pc[t] = "announce"

Announce(t) ==
  /\ IsAnnouncer(t)
  /\ announced' = Append(announced, t)
  /\ Goto(t, "done")
  /\ UNCHANGED <<row, stamp, clock, applied, lastSeen>>

\* RedisError is logged; a device without a client has nothing to announce.
StaySilent(t) ==
  /\ pc[t] = "announce"
  /\ "redis" \in Faults
  /\ Goto(t, "done")
  /\ UNCHANGED <<row, stamp, clock, applied, lastSeen, announced>>

-----------------------------------------------------------------------------
\* The process dies or is stopped and starts again: every task ends where it
\* is and what it had not committed is rolled back.
Crash ==
  /\ "crash" \in Faults
  /\ Running # {} \/ \E t \in Created : pc[t] = "waiting"
  /\ pc' = [t \in Task |-> IF t \in Created THEN "done" ELSE pc[t]]
  /\ row' = [t \in Task |-> IF row[t] = "inserted" THEN "none" ELSE row[t]]
  /\ UNCHANGED <<event, stamp, clock, applied, lastSeen, announced>>

\* What a task does next; Fails is what may be done to it instead.
TaskStep(t) ==
  \/ Admit(t) \/ CheckExists(t) \/ InsertRow(t) \/ CommitRow(t)
  \/ Resolve(t) \/ AcquireLock(t) \/ Process(t) \/ CommitEffects(t)
  \/ MarkError(t) \/ Announce(t)

Fails(t) ==
  \/ RecordFails(t) \/ Reject(t) \/ ProcessingFails(t) \/ CommitReplyLost(t)
  \/ MarkErrorFails(t) \/ StaySilent(t)

Next ==
  \/ \E e \in Event : Deliver(e)
  \/ \E t \in Created : TaskStep(t) \/ Fails(t)
  \/ Crash

Spec == Init /\ [][Next]_vars

\* The event loop runs every task whose wait is over, and the database ends
\* every statement; nothing is assumed of the faults or of MQTT.
FairSpec == Spec /\ \A t \in Task : WF_vars(t \in Created /\ TaskStep(t))

-----------------------------------------------------------------------------
(* Properties.                                                             *)

\* Every variable keeps its type; row[t] is the life of a chirpstack_events row.
TypeOK ==
  /\ event \in Seq(Event) /\ Len(event) <= MaxDeliveries
  /\ pc \in [Task -> Step]
  /\ row \in [Task -> {"none", "inserted", "recorded", "processed", "failed"}]
  /\ stamp \in [Task -> Nat]
  /\ clock \in Nat
  /\ applied \in Seq(Task)
  /\ lastSeen \in [Device -> Nat]
  /\ announced \in Seq(Task)

AppliedTasks == {applied[i] : i \in DOMAIN applied}
AnnouncedTasks == {announced[i] : i \in DOMAIN announced}

\* However often an event with a deduplication id is delivered, by overlapping
\* tasks or across a crash, its effects are committed once at most.
AppliedAtMostOnce ==
  \A i, j \in DOMAIN applied :
     i # j => \/ event[applied[i]] # event[applied[j]]
              \/ event[applied[i]] \in Anonymous /\ applied[i] # applied[j]

\* A row that says processed has its effects in the database; effects of a row
\* that does not are those of a commit whose reply was lost.
ProcessedMeansApplied ==
  \A t \in Created :
     /\ row[t] = "processed" => t \in AppliedTasks
     /\ t \in AppliedTasks /\ "commit_reply" \notin Faults => row[t] = "processed"

\* Subscribers hear only of locations that are committed, and of each once.
AnnouncedWereCommitted ==
  /\ AnnouncedTasks \subseteq {t \in AppliedTasks : KindAt(t) = "location"}
  /\ \A i, j \in DOMAIN announced :
       i # j => \/ event[announced[i]] # event[announced[j]]
                \/ event[announced[i]] \in Anonymous /\ announced[i] # announced[j]

\* The advisory lock makes the order in which a device's uplinks are committed
\* the order of the received_at they carry.
UplinksInOrder ==
  \A i, j \in DOMAIN applied :
     /\ i < j
     /\ Uplink(applied[i]) /\ Uplink(applied[j])
     /\ DeviceAt(applied[i]) = DeviceAt(applied[j])
     => stamp[applied[i]] < stamp[applied[j]]

\* last_seen_at of a device never goes back from one uplink's value to an
\* earlier uplink's: one of the two is a join's, which takes no lock.
LastSeenGoesBackOnlyByJoin ==
  [][\A d \in Device : lastSeen'[d] < lastSeen[d] =>
       \E t, u \in Created : /\ DeviceAt(t) = d /\ pc[t] = "commit"
                             /\ DeviceAt(u) = d /\ stamp[u] = lastSeen[d]
                             /\ "join" \in {KindAt(t), KindAt(u)}]_vars

\* A recorded row that is neither processed nor explained has a task at work
\* on it, as long as no process dies and no database call is lost.
NoAbandonedRow ==
  \A t \in Created : row[t] = "recorded" => t \in Running

\* Every delivery is finished with in the end, whatever fails meanwhile: the
\* permits, the unique index and the device lock block nobody for ever.  With
\* NoAbandonedRow its event is then processed or explained by an error.
EveryDeliveryEnds == \A t \in Task : t \in Created ~> pc[t] = "done"
=============================================================================
