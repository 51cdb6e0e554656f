# Verification of the tracking and geofence service

The service follows animals that carry LoRaWAN devices. A device sends its position through
ChirpStack; a worker stores it, compares it with the geofences of the animal ("asset"), and, when the
animal's status changes, records an event and creates commands for the device; a second worker hands
the commands to ChirpStack; ChirpStack and the device report back what became of them. Users manage
devices, assets, fences and groups through an HTTP API and watch positions over web sockets.

This directory holds TLA+ models of the parts of that program where order, concurrency and failure
matter, TLC runs that check them on small instances, and TLAPS proofs of their main properties for
every instance. Paths such as `src/service/...` are relative to the repository. `PROJECT.json` maps
every definition to the lines it stands for.

Contents: [1 the system](#1-the-system), [2 the modules](#2-the-modules),
[3 correspondence](#3-state-actions-and-the-code), [4 runs and bounds](#4-runs-and-bounds),
[5 fairness](#5-fairness), [6 proofs](#6-proofs), [7 limits](#7-abstractions-and-limits),
[8 what is left](#8-what-is-left).

## 1 The system

### Processes and what they share

| process | entry point | concurrency inside |
|---|---|---|
| API | `main.py` | one asyncio loop: HTTP requests, the periodic session clean-up job, the Redis subscriber, web sockets |
| ChirpStack event worker | `chirpstack_event_worker/main.py` | one asyncio loop, a task per MQTT message, a semaphore of `processing_concurrency` |
| command dispatcher | `command_dispatcher_worker/main.py` | one loop, one command at a time; compose starts one process, the code allows several |

All share one PostgreSQL database (READ COMMITTED; sessions with `autoflush=False`, so a query does
not see an unflushed change, and `expire_on_commit=False`, so objects keep the values they were read
with) and Redis (location channel, one-use web socket tickets). ChirpStack is reached over MQTT
(events in) and gRPC (queue items and provisioning out). Every service has
`restart: unless-stopped`.

```
 device --LoRa--> ChirpStack --MQTT--> event worker --SQL--> PostgreSQL <--SQL-- API <-- users
   ^                  ^                    |                     ^                ^
   |                  |                    +--publish--> Redis --+--subscribe-----+
   +--downlink--------+--gRPC-- command dispatcher --SQL---------+
```

### Components

**Command dispatcher** (`command_dispatcher_worker/main.py`). *State*: none but the rows it locks.
*Operations*: expire overdue commands in batches; pick the oldest PENDING row under
`FOR UPDATE SKIP LOCKED`, enqueue it in ChirpStack while the lock is held, commit SENT, FAILED or
nothing. *Hard*: a gRPC call inside a transaction (reply lost, process dies between the call and the
commit), several dispatchers, a retryable failure at the head of the queue. *Correct when*: no row has
two senders, a row says SENT only of what ChirpStack has, settled rows stay settled, every command is
settled in the end. → `CommandLifecycle`.

**Downlink transport and gRPC client** (`src/infrastructure/downlink`,
`src/integrations/chirpstack/api_client.py`). Stateless; classifies every gRPC outcome into sent,
rejected or retryable. *Hard*: "retryable" covers a deadline that passes before or after the item is
stored, so an item may appear when the row says something else by then; a reply without id is a failure
although the item was stored. → the transport part of
`CommandLifecycle`.

**Command creation and sequence numbers** (`src/service/device_command_service.py`,
`device_command_sequence_service.py`). 16-bit numbers per device, the last one plus 1 under an advisory
lock that the transaction keeps. *Hard*: the last number is that of a committed row, of one the transaction has
inserted, or of one still in its session, which no query sees. *Correct when*: an ACK, which carries only the number, names one command of the device;
exhaustion refuses. → `CommandLifecycle`.

**Command ACK service** (`src/service/device_command_ack_service.py`). Writes the device's verdict
whatever the row's status. *Hard*: it races with expiry, NACKs, dispatchers and other verdicts.
*Correct when*: a device's own report is never replaced by the network's or the clock's.
→ `CommandLifecycle`.

**Event worker and event service** (`chirpstack_event_worker/main.py`,
`src/integrations/chirpstack/service.py`). *State*: `chirpstack_events`, `devices.last_seen_at`, tasks.
*Operations*: record an event once (unique `deduplication_id`), apply it in a second transaction, save
the error in a third, announce a location on Redis. *Hard*: QoS duplicates in overlapping tasks, acks
before work, a commit whose reply is lost, tasks of one device that overlap. *Correct when*: an event is
applied once, `processed` tells the truth, a device's uplinks keep their order, only committed
locations are announced, nothing blocks for ever. → `EventIngest`.

**Geofence evaluation** (`src/service/geofence_evaluation_service.py`). *State*:
`geofence_asset_states`, `geofence_events`. *Hard*: two devices evaluate one pair of fence and asset
when one of them was moved meanwhile; first insert under a race; rows deleted by users; fences locked
in no stated order. *Correct when*: the events tell the stored status and exits and returns alternate.
→ `GeofenceAlarms`.

**Geofence membership, fences and groups** (`geofence_membership_service.py`, `crud_geofence.py`,
`asset_group_service.py`). Direct and group assignments of fences, replacement of a group's members,
clean-up of states that are no longer in effect. *Hard*: the clean-up reads before the flush; sets
replaced without locks. → `GeofenceMembership`;
`GeofenceAlarms` keeps the coarser view that evaluations need.

**Device and asset assignment** (`device_assignment_service.py`, `crud_device.py`). *State*:
`devices.asset_id`, `devices.active`, `device_asset_assignments`. *Operations*: assign, release, create
with a first assignment, deactivate. *Hard*: requests that swap devices, an asset that is free when
checked and taken when written, a deactivation that read an old row. *Correct when*: the current
assignment and the one open row of history agree, the history never overlaps, an active device carries
an asset. → `DeviceAssignment`.

**Device provisioning** (`device_provisioning_service.py`). `provisioning_status` PENDING → PROVISIONED
or FAILED around gRPC calls, with retries and no undo. *Hard*: partial remote state, concurrent
retries, calls that take effect after they were given up, `update_device` meanwhile. *Correct when*:
PROVISIONED is said only of a device ChirpStack holds with keys, and a retry completes every partial
state. → `Provisioning`.

**User sessions** (`crud_user.py`, `session_cleanup_job.py`). Refresh tokens in `user_sessions`: a limit
of active sessions, rotation with a 5 s grace for repeated requests, logout, deactivation, clean-up.
*Hard*: logins and rotations that overlap, logout without a lock, clean-up of rows others refer to.
*Correct when*: a token is rotated once, its repetition gets the same replacement, what survives a
logout overlapped it, the limit is exceeded only by requests that overlap. → `UserSessions`.

**Realtime gateway** (`src/realtime`, `realtime_auth_service.py`, `realtime_location_publisher.py`).
One-use tickets (`GETDEL`, 60 s), per-client sets of sockets that change while a send waits, a
subscriber that reconnects, a pool of database connections that sockets hold. *Correct when*: a ticket
opens one socket, a socket gets its client's locations in order and once, connections are given back,
the subscriber always listens again. → `RealtimeGateway`.

**Access control** (`rbac_service.py`, `utils/validations.py`). Roles, services and their assignments;
requests that race on unique constraints. *Correct when*: a pair has one row, and an answer can be
relied on. → `AccessControl`.

**Analytics** (`src/application/analytics`). Pure functions on time stamps: which intervals were observed,
how observed time falls into buckets, how large the buckets are. No router calls them yet.
→ `TemporalAnalytics`, `TemporalSampling`.

**Binary protocol** (`src/integrations/chirpstack/*codec*`, `*encoder*`, `decoder.py`; on the other side
`infra/chirpstack-simulator/payload.go`) and the **LoRaWAN device**
(`infra/chirpstack-simulator/device.go`): two programs in two languages that must read the same bytes
alike, and a device of several goroutines. → `DeviceProtocol`, `DeviceSimulator`.

**Clients, assets, administration**, the **HTTP layer**, **configuration, migrations and deployment** and
the **scripts**: single-row operations, translation, settings and tools; not modelled (section 7).

## 2 The modules

| module | models | theorems |
|---|---|---|
| `CommandContract` | abstract: what a command promises its issuer | |
| `CommandLifecycle` | creation, dispatchers, ChirpStack's queue, events and ACK handlers; implements `CommandContract` | `CommandLifecycle_proofs` |
| `EventIngest` | the event worker: delivery, permits, transactions, device lock, announcement | `EventIngest_proofs` |
| `GeofenceAlarms` | evaluation of locations against fences, with users changing fences and devices meanwhile | `GeofenceAlarms_proofs` |
| `GeofenceMembership` | groups, fences, their associations and the clean-up of states | `GeofenceMembership_proofs` |
| `DeviceAssignment` | requests that move devices between assets, and the history they write | `DeviceAssignment_proofs` |
| `Provisioning` | rows of devices, ChirpStack's devices and keys, provisioning, retries and edits | `Platform_proofs` |
| `UserSessions` | the refresh sessions of a user: login, rotation, reuse, logout, deactivation, clean-up | `UserSessions_proofs` |
| `RealtimeGateway` | tickets, sockets, the connection pool, the subscriber and its dispatch | `RealtimeGateway_proofs` |
| `AccessControl` | roles, services, assignments, the check of access | `Platform_proofs` |
| `TemporalSampling`, `TemporalAnalytics` | the size of buckets; continuity and observed time | `Platform_proofs` |
| `DeviceProtocol` | payloads between server and device | `Platform_proofs` |
| `DeviceSimulator` | the device's goroutines: frames, numbers, acknowledgements, keys, channels | `Platform_proofs` |
| `MC*` | the constants, instances and symmetries of the runs | |

The models meet at these interfaces, each checked or proved on one side and assumed on the other:

* `EventIngest` handles events as opaque kinds. What a txack, ack or command ACK does to its command is
  `CommandLifecycle`'s `LockRow` and `Handle...`, where an event is applied once at most (`processed`): that is
  `AppliedAtMostOnce`, proved in `EventIngest_proofs`.
* `GeofenceAlarms` lets one task per device evaluate at a time (`~Evaluating(d)`): that is the advisory
  lock of `EventIngest`, whose exclusion is the conjunct `LockOK` of its proved invariant.
* `GeofenceAlarms!Move` changes one device's asset to a free one: `MovesOneDevice`, proved of
  `DeviceAssignment` as `OneMoveAtATime`. Its guard `~Evaluating(d)` is the foreign key of the inserted
  location, whose lock on the device's row conflicts with the assignment's `FOR UPDATE`.
* `GeofenceAlarms` sees one membership per pair that requests switch on and off. `GeofenceMembership` shows
  how the pairs in effect come from three tables, and which evaluation stores a state too late (`Look`,
  `StoreState` are its view of `GeofenceAlarms`).
* An event of `GeofenceAlarms` creates its commands in the same transaction: it is a `Creator` of
  `CommandLifecycle`, which numbers, flushes, commits or rolls back any list of commands for any device.
* `CommandLifecycle` correlates an ACK by a 16-bit number: `DeviceProtocol` shows that number and device
  survive the encoding (`AckNamesTheCommand`), `SeqUnique` that the number names one command.
* `DeviceSimulator` is the device side of the same exchange: every command that is heard is answered, and once.
* `Provisioning` begins where the row is committed; the first assignment of its asset is `Ask`/`CommitMove`
  of `DeviceAssignment`.
* `RealtimeGateway!Publish` publishes committed locations only: `AnnounceOnce`, proved of `EventIngest`. Its
  sessions end by the requests of `UserSessions`.

## 3 State, actions and the code

### CommandLifecycle

A row of `device_commands` is its place in creation order, each column is a function on rows, and a
time stamp is "is not NULL". A creator (the transaction of a location uplink) has the device whose sequence
lock it holds (`uplink`), commands in its session (`drafts`) and rows inserted and not committed (`flushed`). A
worker has a step `pc`, the row it locked `cur`, the iterations `left` in its cycle and the queue item it `got`.
`downlinks` is ChirpStack's queue as a sequence, `late[c]` the calls for row `c` that were given up and may still
take effect; `emitted` are the events published, `handling` those whose handler has locked its row, `processed`
those whose handler committed and `dropped` those whose handler was rolled back.

| code | actions |
|---|---|
| `allocate_next_command_seq`, `create_commands_for_geofence_event` | `TakeSequenceLock`, `AddCommand` |
| `evaluate_location`'s flush, the end of the uplink's transaction | `Flush`, `CommitCommands`, `RollBack` |
| `_expire_pending_commands` | `ExpireBatch` |
| `process_once`: select, call, commit | `PickPending`, `PickNothing`, `ChirpStackAccepts`, `CommitSent`, `CommitFailed`, `CommitRetryable` |
| a call that is given up and stored later | `GiveUp`, `TakesEffectLate` |
| crash, failed commit, `except` in `run_forever` | `CycleAborted` |
| `_resolve_command_for_network_event` and the ACK service's selects (`FOR UPDATE`) | `LockRow` |
| txack and ack handlers | `HandleTxAck`, `HandleNetworkAck` |
| `DeviceCommandAckService` | `HandleApplicationAck` |
| a handler that is rolled back | `HandlerFails` |
| ChirpStack, network and device (external) | `Transmit`, `AcknowledgeFrame`, `Report`, `ReportByUuid` |

`Faults` switches what may go wrong: a call refused, unavailable, given up and stored later (`late`), a reply lost after
the item was stored, a reply without id, a dispatcher's crash, a failed handler, a failed uplink. An event that is
lost, or stored and never applied (its row was not committed yet, the device is inactive), is an element of
`emitted` that never enters `processed`. A report by uuid names any row: no device is compared with it.

### EventIngest

Task `t` is the `t`-th delivery and owns at most one row of `chirpstack_events`. `pc[t]` walks through
`handle_event`; `row[t]` is none, inserted (uncommitted), recorded, processed or failed; `stamp[t]` is
the `_utcnow()` its effects carry; `applied` and `announced` are histories. Each commit, wait and
failure of `handle_event`, `_process_event` and `_mark_event_error` is an action: `CheckExists`,
`InsertRow`, `CommitRow`/`RecordFails`, `Reject`, `Resolve`, `AcquireLock`, `Process`,
`CommitEffects`/`CommitReplyLost`/`ProcessingFails`, `MarkError`/`MarkErrorFails`,
`Announce`/`StaySilent`. `Crash` ends every task and rolls back what was not committed.

### GeofenceAlarms

`status[p]` is the row of `geofence_asset_states` of pair `p` of fence and asset, `log[p]` its events since
the row was inserted; `draft[t]` and `says[t]` are what task `t` has written and not committed, which is
also the set of rows it has locked. Statements are actions: `Receive` (the device and its asset are
read, before the lock), `Begin` (the lock, the location, the fences in effect), `InsertState`
(`INSERT ... ON CONFLICT DO NOTHING` that inserts) or `FindState` (that does not) and `LockState`
(`SELECT ... FOR UPDATE`), `Commit`, and the ways out: `Fail`, `StateVanished` (`scalar_one` finds the
row gone), `DeadlockVictim`. Users: `Move`, `Assign`, `BeginUnassign`/`FinishUnassign` (the clean-up reads
before it deletes), `SetFenceActive`, `DeleteFence`. The geometry is a choice among the statuses the
accuracy allows (`Judgements`), so every sequence of positions is covered.

### DeviceAssignment

`carries`, `active` and `exists` are columns of `devices`; `history` is `device_asset_assignments`, with
`Open` for a NULL `unassigned_at`. A request locks (`LockDevice`), reads what it needs into `was`, looks for
another holder and waits for its row (`CheckAvailable`, `MeetRival`, `RivalLeft`, `RivalStays`), takes its
time, writes the device's row where the partial unique index admits, delays or refuses it (`WriteDevice`,
`IndexRefuses`), and commits row and history together (`CommitMove`). `NothingToMove` is the early
return. `deactivate_device` is `ReadActive` and `SwitchOff`, without a lock and writing only an attribute
that differs from what was read, as the ORM does.

### GeofenceMembership

The tables of members, of groups linked to fences and of direct assignments have one shape: `rows[k]` are the
rows of key `k`, dead or live, in the order of insertion, and a partial unique index admits one live row.
A request is a record `req[r]`: what it was asked (`op`, `at`, `keys`), what it has read (`fences`, `groups`,
`pairs`) and what its commit will write (`kill`, `revive`, `insert`, `drop`), because `autoflush=False` keeps
all writes until then.

| code | actions |
|---|---|
| `update_asset_group`, `add_members`, `remove_members`, `set_asset_group_active` | `ReplaceMembers`, `AddMembers`, `RemoveMembers`, `SetGroupActive`; then `ReadFences`, `ReadMembers`, `ReadRemoved`, `ReadGroupAssets` |
| `assign_groups_to_geofence`, `remove_groups_from_geofence` | `AssignGroups`, `RemoveGroups`; then `Validate`, `ReadAssigned`, `ReadUnassigned`, `ReadAssetsOfGroup` |
| `assign_assets`, `deactivate_assignment` | `AssignAssets`, `DeactivateAssignment` |
| `delete_state_if_unassigned` | `HasEffectiveAssignment`, `FindState`, one pair at a time |
| `set_geofence_active`, `delete_geofence`, `create_*` | `SetFenceActive`, `DeleteFence`, `CreateFence`, `CreateGroup` |
| commit, `IntegrityError` | `Commit`, `Refuse` |
| an evaluation that stores a state | `Look`, `StoreState` |

`rival` and `lapsed` are histories: the keys that others changed, and the pairs that were out of effect, since
a request began.

### Provisioning

`row[d]` is the row of `devices`, `remote[e]` ChirpStack's device under a DevEUI with its key, `req[r].was` the
object as the request loaded it: a commit writes only what differs from it (`Merge`). `provision_device` is
`ProvisionDevice` and then `Load`; `retry_provisioning` is `RetryProvisioning`, `MarkPending`, `Load`.
`_upsert_remote_device` and `_ensure_remote_keys` are `CreateDevice`, `GetDevice`, `UpdateDevice`, `EnsureKeys`,
`UpdateKeys`, each with the values of the object; `CallFails` is any of them failing without effect, after
its effect, or with an effect still to come (`late`, `TakesEffectLate`). `MarkFailed`, `MarkProvisioned` and
`Abort` are the ends, `EditDevice` is `update_device`. `overlap`, `edited`, `tardy` are histories that name the
exceptions of the properties.

### UserSessions

A session is a row of `user_sessions` and stands for its token. A statement that locks takes a snapshot
(`todo`), locks row after row (`LockNext`; in the order of issue where the query says so), looks again at a
row it waited for, and the transaction's changes become visible at its commit.

| code | actions |
|---|---|
| `auth_user`, `create_refresh_session` | `Ask`, `Count`, `Login` |
| `enforce_active_session_limit` | `Count`, `LockNext`, `Excess` |
| `rotate_refresh_session` | `FindSession`, `LockSession`, `LockUser`, `Count`, `Rotate` |
| `_reuse_recently_rotated_session` | `Reuse`, `AnswerReplacement`, `Refuse` |
| `revoke_refresh_session` (no lock) | `FindToRevoke`, `NothingToRevoke`, `RevokeSession`, `RowGone` |
| `deactivate_user`, `reactivate_user` | `MarkSessions`, `Deactivate`, `Reactivate` |
| `delete_stale_sessions` | `Unlink`, `SelectStale`, `DeleteStale` |
| errors, PostgreSQL's deadlock detector | `Fail`, `DeadlockVictim` |

`origin` is the login a session descends from; `met` says that a logout or deactivation was in progress while
the request that made it, or one it descends from, ran.

### RealtimeGateway

`proc[p]` is a handler, of a ticket request or of a socket, and its steps are its awaits: `AskTicket`,
`GetActiveUserSession`, `ValidateAccess`, `StoreTicket`; `ConsumeTicket` (`GETDEL`), the same two queries,
`Connect`, `Disconnect`. `pool` are the requests that hold a database connection: from their first query to
the end of the request, which for a socket is its closing. `sub` is the subscriber: `Subscribe`, `Receive`
(`send_to_client` copies the set of sockets), `Send` (one socket, after which anything may have
happened), `DropFailed`. Redis may fail before or after a command (`StoreFails`, `ConsumeFails`), forget a
ticket (`Expire`), lose messages and the subscription (`LoseMessages`, `ListenFails`); `Restart` ends every handler.

### AccessControl

`create_role`, `create_service` are `Create` (the unique name decides), `assign_*` is `CheckFirst`,
`CheckSecond`, `SelectAssignment`, `Write`, each a query of its own; `HasAccess` is
`validate_user_service_access`. `ToggleUser` deactivates a user under a request.

### TemporalSampling and TemporalAnalytics

The functions are operators with the names of the code: `CalculateBucketResolution`, `EstimateCadence`,
`Assess`, `Spans`, `FloorBucketStart`, `Segments`, `Buckets`. What steps is their input: a window widens, devices are
added, an observation arrives. The while loop of the bucketing is a recursive function. `Slice` is `deltas[from:to]` and keeps
the places of the series; `Ranked` is an order statistic by counting, and `Median2` the mean of the two middle ones, doubled
to stay an integer.

### DeviceProtocol and DeviceSimulator

A payload is a sequence of bytes. `SendCommand`, `AckCommand` and `ReadUplink` apply the encoders and decoders
of both sides, each translated from its own source: Python's `struct` formats and ranges, and Go's
`binary.BigEndian` (`Bytes16`, `Bytes32`); `Uint16`, `Int32` and `Byte` are the ranges of their integer types. `Alter` makes a payload that of another firmware: one byte differs, or some are missing or
added.

In the simulator the parts of a step that take the mutex are actions of their own, and so is every access without it. A frame
takes the flag (`UplinkTakesAck`, `AnswerTakesAck`) and its number (`UplinkTakesCount`, `AnswerTakesCount`) under the mutex, then
reads address, application key and network key one after the other without it (`UplinkReadsPart`, `AnswerReadsPart`), and waits
for room in the channel (`UplinkPushes`, `AnswerPushes`). `joinAccept` is `JoinAcceptArrives`, which accepts the answer to an
older request too (the MIC of a LoRaWAN 1.0 accept does not cover the nonce), `DerivesAppSKey` and `DerivesNwkSKey`, which each read the
nonce as it is then, `StoresPart` under the mutex (`Locked`), which readers without it see in any order, and `JoinAcceptActivates`. A
part of a session is named by the accept it comes from and by the request whose nonce it was derived with. `DownlinkData` raises the flag
and starts an answer, or none (`silent`) when the payload is empty or has no readable number.

`Line` is what the network was sent and will be: the frames published, in the sender's hands and in the channel; `Waiting` are the
goroutines with a numbered frame that is not in line yet. `FramesSound` says of both that a number is that of one frame and none
gets lost, that locations keep their order, that a command has one answer at most, that acknowledgements are owed, and that each part
of a frame's session is one that an accepted join gave, though the parts may be those of two joins.

## 4 Runs and bounds

No replacement of definitions is used; bounds are constants that occur in guards. Deadlock checking is
off where the modelled system may be idle for ever (no uplink, no delivery, no request), and each such
configuration says why. In `CommandLifecycle` the dispatcher's loop never stops, so it stays on.

| run | instance | properties | distinct states |
|---|---|---|---|
| `commands` | 1 device, 1 creator, 2 workers, 2 commands, 2 items, 1 late call a row, 2 events, batch 1, every fault but a failed uplink | `ItemCorrelates`, `DeviceReportWins`, `KeepsContract` | 2,408,094 |
| `numbering_and_settling` | 1 device, 2 creators, 2 workers, 3 commands, numbers up to 2, 1 item, 1 event, every fault | `SeqUnique`, `EveryCommandSettles` | 311,673 |
| `ingest` | a location, a status without id, a join, a log; 3 deliveries, 2 permits, every fault | `AppliedAtMostOnce`, `ProcessedMeansApplied`, `UplinksInOrder`, `EveryDeliveryEnds` | 181,484 |
| `alarms` | 2 devices, 2 tasks, 1 asset, 2 fences locked in either order, 3 uplinks, 2 changes by users | `StatusMatchesLog`, `AlarmsAlternate`, `EveryEvaluationEnds` | 762,832 |
| `assignment` | 2 devices, 2 assets, 2 requests at a time, 5 in all, 2 instants | `CurrentMatchesHistory`, `OnePlaceAtATime`, `EveryRequestEnds` | 488,160 |
| `sessions` | 2 requests at a time, 4 in all, limit 1, three instants, every period 1 | `OneLivePerLogin`, `SameAnswer`, `SurvivorsOverlap`, `LimitBound`, `EveryRequestEnds` | 403,684 |
| `membership` | 2 requests, 2 assets, 1 group, 1 fence, keys with and without a live row before | `OutcomeAsAsked`, `StateSurvivesCover`, `DeletedWatchesNothing`, `RefusedForARival` | 278,098 |
| `provisioning` | 3 requests, 2 devices, 1 DevEUI, 2 keys, 2 places, 1 late call | `ProvisionedIsThere`, `KeyShown`, `RetryCompletes` | 449,969 |
| `provisioning_failed_time` | 3 requests, 1 device | `FailedHasNoTime`: violated, see below | |
| `realtime` | 2 tickets, 2 sockets, 1 other request, a pool of 2, 2 locations | `TicketUsedOnce`, `PoolGivenBack`, `FeedInOrder`, `ListensAgain` | 535,776 |
| `access_and_analytics` | 4 requests, 1 user, 2 roles, 2 services; the code's sixteen sizes and limits on 13 windows and 16 numbers of devices; series of up to 7 observations with 5 intervals, 12 charts | `AnswersGiveAccess`, `SmallestThatFits`, `BucketsCountSeconds`, `OldVerdictsStay` | 336,200 |
| `device` | numbers at the ends of their ranges, every alteration of a payload; channels of 1, 2 frames, 2 joins, 1 command | `ReadAlike`, `AckNamesTheCommand`, `UplinksArrive`, `FramesSound`, `LoopsServe` | 281,009 |

`access_and_analytics` and `device` check modules that share nothing: `part`, chosen initially, says which of
them moves. That saves nothing but runs, and each part is explored completely.

Why the bounds suffice.

* *Commands*: a fault needs one command, its consequences a second dispatcher or a second command behind
  it; two items for one command are a repeated downlink, one of them stored late. Times 0..1 with a ttl of 1 put sending
  and expiry before, at and after the deadline. In `numbering_and_settling` two transactions number the
  commands of one device; two numbers for three rows are exhausted, by rows that are committed, inserted or not flushed, and given
  out again after a transaction that rolled back. Devices do not share numbers or locks, so a second one adds nothing.
* *Ingest*: three deliveries are two twins and a third that interferes; two permits are the fewest that
  overlap and that three tasks can exhaust.
* *Alarms*: rows lock pairwise and a pair's log depends on its own uplinks; deadlocks need two fences; three
  uplinks let one device leave and return while another's uplink interferes.
* *Assignment*: a ring of waits, a swap and a stolen asset need two devices and two assets; five requests let a
  device be created, moved, released and moved again while another follows.
* *Sessions*: the races are between two requests (rotations of one token, a rotation and a logout, two
  logins); two more make the sessions they meet. With a limit of 1 every login revokes. A clean-up that
  could delete a linked row needs more sessions than that: it is proved instead (`CleanUpKeepsReplacements`).
* *Membership*: a request can only be wrong about a key that another one changes meanwhile, or about a pair
  covered twice; one group beside a direct assignment covers a pair twice, and the second asset is the
  one that must not be touched. `MaxRows` 2 lets a row die and another be inserted.
* *Provisioning*: a DevEUI that moves from one row to another needs two devices and an edit; three requests are
  two that overlap after one that left a partial state.
* *Realtime*: two sockets are one that fails in a dispatch and one that must not be affected; a pool of two
  with one other request is exhausted; two locations have an order.
* *Access*: two requests race on a row, two more complete the chain from user to service.
* *Analytics*: the windows of evidence are 4 long, so 7 observations have an interval with a full window on
  one side and a partial one on the other; `Steps` holds 0 (a duplicate), regular, jittered and silent intervals; the
  series begins before the epoch.
* *Device*: byte widths are exercised at 0, 1, 255, 256, 65535, 65536 and beyond, signed fields on both sides of 0;
  a channel of one is full at once; a location and one answer at a time are two goroutines for the flag and the counter.

Beyond the bounds the theorems hold. Each property has a mutant in `PROJECT.json`: a lock, an order, a check
or a reset removed from the model, after which TLC must find the property violated. Mutated definitions are
marked `Mutant` in the modules and used nowhere else.

### A disagreement with a test

`_mark_failed` (`device_provisioning_service.py:262`) sets `provisioned_at` to None. The object was loaded when
the column was NULL, so the ORM sees no change and writes nothing; if another retry of the device committed
PROVISIONED with its time meanwhile, the row ends as FAILED with a `provisioned_at`.
`tests/test_chirpstack_device_provisioning_service.py:266` states the opposite of a failed device. The run
`provisioning_failed_time` shows the shortest such behaviour.

### What the runs taught besides

* A device may execute a command that the service calls FAILED or EXPIRED (reply without id, late
  answer, a call that was given up and stored later); its report then corrects the row, which is why `CommandContract` lets
  `Answer` revise a settled status, and a command may be handed over more than once.
* A report that names a command by uuid is applied whichever device sent it (`device_command_ack_service.py:30`, `:102`): nothing
  compares the two, so the contract allows an answer for every command that such a report names.
* Network events of a downlink whose reply was lost never find their command and stay unprocessed.
* `last_seen_at` may go back through a join, which takes no device lock.
* A commit whose reply is lost leaves effects under a row that says failed, and a process that dies
  between the two transactions leaves a row unprocessed that no redelivery repairs: hence
  `ProcessedMeansApplied` and `NothingAbandoned` name the faults they exclude.
* An asset that leaves a fence and then gives an uncertain position gets no RETURNED event.
* Overlapping logins exceed the session limit, by at most the number of them that overlap less one. A
  session created while its user is being deactivated survives, and so does the replacement of one whose
  logout it overlaps; both end by expiry. A web socket that is open stays open when its session ends, and an
  access token keeps `is_admin` until it expires.
* Two rotations of one user's sessions can deadlock when the limit makes each revoke the other's; PostgreSQL aborts one
  and the client is answered with an error.
* A pool of fifteen connections is shared by all requests and all open web sockets of the process: the
  sixteenth waits and is refused after `pool_timeout`.
* A state that an evaluation stores just after the pair went out of effect stays until the next removal; it is
  read by nobody meanwhile.
* The resolution search falls back to the smallest bucket when no bucket meets the target
  (`temporal_sampling.py:118`): 7500 devices over 31 hours get the bucket of 24 h, 7501 one of 12 h. The five numbers of
  `test_temporal_sampling.py:131` do not meet the edge.
* In the simulator, frames may reach the network out of counter order, and one may carry the address of one join and a key of
  another, because `sendDataFrame` reads them after the mutex is released (`device.go:355-367`).
* A join-accept that answers an older request passes its check, and the keys are derived with the newer nonce: the device is
  activated with keys the network does not have, which hears none of its frames until a later accept arrives.
* `enqueueUplink` does not see the end of the context and a publication waits for its token without a time-out
  (`gateway.go:100`, with `SetAutoReconnect`): a device that is stopped while the broker is away keeps its sender, and a loop that then
  waits for room in the channel never ends. `LoopsServe` says what is left: the loop for downlinks always ends, the loop for
  uplinks ends if the channel has room for every goroutine that still pushes, and answers and sender need publications that end.

## 5 Fairness

* `CommandLifecycle`: weak fairness of the clock, of each worker's steps and of the end of a handler that has locked its
  row. `run_forever` catches every exception, compose restarts the process, a gRPC call ends at its deadline, and a
  handler waits for nothing but the database, which ends the transaction of a dead process. Crashes are not
  bounded: because expiry is the first statement of every cycle, a worker that is restarted for ever
  still expires. Nothing is assumed of ChirpStack, the devices, the delivery of events or the transactions that create commands.
* `EventIngest`: weak fairness of each task: the event loop runs what is ready and PostgreSQL ends every
  statement. asyncio's semaphore is first-in first-out, and the model says so. `EveryDeliveryEnds` holds with every
  fault, because a failed or crashed task is over; that its event is then processed or explained is
  `NothingAbandoned`, which excludes crashes and lost database calls.
* `GeofenceAlarms`, `DeviceAssignment`, `UserSessions`: weak fairness of each transaction, including the abort of one
  member of a ring of waits (`deadlock_timeout`). A lock is not granted in order, but the bounded number
  of uplinks and requests excludes starvation by an endless stream of rivals, for which PostgreSQL's
  lock queues are responsible.
* `RealtimeGateway`: weak fairness of the subscriber's steps, of each send and of each socket that finds its browser
  gone. A send ends because uvicorn closes a socket whose pings are not answered; Redis is reachable again at some time.
  Nothing is assumed of browsers, users or publications.
* `DeviceSimulator`: weak fairness of each goroutine, as Go's scheduler gives it, and strong fairness of the sends
  to a channel: room appears and may be taken by another sender, but a channel serves its waiting senders in turn.
  Nothing makes a publication end: that publications end is a premise (`PublicationsEnd`) of the two parts of `LoopsServe` that need it.

## 6 Proofs

Every theorem is `Spec => ...` for all values of the constants; the only assumption of each module is its
`ConstantsOK` or the like (types of the constants, and that the "none" values are none). Each invariant is
proved by `Init => IInv`, `IInv /\ [Next]_vars => IInv'` (one lemma per action or per family of actions
of the same shape) and `IInv => Inv`.

* **`CommandLifecycle_proofs`**. `IInv` is the type invariant, `TransactionsOK` (what a creator has added or inserted is
  of the device whose lock it holds, which no other creator does), `RowsOK` (a committed row has a device and a number,
  the others are blank), `LoopsOK` (a worker that holds a row is in a cycle and knows its item), `QueueOK` (items, late calls and events belong to
  created rows), `HandlersOK` and `SendersOK` (who has locked a row is alone), and the invariants themselves, which need each other: a
  handler of a network event cannot touch a PENDING row because such a row has no queue item (`ItemCorrelates`), a handler of a
  report waits for the worker that sends it, and a row is PENDING while it is sent because of the row lock
  (`LocksExclusive`). Theorems: `TypeCorrect`, `ExclusiveLocks`, `UniqueNumbers`, `Correlation`, `NetworkCorrelation`, `DeviceDecides`,
  `AckNeedsReport`, `StampsConsistent`, `NothingReopened` (an action property), and `ImplementsContract`: every step is a step of
  `CommandContract` or a stutter, where `asked` are the rows with a call under way (`UnderWay`, the given up ones included), `handed`
  those with a queue item in ChirpStack and `named` those a report by uuid names. `HandedOverOnce` holds under a condition on the
  constants that it states (`CallsAnswered`: no dispatcher dies, no reply is lost and no call takes effect late, then no command
  is enqueued twice, by an invariant that gives the item of a PENDING row to the worker that holds it).
* **`EventIngest_proofs`**. `RowsOK` ties a task's step to its row, `TwinsOK` gives an identified event one
  row, `AppliedOK` and `AnnouncedOK` tie the histories to the rows, `LockOK` says that the holder of a
  device's lock is alone and later than everything applied, `LastSeenOK` that `last_seen_at` is somebody's
  stamp. Theorems: `TypeCorrect`, `ApplyOnce`, `ProcessedIsApplied`, `AnnounceOnce`, `UplinkOrder`,
  `LastSeenOrder` (an action property), and `NothingAbandoned`: without crashes and lost database calls a
  recorded event always has a task at work on it.
* **`GeofenceAlarms_proofs`**. `Exclusive` (a row has one uncommitted writer) makes `SaysFollow` (a draft's
  event is the transition from the *committed* status) inductive, and the lemma `LogStep` says that
  appending such an event keeps the log alternating and telling the status. Theorems: `TypeCorrect`,
  `StatusAndEvents`, `Alternation`, `OneWriter`.
* **`DeviceAssignment_proofs`**. `RequestsOK` says what a request knows of the row it locked (its asset is
  still `was`; its time is not before anything in the device's history), `LocksOK`, `CreatesOK` and `IndexOK`
  that locks and uncommitted index entries exclude each other, `TablesOK` what the committed tables
  satisfy. Theorems: `TypeCorrect`, `HistoryAgrees`, `HistoryDisjoint`, `ActiveDevices`,
  `OneDevicePerAsset`, `OneMoveAtATime`.
* **`UserSessions_proofs`**. `Exclusive` (row locks), `RotatorHolds` (a rotation past its join holds its session,
  unrevoked, and the user), `Origins`, `Answered` (a token that was answered is revoked, and what is linked or about to
  be answered was answered before), `Overlap` and `Closing` (what a logout or deactivation in progress says of
  the requests it meets). Theorems: `TypeCorrect`, `RotatedOnce`, `OneAnswerPerToken`, `OnlyOverlapSurvives`, and
  `CleanUpKeepsReplacements` by two more invariants: a rotation never leaves a replacement older than the row
  that names it (`Linked`), and what the second statement of the clean-up deletes beyond the first is named by
  nobody (`Erasing`). `LimitKept`, for any finite set of requests, counts: `LeftBy(r)` is how many live sessions a request
  that has counted leaves beside its own if it commits now, and at most `m` requests leave more than all but `m` of them can
  account for (`Behind`): a commit puts each of the others one session further behind, but none behind itself.
* **`GeofenceMembership_proofs`**. `RequestOK` says that what a request has read and is about to write is
  explained by the tables, by `rival` or by `lapsed`; with `OneLiveRow` it gives `OneRow`, `Deleted`, `AsAsked` (the outcome
  of every request but for the keys others changed), `Refusals` (`RefusedForARival`: the unique index refuses only
  for a rival or for the dictionary's choice among several rows) and `StatesSurvive`.
* **`RealtimeGateway_proofs`**. `TicketsOK`, `AdmissionOK`, `PoolOK`, `SocketsOK` and `FeedOK` (what is in the inbox is later
  than anything sent, and a dispatch has sent its message to exactly the sockets it is done with). Theorems: `Typing`,
  `OneSocketPerTicket`, `Admission`, `Connections`, `Registry`, `InOrder`, `Reaches`.
* **`Platform_proofs`** holds the proofs about the smaller modules, one part each.
  * *Access control*: `RowsOK` (ids are unique and below the next one, a pair has one row) and `AccessRequestOK`. Theorems:
    `AccessTyping`, `NoSecondRow`, `Reliable`.
  * *Provisioning*: `SagaInv`. A request acts on the object it loaded. What its earlier calls found in ChirpStack stays there
    (`OnTheWay`); its row is the one it loaded unless somebody edited it (`OfItsRow`, `edited`); a device that no two requests
    were about has one request at most, which knows the only key (`AloneOK`, `overlap`), and no other request calls for its
    DevEUI (`OwnEui`), nor changes its key unless a call took effect late (`OwnKey`, `tardy`). Theorems: `SagaTyping`,
    `ShownIsThere`, `ShownIsTheKey`, and `LeftoversDoNotBlock` (an action property: a retry fails only for a failed call, a missing
    key or DevEUI, or a device that ChirpStack has elsewhere).
  * *Sampling*: `SmallestChosen`. The code selects candidates by a product and judges them by a quotient rounded up; the product
    leaves out no size that meets the target (`CeilCovers`, `TargetIsCandidate`), and the answer is the least that does.
  * *Continuity*: `VerdictsAreFinal` (an appended observation changes no interval in a closed window: `DeltasGrow`), and
    `EvidenceIsSymmetric`: a median depends only on how many values lie below each, and the reversal of time is a bijection
    that keeps those numbers (`Mirrored`).
  * *Buckets*: `EverySecondOnce`. The loop (a recursive function) and the sums (folds) are chosen functions; that a function
    satisfies their equations is shown from a smallest counterexample (`CutsExist`, `SumTableExists`). Then `SumCounts` turns a sum
    of lengths into the number of seconds of a union without overlap, `SegmentsCutUp` says that the loop cuts a span
    into segments that overlap nowhere and lie each in one bucket, `FloorIsUnique` that a second lies in one bucket.
    Observations are in order (`InOrder`), before the epoch too.
  * *Protocol*: `ProtocolTyping`, `CommandsReadAlike`, `AcksName`, `UplinksKept`. Lemmas about the codecs say what a decoder of
    one side reads from the bytes of an encoder of the other, for *every* number of the width (`Halves`, `TwoDigits`, `PairBack`,
    `QuartersBack`: two's complement and base 256), and that no decoder accepts the kind or the length of another's payload;
    `ProtocolInv` says that what is under way was made by the encoder or altered. Assumes `BytesOK`, `ValuesOK`: a
    device's numbers are of the types of its variables, a caller's are integers that need not fit.
  * *Simulator*: `SimIInv`. What is under way downlink is about a command nobody answers yet (`DownInv`), the session's parts and those
    a goroutine has read are of accepted joins (`FrameKeysInv`), because the session is `Complete` once somebody may use it (`KeysInv`), the number of a frame in line or in hands is below the
    counter (`FramesInv`), and the acknowledgements in line, those goroutines have taken and the flag are together
    no more than the confirmed downlinks that were heard (`AcksInv`): a flag that is raised has one of these to itself.
    Every step is of one of a few kinds (`Kinds`): it leaves the numbered frames alone, makes one, reads a part of one, pushes one,
    or loses the one in the sender's hands and stops the device. Theorems: `SimulatorTypes`, `OneFrameForEachNumber`,
    `LocationsKeepOrder`, `OneAnswerPerCommand`, `AcknowledgementsAreOwed` and, with the parts of the frames, `DeviceFramesSound`, for
    channels of any capacity and any number of joins, frames and commands.

Several of these theorems state properties that no run lists (`EvidenceIsSymmetric`, `StampsConsistent`, `AnnounceOnce`,
`OneMoveAtATime`, `Registry`, ...): they hold for every instance, so none needs checking on a small one.

Assumptions on constants beyond the types (`InputsOK`, `ObservationConstants`, `BytesOK`, `ValuesOK`) are what the code's own
validation or types admit, and TLC evaluates them in the runs. Every invariant and every action property that a passing run
checks is stated by a theorem.

Model-checked only: liveness under fairness, which is beyond the prover (`EveryCommandSettles`, `EveryDeliveryEnds`,
`EveryEvaluationEnds`, `EveryRequestEnds`, `ListensAgain`, `LoopsServe`).

## 7 Abstractions and limits

* Time in `CommandLifecycle` is one clock for database and workers; in `EventIngest` each reading of the
  clock is later than the one before; in `DeviceAssignment` and `UserSessions` instants may coincide. Clocks that
  are set back are not modelled.
* Expiry's select and commit are one step: its rows are locked in between, and nothing else of the cycle
  runs. A dispatcher's lock is modelled from its selection of the row to the end of the transaction, a handler's from its `FOR UPDATE`.
* A command's number is taken and its row added in one step, between two awaits of one transaction that has the device's
  lock. `created_at` is set by the flush, whose rows are numbered in its order.
* Which commands an event type creates, payload texts and topics are abstracted.
* A pair of fence and asset in `GeofenceAlarms` is in effect by one membership, direct or by group;
  `GeofenceMembership` has the tables.
* The device row and the history rows of a request are flushed together, so the partial unique indexes
  of the history refuse exactly what the index on `devices.asset_id` refuses.
* `reactivate_device` is not an action: `AssetStatus` is not imported in `crud_device.py`, so the call raises
  before it changes anything.
* In `Provisioning` requests interleave between any two calls. The gRPC client blocks, so one API process
  interleaves less; several processes interleave like the model. `update_device` is one step there: its own
  read and commit enclose no call.
* In `UserSessions` only one user's rows occur: no statement but the clean-up's touches two users, and that one
  treats each row for itself. A repeated request is refused at will, which stands for another fingerprint.
* In `RealtimeGateway` the origin check of a socket is a choice; a session has one client, or none for an administrator.
* Analytics use exact arithmetic: the code divides floating-point seconds. `TemporalSampling` counts in minutes,
  which divide every size in the run's list.
* The protocol leaves out base64, rounding of coordinates to 1e-7 degrees, and texts. The simulator leaves out routes, its
  configuration file and the gateway's TxAck, which says nothing of the device; its join nonces, random numbers of 16 bits, are
  numbered in the order of the requests, so two that coincide are left out. Each part of a session is read and written whole: the
  tearing of one key by Go's data race is not modelled.
* Not modelled: **clients, assets and administration** (single-row operations; `update_device` may change the client of
  a device that carries an asset of the old one, without a lock, and no document forbids it), the **HTTP layer** (which requests reach a
  service is in the services' models), **database, Redis and deployment** (settings; what the models take from them is
  stated above), **scripts** (tools run by hand; the payloads two of them build are in `DeviceProtocol`).

## 8 What is left

1. The refinement between `GeofenceMembership` and `GeofenceAlarms`: the pairs in effect implement `member` and `fence`, and
   `StoreState` a commit of an evaluation.
2. The composition of `DeviceSimulator` with `CommandLifecycle`: the device's goroutines as the source of `Report`.
