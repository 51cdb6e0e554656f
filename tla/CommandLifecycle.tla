--------------------------- MODULE CommandLifecycle ---------------------------
(***************************************************************************)
(* The life of a device command: the transactions that number it and insert*)
(* its row into device_commands, the dispatcher workers that hand it to    *)
(* ChirpStack while they hold the row's lock, the events ChirpStack and the*)
(* device send back, and the handlers that lock the row in their turn to   *)
(* write those events' verdict on it.                                      *)
(*                                                                         *)
(* A row is identified by its place in the order of created_at, which the  *)
(* flush that inserts it sets, so the queries that ORDER BY created_at take*)
(* the least identifier.  The columns of the table are one function each,  *)
(* with status NONE until the row is committed; a time stamp is kept as    *)
(* "is not NULL".                                                          *)
(***************************************************************************)
EXTENDS Integers, Sequences, FiniteSets

CONSTANTS
  Device,        \* devices that speak CHIRPSTACK
  NoDevice,      \* the device column of a row that does not exist yet
  Creator,       \* transactions that store a location and its commands
  Worker,        \* dispatcher processes (one in docker-compose.yml)
  BatchLimit,    \* CommandDispatcherWorker.batch_limit
  MaxSeq,        \* MAX_COMMAND_SEQ, 65535 in the code
  Ttl,           \* settings.command_default_expires_seconds, in ticks
  Faults,        \* what may go wrong, a subset of AllFaults
  AckStatus,     \* verdicts a device may report, a subset of AllAckStatus
  MaxCommands,   \* bound: rows ever inserted
  MaxItems,      \* bound: queue items ChirpStack ever accepts
  MaxLate,       \* bound: given up calls for one row that may still take effect
  MaxEvents,     \* bound: events ever published
  MaxTime        \* bound: the clock

AllFaults == {"rejected", "unavailable", "late", "lost_reply", "empty_reply",
              "crash", "handler", "uplink"}
AllAckStatus == {"EXECUTED", "DUPLICATE", "REJECTED", "FAILED", "EXPIRED"}

ASSUME ConstantsOK ==
  /\ NoDevice \notin Device
  /\ BatchLimit \in Nat \ {0}
  /\ MaxSeq \in Nat \ {0}
  /\ Ttl \in Nat \ {0}
  /\ Faults \subseteq AllFaults
  /\ AckStatus \subseteq AllAckStatus
  /\ MaxCommands \in Nat
  /\ MaxItems \in Nat
  /\ MaxLate \in Nat
  /\ MaxEvents \in Nat
  /\ MaxTime \in Nat

Command == 1 .. MaxCommands
Terminal == {"ACKED", "FAILED", "EXPIRED"}
Status == {"NONE", "PENDING", "SENT"} \cup Terminal

VARIABLES
  now,           \* the database's and the workers' common clock
  count,         \* rows inserted so far, those rolled back included
  uplink,        \* per creator: the device whose sequence lock it holds
  drafts,        \* per creator: commands added to its session, not flushed
  flushed,       \* per creator: rows it has inserted and not committed
  status, device, seq, expires, queueItem,    \* columns of device_commands
  sentAt, failedAt, ackAt, txAckedAt, lorawanAckAt,  \* "IS NOT NULL"
  pc, cur, left, got,   \* per worker: step, locked row, iterations, reply
  downlinks,     \* ChirpStack: downlinks[q] is the row queue item q carries
  late,          \* per row: calls given up that may still take effect
  emitted,       \* events ChirpStack published on the broker
  handling,      \* those whose handler has locked the row they name
  processed,     \* those whose row in chirpstack_events says processed = TRUE
  dropped        \* those whose handler was rolled back

columns == <<status, device, seq, expires, queueItem>>
stamps == <<sentAt, failedAt, ackAt, txAckedAt, lorawanAckAt>>
creators == <<uplink, drafts, flushed>>
workers == <<pc, cur, left, got>>
network == <<downlinks, late>>
events == <<emitted, handling, processed, dropped>>
vars == <<now, count, creators, columns, stamps, workers, network, events>>

Created == {c \in Command : status[c] # "NONE"}
Item == DOMAIN downlinks

TxAck(q, res) == [kind |-> "txack", item |-> q, res |-> res]
NetAck(q, res) == [kind |-> "ack", item |-> q, res |-> res]
AppAck(q, res) == [kind |-> "app", item |-> q, res |-> res]
UuidAck(c, res) == [kind |-> "uuid", row |-> c, res |-> res]

Event ==
  [kind : {"txack"}, item : Nat \ {0}, res : {"OK", "NOT_OK"}]
    \cup [kind : {"ack"}, item : Nat \ {0}, res : {"ACK", "NACK"}]
    \cup [kind : {"app"}, item : Nat \ {0}, res : AckStatus]
    \cup [kind : {"uuid"}, row : Command, res : AckStatus]

Init ==
  /\ now = 0
  /\ count = 0
  /\ uplink = [t \in Creator |-> NoDevice]
  /\ drafts = [t \in Creator |-> <<>>]
  /\ flushed = [t \in Creator |-> {}]
  /\ status = [c \in Command |-> "NONE"]
  /\ device = [c \in Command |-> NoDevice]
  /\ seq = [c \in Command |-> 0]
  /\ expires = [c \in Command |-> 0]
  /\ queueItem = [c \in Command |-> 0]
  /\ sentAt = [c \in Command |-> FALSE]
  /\ failedAt = [c \in Command |-> FALSE]
  /\ ackAt = [c \in Command |-> FALSE]
  /\ txAckedAt = [c \in Command |-> FALSE]
  /\ lorawanAckAt = [c \in Command |-> FALSE]
  /\ pc = [w \in Worker |-> "idle"]
  /\ cur = [w \in Worker |-> 0]
  /\ left = [w \in Worker |-> 0]
  /\ got = [w \in Worker |-> 0]
  /\ downlinks = <<>>
  /\ late = [c \in Command |-> 0]
  /\ emitted = {} /\ handling = {} /\ processed = {} /\ dropped = {}

\* The row a network event is about carries its queue item id.
IsNetworkTarget(e, c) == queueItem[c] = e.item

\* An application ACK in binary form names its row by the reporting device and
\* the sequence number of the downlink it answers; one that a codec has decoded
\* names it by uuid, and no device is compared with it.
IsAckTarget(e, c) ==
  IF e.kind = "uuid"
    THEN c = e.row
    ELSE device[c] = device[downlinks[e.item]] /\ seq[c] = seq[downlinks[e.item]]

IsReport(e) == e.kind \in {"app", "uuid"}
Names(e, c) == IF IsReport(e) THEN IsAckTarget(e, c) ELSE IsNetworkTarget(e, c)

\* A row is locked by the dispatcher that is sending it or by a handler.
Holding(w) == pc[w] \in {"calling", "accepted"}
Sending(c) == \E w \in Worker : Holding(w) /\ cur[w] = c
Locked(c) == Sending(c) \/ \E e \in handling : Names(e, c)

-----------------------------------------------------------------------------
(* Creation, in the transaction of a location uplink.  The uplink lock lets  *)
(* one uplink of a device in at a time; the numbering does not rely on it.  *)

Flushed == UNION {flushed[t] : t \in Creator}
Unflushed(t) == {drafts[t][i].seq : i \in DOMAIN drafts[t]}

\* What MAX(command_seq) ranges over in transaction t: the committed rows of
\* its device and those it has flushed itself.
Visible(t) ==
  {seq[c] : c \in {b \in Created : device[b] = uplink[t]} \cup flushed[t]}

NumbersTaken(t) == Visible(t) \cup Unflushed(t)

IsLast(n, S) == (\A m \in S : m <= n) /\ (n = 0 \/ n \in S)

LastSeqAvailable == MaxSeq

\* Mutant: the lock ends with the flush instead of with the transaction.
NoDraftOf(d) == \A t \in Creator : uplink[t] = d => drafts[t] = <<>>
LockFree(d) == \A t \in Creator : uplink[t] # d

\* The first allocation of a transaction waits for the device's advisory lock,
\* which is the transaction's until it ends.
TakeSequenceLock(t, d) ==
  /\ uplink[t] = NoDevice
  /\ LockFree(d)
  /\ uplink' = [uplink EXCEPT ![t] = d]
  /\ UNCHANGED <<now, count, drafts, flushed, columns, stamps, workers, network, events>>

\* A command takes the number after the last one and is added to the session.
\* At the last number the allocation raises and the command is skipped: the
\* transaction goes on without it.
AddCommand(t) ==
  \E last \in 0 .. MaxSeq :
    /\ uplink[t] # NoDevice
    /\ IsLast(last, NumbersTaken(t))
    /\ last < LastSeqAvailable
    /\ count + Len(drafts[t]) < MaxCommands
    /\ now + Ttl <= MaxTime
    /\ drafts' = [drafts EXCEPT ![t] = Append(@, [seq |-> last + 1, expires |-> now + Ttl])]
    /\ UNCHANGED <<now, count, uplink, flushed, columns, stamps, workers, network, events>>

\* The session inserts what was added to it, before the next geofence event's
\* commands or for the commit.
Flush(t) ==
  LET new == count + 1 .. count + Len(drafts[t]) IN
  /\ drafts[t] # <<>>
  /\ count + Len(drafts[t]) <= MaxCommands
  /\ count' = count + Len(drafts[t])
  /\ device' = [c \in Command |-> IF c \in new THEN uplink[t] ELSE device[c]]
  /\ seq' = [c \in Command |-> IF c \in new THEN drafts[t][c - count].seq ELSE seq[c]]
  /\ expires' = [c \in Command |-> IF c \in new THEN drafts[t][c - count].expires ELSE expires[c]]
  /\ flushed' = [flushed EXCEPT ![t] = @ \cup new]
  /\ drafts' = [drafts EXCEPT ![t] = <<>>]
  /\ UNCHANGED <<now, uplink, status, queueItem, stamps, workers, network, events>>

EndTransaction(t) ==
  /\ uplink' = [uplink EXCEPT ![t] = NoDevice]
  /\ drafts' = [drafts EXCEPT ![t] = <<>>]
  /\ flushed' = [flushed EXCEPT ![t] = {}]

CommitCommands(t) ==
  /\ uplink[t] # NoDevice
  /\ drafts[t] = <<>>
  /\ status' = [c \in Command |-> IF c \in flushed[t] THEN "PENDING" ELSE status[c]]
  /\ EndTransaction(t)
  /\ UNCHANGED <<now, count, device, seq, expires, queueItem, stamps, workers, network, events>>

\* Whatever fails in the uplink's transaction takes its commands with it.
RollBack(t) ==
  /\ "uplink" \in Faults
  /\ uplink[t] # NoDevice
  /\ EndTransaction(t)
  /\ UNCHANGED <<now, count, columns, stamps, workers, network, events>>

-----------------------------------------------------------------------------
(* The dispatcher's cycle (process_once).                                  *)

\* Mutant: only commands that were never sent expire.
PendingOverdue(c) == status[c] = "PENDING" /\ expires[c] <= now
Overdue(c) == status[c] \notin Terminal /\ expires[c] <= now

\* The oldest unlocked rows that are overdue and not terminal, at most
\* BatchLimit of them, are expired in one committed transaction.
ExpireBatch(w) ==
  LET due == {c \in Created : Overdue(c) /\ ~Locked(c)} IN
  /\ pc[w] = "idle"
  /\ \E batch \in SUBSET due :
       /\ Cardinality(batch) <= BatchLimit
       /\ batch # due => Cardinality(batch) = BatchLimit
       /\ \A a \in batch, b \in due \ batch : a < b
       /\ status' = [c \in Command |-> IF c \in batch THEN "EXPIRED" ELSE status[c]]
       /\ failedAt' = [c \in Command |-> IF c \in batch THEN TRUE ELSE failedAt[c]]
       /\ left' = [left EXCEPT ![w] = BatchLimit - Cardinality(batch)]
       /\ pc' = [pc EXCEPT ![w] = IF Cardinality(batch) < BatchLimit
                                    THEN "pick" ELSE "idle"]
  /\ UNCHANGED <<now, count, creators, device, seq, expires, queueItem, sentAt,
                 ackAt, txAckedAt, lorawanAckAt, cur, got, network, events>>

Candidates == {c \in Created : /\ status[c] = "PENDING"
                               /\ expires[c] > now
                               /\ ~Locked(c)}

IsOldestCandidate(c) == c \in Candidates /\ \A b \in Candidates : c <= b

\* SELECT ... FOR UPDATE SKIP LOCKED LIMIT 1: the row stays locked until the
\* transaction ends, across the call to ChirpStack.
PickPending(w) ==
  /\ pc[w] = "pick"
  /\ \E c \in Created : IsOldestCandidate(c) /\ cur' = [cur EXCEPT ![w] = c]
  /\ pc' = [pc EXCEPT ![w] = "calling"]
  /\ UNCHANGED <<now, count, creators, columns, stamps, left, got, network, events>>

PickNothing(w) ==
  /\ pc[w] = "pick"
  /\ Candidates = {}
  /\ pc' = [pc EXCEPT ![w] = "idle"]
  /\ UNCHANGED <<now, count, creators, columns, stamps, cur, left, got, network, events>>

\* One iteration of the loop is over: commit, release the row, go on or stop.
EndIteration(w) ==
  /\ left' = [left EXCEPT ![w] = @ - 1]
  /\ pc' = [pc EXCEPT ![w] = IF left[w] > 1 THEN "pick" ELSE "idle"]
  /\ cur' = [cur EXCEPT ![w] = 0]
  /\ got' = [got EXCEPT ![w] = 0]

\* ChirpStack stores the queue item; its reply is on the way to the worker.
ChirpStackAccepts(w) ==
  /\ pc[w] = "calling"
  /\ Len(downlinks) < MaxItems
  /\ downlinks' = Append(downlinks, cur[w])
  /\ got' = [got EXCEPT ![w] = Len(downlinks) + 1]
  /\ pc' = [pc EXCEPT ![w] = "accepted"]
  /\ UNCHANGED <<now, count, creators, columns, stamps, cur, left, late, events>>

\* The call was given up, at its deadline or because the dispatcher died, while
\* the request was on its way: ChirpStack may store the item later.
GiveUp(c) ==
  late' = [late EXCEPT ![c] =
             IF "late" \in Faults /\ @ < MaxLate THEN @ + 1 ELSE @]

\* It does so whatever the row has become, and nobody gets the item's id.
TakesEffectLate(c) ==
  /\ late[c] > 0
  /\ Len(downlinks) < MaxItems
  /\ downlinks' = Append(downlinks, c)
  /\ late' = [late EXCEPT ![c] = @ - 1]
  /\ UNCHANGED <<now, count, creators, columns, stamps, workers, events>>

CommitSent(w) ==
  /\ pc[w] = "accepted"
  /\ status' = [status EXCEPT ![cur[w]] = "SENT"]
  /\ queueItem' = [queueItem EXCEPT ![cur[w]] = got[w]]
  /\ sentAt' = [sentAt EXCEPT ![cur[w]] = TRUE]
  /\ failedAt' = [failedAt EXCEPT ![cur[w]] = FALSE]
  /\ EndIteration(w)
  /\ UNCHANGED <<now, count, creators, device, seq, expires, ackAt, txAckedAt,
                 lorawanAckAt, network, events>>

\* A result that is neither sent nor retryable: a refused or unusable request,
\* or a reply that carries no queue item id although the item was stored.
CommitFailed(w) ==
  /\ \/ pc[w] = "calling" /\ "rejected" \in Faults
     \/ pc[w] = "accepted" /\ "empty_reply" \in Faults
  /\ status' = [status EXCEPT ![cur[w]] = "FAILED"]
  /\ failedAt' = [failedAt EXCEPT ![cur[w]] = TRUE]
  /\ EndIteration(w)
  /\ UNCHANGED <<now, count, creators, device, seq, expires, queueItem, sentAt,
                 ackAt, txAckedAt, lorawanAckAt, network, events>>

\* Mutant: a timed out call counts as sent.
CommitAssumedSent(w) ==
  /\ \/ pc[w] = "calling" /\ "unavailable" \in Faults
     \/ pc[w] = "accepted" /\ "lost_reply" \in Faults
  /\ status' = [status EXCEPT ![cur[w]] = "SENT"]
  /\ EndIteration(w)
  /\ UNCHANGED <<now, count, creators, device, seq, expires, queueItem, stamps,
                 network, events>>

\* A retryable result (UNAVAILABLE, DEADLINE_EXCEEDED, ...): the row stays
\* PENDING, also when only the reply of an accepted request was lost.
CommitRetryable(w) ==
  /\ \/ pc[w] = "calling" /\ "unavailable" \in Faults /\ GiveUp(cur[w])
     \/ pc[w] = "accepted" /\ "lost_reply" \in Faults /\ UNCHANGED late
  /\ EndIteration(w)
  /\ UNCHANGED <<now, count, creators, columns, stamps, downlinks, events>>

\* The process dies or the commit fails: the transaction is rolled back.
CycleAborted(w) ==
  /\ "crash" \in Faults
  /\ pc[w] # "idle"
  /\ IF pc[w] = "calling" THEN GiveUp(cur[w]) ELSE UNCHANGED late
  /\ pc' = [pc EXCEPT ![w] = "idle"]
  /\ cur' = [cur EXCEPT ![w] = 0]
  /\ got' = [got EXCEPT ![w] = 0]
  /\ left' = [left EXCEPT ![w] = 0]
  /\ UNCHANGED <<now, count, creators, columns, stamps, downlinks, events>>

-----------------------------------------------------------------------------
(* ChirpStack and the device: which events they may publish, in any order  *)
(* and at any time after what causes them.                                 *)

Publish(e) ==
  /\ e \notin emitted
  /\ Cardinality(emitted) < MaxEvents
  /\ emitted' = emitted \cup {e}
  /\ UNCHANGED <<now, count, creators, columns, stamps, workers, network,
                 handling, processed, dropped>>

Transmit(q, res) == Publish(TxAck(q, res))

\* A confirmed downlink that was transmitted is acknowledged or given up.
AcknowledgeFrame(q, res) ==
  /\ TxAck(q, "OK") \in emitted
  /\ \A e \in emitted : ~(e.kind = "ack" /\ e.item = q)
  /\ Publish(NetAck(q, res))

\* The device answers a downlink it received once; it says DUPLICATE only to
\* a sequence number it has answered before.
Report(q, res) ==
  /\ TxAck(q, "OK") \in emitted
  /\ \A e \in emitted : ~(e.kind = "app" /\ e.item = q)
  /\ res = "DUPLICATE" =>
       \E e \in emitted : e.kind = "app" /\ downlinks[e.item] = downlinks[q]
  /\ Publish(AppAck(q, res))

\* A report that a codec of ChirpStack has decoded carries a uuid.  No downlink
\* carries one, so nothing ties it to what the device was sent.
ReportByUuid(c, res) == c \in Created /\ Publish(UuidAck(c, res))

-----------------------------------------------------------------------------
(* The event handlers.  deduplicationId makes each event handled at most    *)
(* once; an event that was lost on the way, or stored and not processed (no *)
(* row carries its queue item id yet, the device is inactive or of another  *)
(* application) is one that is never handled.                               *)

\* SELECT ... FOR UPDATE waits for whoever has the row and keeps it locked
\* until the handler's transaction ends.
LockRow(e, c) ==
  /\ e \in emitted \ (handling \cup processed \cup dropped)
  /\ Names(e, c)
  /\ ~Locked(c)
  /\ handling' = handling \cup {e}
  /\ UNCHANGED <<now, count, creators, columns, stamps, workers, network,
                 emitted, processed, dropped>>

MarkProcessed(e) ==
  /\ e \in handling
  /\ handling' = handling \ {e}
  /\ processed' = processed \cup {e}
  /\ UNCHANGED <<now, count, creators, device, seq, expires, queueItem, workers,
                 network, emitted, dropped>>

\* The handler fails or its process dies: the row is as it was, the event is
\* stored and a copy of it is skipped.
HandlerFails(e) ==
  /\ "handler" \in Faults
  /\ e \in handling
  /\ handling' = handling \ {e}
  /\ dropped' = dropped \cup {e}
  /\ UNCHANGED <<now, count, creators, columns, stamps, workers, network,
                 emitted, processed>>

\* Mutant: the terminal check is missing.
FailAlways(c) ==
  /\ status' = [status EXCEPT ![c] = "FAILED"]
  /\ failedAt' = [failedAt EXCEPT ![c] = TRUE]

\* A bad network event fails the command unless its status is terminal.
FailUnlessTerminal(c) ==
  IF status[c] \in Terminal
    THEN UNCHANGED <<status, failedAt>>
    ELSE /\ status' = [status EXCEPT ![c] = "FAILED"]
         /\ failedAt' = [failedAt EXCEPT ![c] = TRUE]

HandleTxAck(e, c) ==
  /\ e.kind = "txack"
  /\ IsNetworkTarget(e, c)
  /\ IF e.res = "OK"
       THEN /\ txAckedAt' = [txAckedAt EXCEPT ![c] = TRUE]
            /\ UNCHANGED <<status, failedAt>>
       ELSE FailUnlessTerminal(c) /\ UNCHANGED txAckedAt
  /\ UNCHANGED <<sentAt, ackAt, lorawanAckAt>>
  /\ MarkProcessed(e)

\* A positive LoRaWAN acknowledgement leaves the status alone.
HandleNetworkAck(e, c) ==
  /\ e.kind = "ack"
  /\ IsNetworkTarget(e, c)
  /\ IF e.res = "ACK"
       THEN /\ lorawanAckAt' = [lorawanAckAt EXCEPT ![c] = TRUE]
            /\ UNCHANGED <<status, failedAt>>
       ELSE FailUnlessTerminal(c) /\ UNCHANGED lorawanAckAt
  /\ UNCHANGED <<sentAt, ackAt, txAckedAt>>
  /\ MarkProcessed(e)

Verdict(res) ==
  CASE res \in {"EXECUTED", "DUPLICATE"} -> "ACKED"
    [] res = "EXPIRED" -> "EXPIRED"
    [] OTHER -> "FAILED"

\* failed_at after an ACK: cleared by success, set by failure, kept by EXPIRED.
FailedStampAfter(res, stamp) ==
  CASE Verdict(res) = "ACKED" -> FALSE
    [] Verdict(res) = "FAILED" -> TRUE
    [] OTHER -> stamp

\* The verdict overwrites whatever status the row has.
HandleApplicationAck(e, c) ==
  /\ IsReport(e)
  /\ IsAckTarget(e, c)
  /\ status' = [status EXCEPT ![c] = Verdict(e.res)]
  /\ ackAt' = [ackAt EXCEPT ![c] = @ \/ Verdict(e.res) = "ACKED"]
  /\ failedAt' = [failedAt EXCEPT ![c] = FailedStampAfter(e.res, @)]
  /\ UNCHANGED <<sentAt, txAckedAt, lorawanAckAt>>
  /\ MarkProcessed(e)

-----------------------------------------------------------------------------
Tick ==
  /\ now < MaxTime
  /\ now' = now + 1
  /\ UNCHANGED <<count, creators, columns, stamps, workers, network, events>>

CreatorStep(t) ==
  \/ \E d \in Device : TakeSequenceLock(t, d)
  \/ AddCommand(t) \/ Flush(t) \/ CommitCommands(t) \/ RollBack(t)

\* What a worker does on its own; CycleAborted is done to it.
WorkerStep(w) ==
  \/ ExpireBatch(w) \/ PickPending(w) \/ PickNothing(w)
  \/ ChirpStackAccepts(w) \/ CommitSent(w) \/ CommitFailed(w) \/ CommitRetryable(w)

Environment ==
  \/ \E q \in Item :
       \/ \E res \in {"OK", "NOT_OK"} : Transmit(q, res)
       \/ \E res \in {"ACK", "NACK"} : AcknowledgeFrame(q, res)
       \/ \E res \in AckStatus : Report(q, res)
  \/ \E c \in Command, res \in AckStatus : ReportByUuid(c, res)

\* A handler that has its row ends, one way or the other.
EndHandling ==
  \E e \in handling :
    \/ HandlerFails(e)
    \/ \E c \in Created :
         HandleTxAck(e, c) \/ HandleNetworkAck(e, c) \/ HandleApplicationAck(e, c)

Next ==
  \/ \E t \in Creator : CreatorStep(t)
  \/ \E w \in Worker : WorkerStep(w) \/ CycleAborted(w)
  \/ \E c \in Command : TakesEffectLate(c)
  \/ Environment
  \/ \E e \in emitted, c \in Created : LockRow(e, c)
  \/ EndHandling
  \/ Tick

Spec == Init /\ [][Next]_vars

\* The workers' loop runs for ever (restart: unless-stopped), a call to
\* ChirpStack ends by its timeout at the latest, a handler that has its row waits
\* for nothing but the database, which ends the transaction of a dead process,
\* and time passes.  Nothing is assumed of ChirpStack, of the devices, of the
\* delivery of events or of the transactions that create commands.
FairSpec ==
  /\ Spec /\ WF_vars(Tick) /\ WF_vars(EndHandling)
  /\ \A w \in Worker : WF_vars(WorkerStep(w))

-----------------------------------------------------------------------------
(* Properties.                                                             *)

\* Every variable keeps its type; the columns are those of models/device_command.py.
TypeOK ==
  /\ now \in Nat
  /\ count \in 0 .. MaxCommands
  /\ uplink \in [Creator -> Device \cup {NoDevice}]
  /\ drafts \in [Creator -> Seq([seq : 1 .. MaxSeq, expires : Nat])]
  /\ flushed \in [Creator -> SUBSET Command]
  /\ status \in [Command -> Status]
  /\ device \in [Command -> Device \cup {NoDevice}]
  /\ seq \in [Command -> 0 .. MaxSeq]
  /\ expires \in [Command -> Nat]
  /\ queueItem \in [Command -> Nat]
  /\ sentAt \in [Command -> BOOLEAN]
  /\ failedAt \in [Command -> BOOLEAN]
  /\ ackAt \in [Command -> BOOLEAN]
  /\ txAckedAt \in [Command -> BOOLEAN]
  /\ lorawanAckAt \in [Command -> BOOLEAN]
  /\ pc \in [Worker -> {"idle", "pick", "calling", "accepted"}]
  /\ cur \in [Worker -> 0 .. MaxCommands]
  /\ left \in [Worker -> 0 .. BatchLimit]
  /\ got \in [Worker -> Nat]
  /\ downlinks \in Seq(Command)
  /\ late \in [Command -> Nat]
  /\ emitted \subseteq Event
  /\ handling \cup processed \cup dropped \subseteq emitted

\* A number is given out once per device, whichever transactions allocate at the
\* same time and whether its row is committed, inserted or still only in a
\* session: so no uplink fails on the unique constraint, and an ACK that names a
\* number has one command to settle (allocate_next_command_seq).
SeqUnique ==
  /\ \A c1, c2 \in Created \cup Flushed :
       device[c1] = device[c2] /\ seq[c1] = seq[c2] => c1 = c2
  /\ \A t \in Creator : \A i \in DOMAIN drafts[t] :
       /\ \A c \in Created \cup Flushed :
            device[c] = uplink[t] => seq[c] # drafts[t][i].seq
       /\ \A s \in Creator : \A j \in DOMAIN drafts[s] :
            uplink[s] = uplink[t] /\ drafts[s][j].seq = drafts[t][i].seq
              => s = t /\ i = j

\* While a worker waits for ChirpStack, the command it is sending is PENDING, no
\* other worker is sending it and no handler is changing it; and no two handlers
\* change one row at a time (the row locks of process_once and of the handlers).
LocksExclusive ==
  /\ \A w \in Worker : Holding(w) => cur[w] \in Created /\ status[cur[w]] = "PENDING"
  /\ \A v, w \in Worker : Holding(v) /\ Holding(w) /\ cur[v] = cur[w] => v = w
  /\ \A w \in Worker, e \in handling : Holding(w) => ~Names(e, cur[w])
  /\ \A e, f \in handling, c \in Created : Names(e, c) /\ Names(f, c) => e = f

\* The queue item id on a row is one ChirpStack gave for that very command; a
\* SENT row has one and a PENDING row has none, so no network event can reach
\* a command that is being sent (_enqueue_command).
ItemCorrelates ==
  \A c \in Created :
    /\ queueItem[c] # 0 => queueItem[c] \in Item /\ downlinks[queueItem[c]] = c
    /\ status[c] = "SENT" => queueItem[c] # 0
    /\ status[c] = "PENDING" => queueItem[c] = 0

\* A txack or ack counts as processed only on the row that carries its queue
\* item id; those of a downlink whose reply was lost stay unprocessed
\* (_resolve_command_for_network_event).
NetworkEventsCorrelate ==
  \A e \in processed :
    ~IsReport(e) => e.item \in Item /\ queueItem[downlinks[e.item]] = e.item

\* The reports applied so far that are about command c.
Subject(e) == IF e.kind = "uuid" THEN e.row ELSE downlinks[e.item]
ReportsOn(c) == {e \in processed : IsReport(e) /\ Subject(e) = c}

\* Once a device's own report has been applied to a command, its status is the
\* verdict of such a report: neither expiry, nor a late txack or NACK, nor a
\* dispatcher that was sending it again replaces it.
DeviceReportWins ==
  \A c \in Created :
    ReportsOn(c) # {} => \E e \in ReportsOn(c) : status[c] = Verdict(e.res)

\* A command counts as executed only after a report that it was, from the device
\* it was handed over to or from one that names its uuid: no txack, LoRaWAN
\* acknowledgement, reply or expiry makes it ACKED (_apply_ack_to_command).
AckedOnlyByReport ==
  \A c \in Created : status[c] = "ACKED" =>
    \E e \in ReportsOn(c) : e.res \in {"EXECUTED", "DUPLICATE"}

\* The time stamps tell the same story as the status, whichever way a command
\* came to it: an ACKED command has ack_at and no failed_at, a FAILED one has
\* failed_at, an open one has neither.
StampsAgree ==
  \A c \in Created :
    /\ status[c] = "ACKED" => ackAt[c] /\ ~failedAt[c]
    /\ status[c] = "FAILED" => failedAt[c]
    /\ status[c] \in {"PENDING", "SENT"} => ~ackAt[c] /\ ~failedAt[c]
    /\ status[c] = "SENT" => sentAt[c]

\* A command that was settled is never open again, and one that was sent never
\* goes back to PENDING, whatever overtakes whatever (TERMINAL_STATUSES).
NeverReopened ==
  [][\A c \in Command :
       /\ status[c] \in Terminal => status'[c] \in Terminal
       /\ status[c] = "SENT" => status'[c] # "PENDING"]_vars

\* Without crashes, lost replies and late effects no command is queued twice,
\* however many dispatchers run (SKIP LOCKED and the lock kept across the call).
AtMostOneDownlink ==
  \A p, q \in Item : downlinks[p] = downlinks[q] => p = q

\* Every command is settled in the end, even if ChirpStack never answers and
\* the device is silent: the dispatcher expires what is overdue.
EveryCommandSettles ==
  \A c \in Command : status[c] = "PENDING" ~> status[c] \in Terminal

-----------------------------------------------------------------------------
\* Calls on their way to ChirpStack, whether a dispatcher still waits or not.
UnderWay ==
  {c \in Command : late[c] > 0 \/ \E w \in Worker : pc[w] = "calling" /\ cur[w] = c}

Reported == {c \in Command : \E e \in emitted : e.kind = "uuid" /\ e.row = c}

\* What the rows, the calls under way, ChirpStack's queue and the reports
\* together show to the issuer of a command.
Contract == INSTANCE CommandContract WITH
  asked <- UnderWay,
  handed <- {downlinks[q] : q \in Item},
  named <- Reported

\* The dispatchers, the handlers, late effects and their interleavings keep the
\* contract: ChirpStack is asked for a command only while it is PENDING, SENT is
\* never claimed of a command ChirpStack was not given, and only a report
\* revises a settled status.
KeepsContract == Contract!Spec
=============================================================================
