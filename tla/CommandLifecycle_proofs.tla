------------------------ MODULE CommandLifecycle_proofs ------------------------
(***************************************************************************)
(* Proofs about CommandLifecycle for every set of devices, transactions and*)
(* workers, any batch limit, sequence range, time to live and choice of    *)
(* faults.                                                                 *)
(***************************************************************************)
EXTENDS CommandLifecycle, FiniteSetTheorems, TLAPS

-----------------------------------------------------------------------------
(* The inductive invariant.                                                *)

\* A device's sequence lock has one holder; drafts and uncommitted rows are
\* those of a holder, for the device it holds.
TransactionsOK ==
  /\ \A s, t \in Creator : uplink[s] = uplink[t] /\ uplink[s] # NoDevice => s = t
  /\ \A t \in Creator : uplink[t] = NoDevice => drafts[t] = <<>> /\ flushed[t] = {}
  /\ \A t \in Creator : \A c \in flushed[t] :
       status[c] = "NONE" /\ device[c] = uplink[t] /\ seq[c] > 0 /\ c <= count

\* Rows that exist have a device and a number; the others are blank.
RowsOK ==
  /\ \A c \in Created : device[c] \in Device /\ seq[c] > 0 /\ c <= count
  /\ \A c \in Command \ Created : queueItem[c] = 0 /\ ~failedAt[c] /\ ~ackAt[c]

\* A worker inside its loop has an iteration left, and a reply it has received
\* is for the row it holds.
LoopsOK ==
  \A w \in Worker :
    /\ pc[w] # "idle" => left[w] > 0
    /\ pc[w] = "accepted" => got[w] \in Item /\ downlinks[got[w]] = cur[w]

\* Queue items and calls under way are for commands that exist, events are
\* about items or commands that exist.
QueueOK ==
  /\ \A q \in Item : downlinks[q] \in Created
  /\ \A c \in Command : late[c] > 0 => c \in Created
  /\ \A e \in emitted : IF e.kind = "uuid" THEN e.row \in Created ELSE e.item \in Item

\* An event being handled names its row, which is the row of no other handler
\* and of no dispatcher.
HandlersOK ==
  \A e \in handling :
    /\ ~IsReport(e) => queueItem[Subject(e)] = e.item
    /\ \A w \in Worker : Holding(w) => cur[w] # Subject(e)
    /\ \A f \in handling : Subject(f) = Subject(e) => f = e

\* A row that is being sent is PENDING and has one sender.
SendersOK ==
  /\ \A w \in Worker : Holding(w) => cur[w] \in Created /\ status[cur[w]] = "PENDING"
  /\ \A v, w \in Worker : Holding(v) /\ Holding(w) /\ cur[v] = cur[w] => v = w

IInv ==
  /\ TypeOK
  /\ TransactionsOK
  /\ SeqUnique
  /\ RowsOK
  /\ LoopsOK
  /\ QueueOK
  /\ HandlersOK
  /\ SendersOK
  /\ ItemCorrelates
  /\ NetworkEventsCorrelate
  /\ DeviceReportWins
  /\ AckedOnlyByReport
  /\ StampsAgree

-----------------------------------------------------------------------------
\* The invariant holds when the service starts with an empty table.
LEMMA InitIInv == Init => IInv
<1> SUFFICES ASSUME Init PROVE IInv
  OBVIOUS
<1> USE ConstantsOK DEF Init, Item, Command
<1>1. TypeOK
  BY DEF TypeOK, Event, Status
<1>2. Created = {}
  BY DEF Created
<1>3. TransactionsOK /\ RowsOK /\ LoopsOK /\ QueueOK /\ HandlersOK /\ SendersOK
  BY <1>2 DEF TransactionsOK, RowsOK, LoopsOK, QueueOK, HandlersOK, SendersOK, Holding
<1>4. SeqUnique
  BY <1>2 DEF SeqUnique, Flushed
<1>5. ItemCorrelates /\ NetworkEventsCorrelate
  BY <1>2 DEF ItemCorrelates, NetworkEventsCorrelate
<1>6. DeviceReportWins /\ AckedOnlyByReport /\ StampsAgree
  BY <1>2 DEF DeviceReportWins, AckedOnlyByReport, StampsAgree
<1>. QED
  BY <1>1, <1>3, <1>4, <1>5, <1>6 DEF IInv

\* The row an event is about exists; a row it names is that one.
LEMMA SubjectExists ==
  ASSUME IInv, NEW e \in emitted
  PROVE  Subject(e) \in Created
BY DEF IInv, QueueOK, Subject

LEMMA TargetIsSubject ==
  ASSUME IInv, NEW e \in emitted, NEW c \in Created, Names(e, c)
  PROVE  /\ c = Subject(e)
         /\ ~IsReport(e) => e.item \in Item /\ queueItem[c] = e.item /\ status[c] # "PENDING"
<1>1. CASE e.kind = "uuid"
  BY <1>1 DEF Names, IsReport, IsAckTarget, Subject
<1>2. CASE e.kind = "app"
  <2>1. e.item \in Item /\ downlinks[e.item] \in Created
    BY <1>2 DEF IInv, QueueOK
  <2>. QED
    BY <1>2, <2>1 DEF Names, IsReport, IsAckTarget, Subject, IInv, SeqUnique
<1>3. CASE ~IsReport(e)
  <2>1. e.kind # "uuid" /\ e.item \in Item /\ queueItem[c] = e.item
    BY <1>3 DEF IsReport, IInv, QueueOK, Names, IsNetworkTarget
  <2>2. e.item # 0
    BY <2>1 DEF IInv, TypeOK, Item
  <2>. QED
    BY <2>1, <2>2 DEF Subject, IInv, ItemCorrelates
<1>. QED
  BY <1>1, <1>2, <1>3 DEF IsReport

\* Numbering and rows survive a step that inserts, commits and numbers nothing.
LEMMA NumberingFrame ==
  ASSUME IInv, UNCHANGED <<count, creators, device, seq>>,
         \A c \in Command : status'[c] = "NONE" <=> status[c] = "NONE"
  PROVE  Created' = Created /\ TransactionsOK' /\ SeqUnique'
<1>1. Created' = Created
  BY DEF Created
<1>2. Flushed' = Flushed
  BY DEF Flushed, creators
<1>3. \A t \in Creator : flushed[t] \subseteq Command
  BY DEF IInv, TypeOK
<1>. QED
  BY <1>1, <1>2, <1>3 DEF IInv, TransactionsOK, SeqUnique, creators

\* The conjuncts that speak of rows, queue items and events only.
TableOK ==
  /\ TransactionsOK /\ SeqUnique /\ RowsOK /\ QueueOK
  /\ ItemCorrelates /\ NetworkEventsCorrelate
  /\ DeviceReportWins /\ AckedOnlyByReport /\ StampsAgree

\* They survive any step that leaves rows, queue items and handled events alone.
LEMMA TableFrame ==
  ASSUME IInv,
         UNCHANGED <<count, creators, columns, stamps, downlinks, emitted, processed>>,
         \A c \in Command : late'[c] > 0 => c \in Created
  PROVE  TableOK'
<1> USE DEF columns, stamps, Item
<1>1. Created' = Created /\ TransactionsOK' /\ SeqUnique'
  BY NumberingFrame
<1>2. RowsOK' /\ QueueOK'
  BY <1>1 DEF IInv, RowsOK, QueueOK
<1>3. ItemCorrelates' /\ NetworkEventsCorrelate'
  BY <1>1 DEF IInv, ItemCorrelates, NetworkEventsCorrelate, IsReport
<1>4. \A c : ReportsOn(c)' = ReportsOn(c)
  BY DEF ReportsOn, Subject, IsReport
<1>5. DeviceReportWins' /\ AckedOnlyByReport' /\ StampsAgree'
  BY <1>1, <1>4 DEF IInv, DeviceReportWins, AckedOnlyByReport, StampsAgree
<1>. QED
  BY <1>1, <1>2, <1>3, <1>5 DEF TableOK

\* A command that does not exist has no reports.
LEMMA ReportsExist ==
  ASSUME IInv, NEW c, c \notin Created
  PROVE  ReportsOn(c) = {}
<1> SUFFICES ASSUME NEW e \in ReportsOn(c) PROVE FALSE
  OBVIOUS
<1>1. e \in emitted /\ Subject(e) = c
  BY DEF ReportsOn, IInv, TypeOK
<1>. QED
  BY <1>1, SubjectExists

-----------------------------------------------------------------------------
(* Creation.                                                               *)

\* A creator's step that keeps the numbering, and leaves the rows there are as
\* they are, keeps the invariant.
LEMMA CreatorFrame ==
  ASSUME IInv, TypeOK', TransactionsOK', SeqUnique',
         UNCHANGED <<queueItem, stamps, workers, network, events>>,
         \A c \in Created : /\ status'[c] = status[c]
                            /\ device'[c] = device[c]
                            /\ seq'[c] = seq[c]
                            /\ c <= count',
         \A c \in Command \ Created :
            \/ status'[c] = "NONE"
            \/ /\ status'[c] = "PENDING"
               /\ device'[c] \in Device /\ seq'[c] > 0 /\ c <= count'
  PROVE  IInv'
<1> USE DEF workers, network, events, stamps, Item
<1>1. Created \subseteq Created' /\ \A c \in Created' \ Created : c \in Command /\ status'[c] = "PENDING"
  BY DEF Created
<1>2. RowsOK'
  BY <1>1 DEF IInv, RowsOK, Created
<1>3. LoopsOK' /\ QueueOK'
  BY <1>1 DEF IInv, LoopsOK, QueueOK
<1>4. HandlersOK' /\ SendersOK'
  <2>1. HandlersOK'
    BY DEF IInv, HandlersOK, Holding, Subject, IsReport
  <2>2. SendersOK'
    BY <1>1 DEF IInv, SendersOK, Holding
  <2>. QED
    BY <2>1, <2>2
<1>5. ItemCorrelates' /\ NetworkEventsCorrelate'
  <2>1. ItemCorrelates'
    BY <1>1 DEF IInv, ItemCorrelates, RowsOK
  <2>2. NetworkEventsCorrelate'
    BY DEF IInv, NetworkEventsCorrelate, IsReport
  <2>. QED
    BY <2>1, <2>2
<1>6. \A c : ReportsOn(c)' = ReportsOn(c)
  BY DEF ReportsOn, Subject, IsReport
<1>7. \A c \in Created' \ Created : ReportsOn(c) = {}
  BY ReportsExist
<1>8. DeviceReportWins' /\ AckedOnlyByReport'
  BY <1>1, <1>6, <1>7 DEF IInv, DeviceReportWins, AckedOnlyByReport
<1>9. StampsAgree'
  BY <1>1 DEF IInv, StampsAgree, RowsOK
<1>. QED
  BY <1>2, <1>3, <1>4, <1>5, <1>8, <1>9 DEF IInv

\* What TypeOK says of the variables a creator changes.
Draft == [seq : 1 .. MaxSeq, expires : Nat]

CreatorTypes ==
  /\ count \in 0 .. MaxCommands
  /\ uplink \in [Creator -> Device \cup {NoDevice}]
  /\ drafts \in [Creator -> Seq(Draft)]
  /\ flushed \in [Creator -> SUBSET Command]
  /\ status \in [Command -> Status]
  /\ device \in [Command -> Device \cup {NoDevice}]
  /\ seq \in [Command -> 0 .. MaxSeq]
  /\ expires \in [Command -> Nat]

LEMMA CreatorTyped ==
  ASSUME IInv
  PROVE  /\ CreatorTypes
         /\ (CreatorTypes' /\ UNCHANGED <<now, queueItem, stamps, workers, network, events>> => TypeOK')
BY DEF IInv, TypeOK, CreatorTypes, Draft, stamps, workers, network, events, Command, Event

LEMMA DraftTyped ==
  ASSUME IInv, NEW t \in Creator, NEW i \in DOMAIN drafts[t]
  PROVE  drafts[t][i].seq \in 1 .. MaxSeq /\ drafts[t][i].expires \in Nat
<1>1. drafts[t] \in Seq(Draft)
  BY CreatorTyped DEF CreatorTypes
<1>2. drafts[t][i] \in Draft
  BY <1>1
<1>. QED
  BY <1>2 DEF Draft

\* Taking the sequence lock keeps the invariant: the device had no holder.
LEMMA TakeLockIInv ==
  ASSUME IInv, NEW t \in Creator, NEW d \in Device, TakeSequenceLock(t, d)
  PROVE  IInv'
<1>1. /\ uplink[t] = NoDevice /\ \A s \in Creator : uplink[s] # d
      /\ uplink' = [uplink EXCEPT ![t] = d]
      /\ UNCHANGED <<now, count, drafts, flushed, columns, stamps, workers, network, events>>
  BY DEF TakeSequenceLock, LockFree
<1> USE DEF columns
<1>2. drafts[t] = <<>> /\ flushed[t] = {}
  BY <1>1 DEF IInv, TransactionsOK
<1>3. uplink'[t] = d /\ \A s \in Creator \ {t} : uplink'[s] = uplink[s]
  BY <1>1 DEF IInv, TypeOK
<1>4. d # NoDevice
  BY ConstantsOK
<1>5. TypeOK'
  <2>1. CreatorTypes'
    BY <1>1, CreatorTyped DEF CreatorTypes
  <2>. QED
    BY <1>1, <2>1, CreatorTyped
<1>6. TransactionsOK'
  BY <1>1, <1>2, <1>3, <1>4 DEF IInv, TransactionsOK
<1>7. SeqUnique'
  <2>1. Created' = Created /\ Flushed' = Flushed /\ drafts' = drafts
    BY <1>1 DEF Created, Flushed
  <2>2. \A s \in Creator : \A i \in DOMAIN drafts[s] : s # t
    BY <1>2
  <2>. QED
    BY <1>1, <1>3, <2>1, <2>2 DEF IInv, SeqUnique
<1>. QED
  BY <1>1, <1>5, <1>6, <1>7, CreatorFrame DEF IInv, RowsOK, Created

\* What a transaction sees of its device's numbers is all of them.
LEMMA SeesAll ==
  ASSUME IInv, NEW t \in Creator, uplink[t] # NoDevice
  PROVE  /\ \A c \in Created \cup Flushed : device[c] = uplink[t] => seq[c] \in NumbersTaken(t)
         /\ \A s \in Creator : \A j \in DOMAIN drafts[s] :
              uplink[s] = uplink[t] => s = t /\ drafts[s][j].seq \in NumbersTaken(t)
<1>1. ASSUME NEW c \in Created \cup Flushed, device[c] = uplink[t]
      PROVE  seq[c] \in NumbersTaken(t)
  <2>1. CASE c \in Created
    BY <1>1, <2>1 DEF NumbersTaken, Visible
  <2>2. CASE c \in Flushed
    <3>1. PICK s \in Creator : c \in flushed[s]
      BY <2>2 DEF Flushed
    <3>2. s = t
      BY <1>1, <3>1 DEF IInv, TransactionsOK
    <3>. QED
      BY <3>1, <3>2 DEF NumbersTaken, Visible
  <2>. QED
    BY <1>1, <2>1, <2>2
<1>2. ASSUME NEW s \in Creator, NEW j \in DOMAIN drafts[s], uplink[s] = uplink[t]
      PROVE  s = t /\ drafts[s][j].seq \in NumbersTaken(t)
  BY <1>2 DEF IInv, TransactionsOK, NumbersTaken, Unflushed
<1>. QED
  BY <1>1, <1>2

\* A new draft is numbered past everything its device has.
LEMMA AddCommandIInv ==
  ASSUME IInv, NEW t \in Creator, AddCommand(t)
  PROVE  IInv'
<1>1. PICK last \in 0 .. MaxSeq :
        /\ uplink[t] # NoDevice
        /\ \A m \in NumbersTaken(t) : m <= last
        /\ last < MaxSeq
        /\ drafts' = [drafts EXCEPT ![t] = Append(drafts[t], [seq |-> last + 1, expires |-> now + Ttl])]
        /\ UNCHANGED <<now, count, uplink, flushed, columns, stamps, workers, network, events>>
  BY DEF AddCommand, IsLast, LastSeqAvailable
<1> USE DEF columns
<1> DEFINE n == Len(drafts[t]) + 1
           new == [seq |-> last + 1, expires |-> now + Ttl]
<1>2. drafts[t] \in Seq(Draft) /\ new \in Draft /\ last \in Int
  <2>1. drafts[t] \in Seq(Draft)
    BY CreatorTyped DEF CreatorTypes
  <2>2. last \in Int /\ last + 1 \in 1 .. MaxSeq /\ now + Ttl \in Nat
    BY <1>1, ConstantsOK DEF IInv, TypeOK
  <2>. QED
    BY <2>1, <2>2 DEF Draft
<1>3. /\ drafts'[t] = Append(drafts[t], new)
      /\ \A s \in Creator \ {t} : drafts'[s] = drafts[s]
  BY <1>1, CreatorTyped DEF CreatorTypes
<1>4. /\ n \notin DOMAIN drafts[t]
      /\ DOMAIN drafts'[t] = DOMAIN drafts[t] \cup {n}
      /\ drafts'[t][n] = new
      /\ \A i \in DOMAIN drafts[t] : drafts'[t][i] = drafts[t][i]
  BY <1>2, <1>3
<1>5. new.seq = last + 1
  OBVIOUS
<1>6. TypeOK'
  <2>1. drafts' \in [Creator -> Seq(Draft)]
    BY <1>1, <1>2, CreatorTyped DEF CreatorTypes
  <2>2. CreatorTypes'
    BY <1>1, <2>1, CreatorTyped DEF CreatorTypes
  <2>. QED
    BY <1>1, <2>2, CreatorTyped
<1> HIDE DEF n, new
<1>7. TransactionsOK'
  BY <1>1, <1>3 DEF IInv, TransactionsOK
<1>8. SeqUnique'
  <2>1. Created' = Created /\ Flushed' = Flushed /\ uplink' = uplink /\ device' = device /\ seq' = seq
    BY <1>1 DEF Created, Flushed
  <2>2. \A c \in Created \cup Flushed : seq[c] \in Int
    <3>1. Created \cup Flushed \subseteq Command
      BY CreatorTyped DEF CreatorTypes, Created, Flushed
    <3>. QED
      BY <3>1, CreatorTyped DEF CreatorTypes
  <2>3. \A s \in Creator : \A i \in DOMAIN drafts[s] : drafts[s][i].seq \in Int
    BY DraftTyped
  <2>4. ASSUME NEW c \in Created \cup Flushed, device[c] = uplink[t]
        PROVE  seq[c] # new.seq
    BY <1>1, <1>2, <1>5, <2>2, <2>4, SeesAll
  <2>5. ASSUME NEW s \in Creator, NEW j \in DOMAIN drafts[s], uplink[s] = uplink[t]
        PROVE  drafts[s][j].seq # new.seq
    BY <1>1, <1>2, <1>5, <2>3, <2>5, SeesAll
  <2>6. ASSUME NEW s \in Creator, NEW i \in DOMAIN drafts'[s]
        PROVE  /\ \A c \in Created \cup Flushed : device[c] = uplink[s] => seq[c] # drafts'[s][i].seq
               /\ \A r \in Creator : \A j \in DOMAIN drafts'[r] :
                    uplink[r] = uplink[s] /\ drafts'[r][j].seq = drafts'[s][i].seq
                      => r = s /\ j = i
    <3>1. CASE s = t /\ i = n
      <4>1. drafts'[s][i] = new
        BY <1>4, <3>1
      <4>2. ASSUME NEW r \in Creator, NEW j \in DOMAIN drafts'[r],
                   uplink[r] = uplink[s], drafts'[r][j].seq = drafts'[s][i].seq
            PROVE  r = s /\ j = i
        <5>1. CASE j \in DOMAIN drafts[r] /\ drafts'[r][j] = drafts[r][j]
          BY <2>5, <3>1, <4>1, <4>2, <5>1
        <5>2. CASE r = t /\ j = n
          BY <3>1, <5>2
        <5>. QED
          BY <1>3, <1>4, <4>2, <5>1, <5>2
      <4>. QED
        BY <2>4, <3>1, <4>1, <4>2
    <3>2. CASE i \in DOMAIN drafts[s] /\ drafts'[s][i] = drafts[s][i]
      <4>1. \A c \in Created \cup Flushed : device[c] = uplink[s] => seq[c] # drafts'[s][i].seq
        BY <3>2 DEF IInv, SeqUnique
      <4>2. ASSUME NEW r \in Creator, NEW j \in DOMAIN drafts'[r],
                   uplink[r] = uplink[s], drafts'[r][j].seq = drafts'[s][i].seq
            PROVE  r = s /\ j = i
        <5>1. CASE j \in DOMAIN drafts[r] /\ drafts'[r][j] = drafts[r][j]
          BY <3>2, <4>2, <5>1 DEF IInv, SeqUnique
        <5>2. CASE r = t /\ j = n
          BY <1>4, <2>5, <3>2, <4>2, <5>2
        <5>. QED
          BY <1>3, <1>4, <4>2, <5>1, <5>2
      <4>. QED
        BY <4>1, <4>2
    <3>. QED
      BY <1>3, <1>4, <2>6, <3>1, <3>2
  <2>7. \A c1, c2 \in Created \cup Flushed :
          device[c1] = device[c2] /\ seq[c1] = seq[c2] => c1 = c2
    BY DEF IInv, SeqUnique
  <2>. QED
    BY <2>1, <2>6, <2>7 DEF SeqUnique
<1>. QED
  BY <1>1, <1>6, <1>7, <1>8, CreatorFrame DEF IInv, RowsOK, Created

\* Inserting a session's drafts moves their numbers into new rows, in order.
LEMMA FlushIInv ==
  ASSUME IInv, NEW t \in Creator, Flush(t)
  PROVE  IInv'
<1> DEFINE n == Len(drafts[t])
           new == count + 1 .. count + n
<1>1. /\ drafts[t] # <<>>
      /\ count + n <= MaxCommands
      /\ count' = count + n
      /\ device' = [c \in Command |-> IF c \in new THEN uplink[t] ELSE device[c]]
      /\ seq' = [c \in Command |-> IF c \in new THEN drafts[t][c - count].seq ELSE seq[c]]
      /\ expires' = [c \in Command |-> IF c \in new THEN drafts[t][c - count].expires ELSE expires[c]]
      /\ flushed' = [flushed EXCEPT ![t] = flushed[t] \cup new]
      /\ drafts' = [drafts EXCEPT ![t] = <<>>]
      /\ UNCHANGED <<now, uplink, status, queueItem, stamps, workers, network, events>>
  BY DEF Flush
<1>2. /\ drafts[t] \in Seq(Draft) /\ n \in Nat /\ count \in Nat
      /\ DOMAIN drafts[t] = 1 .. n
  BY CreatorTyped, ConstantsOK DEF CreatorTypes
<1>3. /\ new \subseteq Command
      /\ \A c \in new : c - count \in DOMAIN drafts[t]
      /\ \A b, c \in new : b - count = c - count => b = c
      /\ \A c \in new : c > count /\ c <= count'
  BY <1>1, <1>2, ConstantsOK DEF Command
<1>4. uplink[t] # NoDevice
  BY <1>1 DEF IInv, TransactionsOK
<1>5. \A c \in Created \cup Flushed : c \in Command /\ c \notin new /\ c <= count
  <2>1. \A c \in Created : c \in Command /\ c <= count
    BY DEF IInv, RowsOK, Created
  <2>2. \A c \in Flushed : c \in Command /\ c <= count
    BY CreatorTyped DEF Flushed, IInv, TransactionsOK, CreatorTypes
  <2>. QED
    BY <1>2, <1>3, <2>1, <2>2 DEF Command
<1>6. \A c \in Created \cup Flushed : device'[c] = device[c] /\ seq'[c] = seq[c]
  BY <1>1, <1>5
<1>7. \A c \in new : /\ device'[c] = uplink[t]
                     /\ c - count \in DOMAIN drafts[t]
                     /\ seq'[c] = drafts[t][c - count].seq
                     /\ seq'[c] \in 1 .. MaxSeq
                     /\ expires'[c] \in Nat
  BY <1>1, <1>3, DraftTyped
<1>8. /\ flushed'[t] = flushed[t] \cup new
      /\ drafts'[t] = <<>>
      /\ \A s \in Creator \ {t} : flushed'[s] = flushed[s] /\ drafts'[s] = drafts[s]
  BY <1>1, CreatorTyped DEF CreatorTypes
<1>9. Created' = Created /\ Flushed' = Flushed \cup new
  <2>1. Flushed' = Flushed \cup new
    BY <1>8 DEF Flushed
  <2>. QED
    BY <1>1, <2>1 DEF Created
<1> HIDE DEF n, new
<1>10. TypeOK'
  <2>1. seq' \in [Command -> 0 .. MaxSeq] /\ expires' \in [Command -> Nat]
    <3>1. seq \in [Command -> 0 .. MaxSeq] /\ expires \in [Command -> Nat]
      BY CreatorTyped DEF CreatorTypes
    <3>2. ASSUME NEW c \in Command
          PROVE  seq'[c] \in 0 .. MaxSeq /\ expires'[c] \in Nat
      <4>1. CASE c \in new
        BY <1>7, <4>1
      <4>2. CASE c \notin new
        BY <1>1, <3>1, <4>2
      <4>. QED
        BY <4>1, <4>2
    <3>. QED
      BY <1>1, <3>2
  <2>2. device' \in [Command -> Device \cup {NoDevice}]
    BY <1>1, CreatorTyped DEF CreatorTypes
  <2>3. flushed' \in [Creator -> SUBSET Command] /\ drafts' \in [Creator -> Seq(Draft)]
    <3>1. <<>> \in Seq(Draft)
      OBVIOUS
    <3>. QED
      BY <1>1, <1>3, <3>1, CreatorTyped DEF CreatorTypes
  <2>4. count' \in 0 .. MaxCommands
    BY <1>1, <1>2, ConstantsOK
  <2>5. CreatorTypes'
    BY <1>1, <2>1, <2>2, <2>3, <2>4, CreatorTyped DEF CreatorTypes
  <2>. QED
    BY <1>1, <2>5, CreatorTyped
<1>11. TransactionsOK'
  <2>1. \A c \in new : status[c] = "NONE"
    BY <1>3, <1>5 DEF Created
  <2>2. ASSUME NEW s \in Creator, NEW c \in flushed'[s]
        PROVE  status'[c] = "NONE" /\ device'[c] = uplink'[s] /\ seq'[c] > 0 /\ c <= count'
    <3>1. CASE c \in flushed[s]
      <4>1. c \in Flushed
        BY <3>1 DEF Flushed
      <4>. QED
        BY <1>1, <1>2, <1>5, <1>6, <3>1, <4>1 DEF IInv, TransactionsOK, Command
    <3>2. CASE s = t /\ c \in new
      <4>1. seq'[c] \in 1 .. MaxSeq /\ device'[c] = uplink[t]
        BY <1>7, <3>2
      <4>2. status'[c] = "NONE" /\ c <= count' /\ uplink'[s] = uplink[t]
        BY <1>1, <1>3, <2>1, <3>2
      <4>. QED
        BY <4>1, <4>2
    <3>. QED
      BY <1>8, <2>2, <3>1, <3>2
  <2>3. \A s \in Creator : uplink'[s] = NoDevice => drafts'[s] = <<>> /\ flushed'[s] = {}
    BY <1>1, <1>4, <1>8 DEF IInv, TransactionsOK
  <2>. QED
    BY <1>1, <2>2, <2>3 DEF IInv, TransactionsOK
<1>12. SeqUnique'
  <2>1. ASSUME NEW c1 \in Created \cup Flushed, NEW c2 \in new, device'[c1] = device'[c2]
        PROVE  seq'[c1] # seq'[c2]
    BY <1>6, <1>7, <2>1 DEF IInv, SeqUnique
  <2>2. ASSUME NEW c1 \in new, NEW c2 \in new, seq'[c1] = seq'[c2]
        PROVE  c1 = c2
    BY <1>3, <1>7, <2>2 DEF IInv, SeqUnique
  <2>3. ASSUME NEW c1 \in Created \cup Flushed \cup new, NEW c2 \in Created \cup Flushed \cup new,
               device'[c1] = device'[c2], seq'[c1] = seq'[c2]
        PROVE  c1 = c2
    <3>1. CASE c1 \in Created \cup Flushed /\ c2 \in Created \cup Flushed
      BY <1>6, <2>3, <3>1 DEF IInv, SeqUnique
    <3>. QED
      BY <2>1, <2>2, <2>3, <3>1
  <2>4. ASSUME NEW s \in Creator, NEW i \in DOMAIN drafts'[s]
        PROVE  /\ s # t /\ drafts'[s] = drafts[s] /\ i \in DOMAIN drafts[s]
               /\ uplink[s] # uplink[t]
    <3>1. s # t
      BY <1>8, <2>4
    <3>. QED
      BY <1>4, <1>8, <2>4, <3>1 DEF IInv, TransactionsOK
  <2>5. ASSUME NEW s \in Creator, NEW i \in DOMAIN drafts'[s],
               NEW c \in Created \cup Flushed \cup new, device'[c] = uplink[s]
        PROVE  seq'[c] # drafts'[s][i].seq
    BY <1>6, <1>7, <2>4, <2>5 DEF IInv, SeqUnique
  <2>6. ASSUME NEW s \in Creator, NEW i \in DOMAIN drafts'[s],
               NEW r \in Creator, NEW j \in DOMAIN drafts'[r],
               uplink[r] = uplink[s], drafts'[r][j].seq = drafts'[s][i].seq
        PROVE  r = s /\ j = i
    BY <2>4, <2>6 DEF IInv, SeqUnique
  <2>7. uplink' = uplink /\ Created' \cup Flushed' = Created \cup Flushed \cup new
    BY <1>1, <1>9
  <2>8. \A s \in Creator : \A i \in DOMAIN drafts'[s] :
          /\ \A c \in Created' \cup Flushed' :
               device'[c] = uplink'[s] => seq'[c] # drafts'[s][i].seq
          /\ \A r \in Creator : \A j \in DOMAIN drafts'[r] :
               uplink'[r] = uplink'[s] /\ drafts'[r][j].seq = drafts'[s][i].seq
                 => r = s /\ j = i
    BY <2>5, <2>6, <2>7
  <2>. QED
    BY <2>3, <2>7, <2>8 DEF SeqUnique
<1>. QED
  <2>1. \A c \in Created : status'[c] = status[c] /\ c <= count'
    BY <1>1, <1>2, <1>5 DEF Command
  <2>2. \A c \in Command \ Created : status'[c] = "NONE"
    BY <1>1 DEF Created
  <2>. QED
    BY <1>1, <1>6, <1>10, <1>11, <1>12, <2>1, <2>2, CreatorFrame

\* The end of a transaction gives its lock and its drafts back.
LEMMA TransactionEnds ==
  ASSUME IInv, NEW t \in Creator, EndTransaction(t)
  PROVE  /\ uplink'[t] = NoDevice /\ drafts'[t] = <<>> /\ flushed'[t] = {}
         /\ \A s \in Creator \ {t} : uplink'[s] = uplink[s] /\ drafts'[s] = drafts[s]
                                     /\ flushed'[s] = flushed[s]
         /\ uplink' \in [Creator -> Device \cup {NoDevice}]
         /\ drafts' \in [Creator -> Seq(Draft)]
         /\ flushed' \in [Creator -> SUBSET Command]
<1>1. <<>> \in Seq(Draft)
  OBVIOUS
<1>. QED
  BY <1>1, CreatorTyped DEF EndTransaction, CreatorTypes

\* Committing makes the inserted rows PENDING, rolling back forgets them; the
\* numbers that remain were different before.
LEMMA EndIInv ==
  ASSUME IInv, NEW t \in Creator, CommitCommands(t) \/ RollBack(t)
  PROVE  IInv'
<1>1. /\ uplink[t] # NoDevice
      /\ EndTransaction(t)
      /\ UNCHANGED <<now, count, device, seq, expires, queueItem, stamps, workers, network, events>>
      /\ \/ status' = status
         \/ status' = [c \in Command |-> IF c \in flushed[t] THEN "PENDING" ELSE status[c]]
  BY DEF CommitCommands, RollBack, columns
<1>2. flushed[t] \subseteq Command /\ \A c \in flushed[t] : c \notin Created
  BY CreatorTyped DEF CreatorTypes, IInv, TransactionsOK, Created
<1>3. /\ \A c \in Created : status'[c] = status[c]
      /\ \A c \in Command \ Created : /\ status'[c] = "NONE" \/ status'[c] = "PENDING"
                                      /\ status'[c] = "PENDING" => c \in flushed[t]
      /\ Created' \subseteq Created \cup flushed[t]
  <2>1. \A c \in Command : status[c] \in Status
    BY CreatorTyped DEF CreatorTypes
  <2>. QED
    BY <1>1, <1>2, <2>1 DEF Created
<1>4. TypeOK'
  <2>1. status' \in [Command -> Status]
    BY <1>1, CreatorTyped DEF CreatorTypes, Status
  <2>2. CreatorTypes'
    BY <1>1, <2>1, CreatorTyped, TransactionEnds DEF CreatorTypes
  <2>. QED
    BY <1>1, <2>2, CreatorTyped
<1>5. \A s \in Creator \ {t} : \A c \in flushed[s] : c \notin flushed[t] /\ c \in Command
  BY <1>1, CreatorTyped DEF IInv, TransactionsOK, CreatorTypes
<1>6. TransactionsOK'
  <2>1. \A s \in Creator \ {t} : \A c \in flushed[s] : status'[c] = "NONE"
    BY <1>1, <1>5 DEF IInv, TransactionsOK
  <2>2. \A s \in Creator : \A c \in flushed'[s] :
          /\ s # t /\ c \in flushed[s] /\ uplink'[s] = uplink[s]
          /\ status'[c] = "NONE"
    BY <1>1, <2>1, TransactionEnds
  <2>3. \A r, s \in Creator : uplink'[r] = uplink'[s] /\ uplink'[r] # NoDevice => r = s
    BY <1>1, TransactionEnds DEF IInv, TransactionsOK
  <2>4. \A s \in Creator : uplink'[s] = NoDevice => drafts'[s] = <<>> /\ flushed'[s] = {}
    BY <1>1, TransactionEnds DEF IInv, TransactionsOK
  <2>. QED
    BY <1>1, <2>2, <2>3, <2>4 DEF IInv, TransactionsOK
<1>7. Created' \cup Flushed' \subseteq Created \cup Flushed
  <2>1. Flushed' \subseteq Flushed
    BY <1>1, TransactionEnds DEF Flushed
  <2>2. flushed[t] \subseteq Flushed
    BY DEF Flushed
  <2>. QED
    BY <1>3, <2>1, <2>2
<1>8. SeqUnique'
  <2>1. \A s \in Creator : \A i \in DOMAIN drafts'[s] :
          s # t /\ drafts'[s] = drafts[s] /\ uplink'[s] = uplink[s]
    BY <1>1, TransactionEnds
  <2>. QED
    BY <1>1, <1>7, <2>1 DEF IInv, SeqUnique
<1>9. \A c \in flushed[t] : device[c] \in Device /\ seq[c] > 0 /\ c <= count
  BY <1>1, CreatorTyped DEF IInv, TransactionsOK, CreatorTypes
<1>10. \A c \in Created : c <= count'
  BY <1>1 DEF IInv, RowsOK
<1>. QED
  BY <1>1, <1>3, <1>4, <1>6, <1>8, <1>9, <1>10, CreatorFrame

LEMMA CreatorIInv ==
  ASSUME IInv, NEW t \in Creator, CreatorStep(t)
  PROVE  IInv'
BY TakeLockIInv, AddCommandIInv, FlushIInv, EndIInv DEF CreatorStep

-----------------------------------------------------------------------------
(* The dispatcher.                                                         *)

\* An open command has no report behind it.
LEMMA OpenUnreported ==
  ASSUME IInv, NEW c \in Created, status[c] \notin Terminal
  PROVE  ReportsOn(c) = {}
<1>1. \A res : Verdict(res) \in Terminal
  BY DEF Verdict, Terminal
<1>. QED
  BY <1>1 DEF IInv, DeviceReportWins

\* What is known of the row a worker holds while ChirpStack is called.
LEMMA HeldRow ==
  ASSUME IInv, NEW w \in Worker, Holding(w)
  PROVE  /\ cur[w] \in Created /\ cur[w] \in Command
         /\ status[cur[w]] = "PENDING"
         /\ queueItem[cur[w]] = 0
         /\ ~ackAt[cur[w]] /\ ~failedAt[cur[w]]
         /\ ReportsOn(cur[w]) = {}
         /\ \A v \in Worker : Holding(v) /\ cur[v] = cur[w] => v = w
<1>1. /\ cur[w] \in Created /\ status[cur[w]] = "PENDING"
      /\ \A v \in Worker : Holding(v) /\ cur[v] = cur[w] => v = w
  BY DEF IInv, SendersOK
<1>2. cur[w] \in Command
  BY <1>1 DEF Created
<1>3. queueItem[cur[w]] = 0 /\ ~ackAt[cur[w]] /\ ~failedAt[cur[w]]
  BY <1>1 DEF IInv, ItemCorrelates, StampsAgree
<1>4. ReportsOn(cur[w]) = {}
  BY <1>1, OpenUnreported DEF Terminal
<1>. QED
  BY <1>1, <1>2, <1>3, <1>4

\* Expiry keeps the invariant: it settles open, unlocked rows only.
LEMMA ExpireBatchIInv ==
  ASSUME IInv, NEW w \in Worker, ExpireBatch(w)
  PROVE  IInv'
<1> USE ConstantsOK
<1>1. PICK batch \in SUBSET {c \in Created : Overdue(c) /\ ~Locked(c)} :
        /\ Cardinality(batch) <= BatchLimit
        /\ status' = [c \in Command |-> IF c \in batch THEN "EXPIRED" ELSE status[c]]
        /\ failedAt' = [c \in Command |-> IF c \in batch THEN TRUE ELSE failedAt[c]]
        /\ left' = [left EXCEPT ![w] = BatchLimit - Cardinality(batch)]
        /\ pc' = [pc EXCEPT ![w] = IF Cardinality(batch) < BatchLimit THEN "pick" ELSE "idle"]
  BY DEF ExpireBatch
<1>2. /\ pc[w] = "idle"
      /\ UNCHANGED <<now, count, creators, device, seq, expires, queueItem, sentAt, ackAt,
                     txAckedAt, lorawanAckAt, cur, got, network, events>>
  BY DEF ExpireBatch
<1>3. Cardinality(batch) \in Nat
  <2>1. IsFiniteSet(1 .. MaxCommands)
    BY FS_Interval
  <2>2. batch \subseteq 1 .. MaxCommands
    BY <1>1 DEF Created, Command
  <2>. QED
    BY <2>1, <2>2, FS_Subset, FS_CardinalityType
<1>4. \A c \in batch : c \in Created /\ c \in Command /\ status[c] \notin Terminal /\ ~Sending(c)
  BY <1>1 DEF Overdue, Created, Locked
<1>5. \A c \in Command :
        IF c \in batch THEN status'[c] = "EXPIRED" /\ failedAt'[c] = TRUE
                       ELSE status'[c] = status[c] /\ failedAt'[c] = failedAt[c]
  BY <1>1
<1>6. Created' = Created /\ Created \subseteq Command /\ TransactionsOK' /\ SeqUnique'
  <2>1. \A c \in Command : status'[c] = "NONE" <=> status[c] = "NONE"
    BY <1>4, <1>5 DEF Created
  <2>. QED
    BY <1>2, <2>1, NumberingFrame DEF Created
<1>7. TypeOK'
  <2>1. status' \in [Command -> Status] /\ failedAt' \in [Command -> BOOLEAN]
    BY <1>1 DEF IInv, TypeOK, Status, Terminal
  <2>2. BatchLimit - Cardinality(batch) \in 0 .. BatchLimit
    BY <1>1, <1>3
  <2>3. left' \in [Worker -> 0 .. BatchLimit]
    BY <1>1, <2>2 DEF IInv, TypeOK
  <2>4. pc' \in [Worker -> {"idle", "pick", "calling", "accepted"}]
    BY <1>1 DEF IInv, TypeOK
  <2>. QED
    BY <1>2, <2>1, <2>3, <2>4 DEF IInv, TypeOK, creators, network, events, Command, Event
<1>8. RowsOK'
  BY <1>2, <1>4, <1>5, <1>6 DEF IInv, RowsOK
<1>9. LoopsOK'
  BY <1>1, <1>2, <1>3 DEF IInv, TypeOK, LoopsOK, Item, network
<1>10. QueueOK'
  BY <1>2, <1>6 DEF IInv, QueueOK, Item, network, events
<1>11. NetworkEventsCorrelate'
  BY <1>2 DEF IInv, NetworkEventsCorrelate, IsReport, Item, network, events
<1>12. HandlersOK' /\ SendersOK'
  <2>1. \A v \in Worker : Holding(v)' => Holding(v) /\ cur'[v] = cur[v]
    BY <1>1, <1>2 DEF Holding, IInv, TypeOK
  <2>2. \A v \in Worker : Holding(v) => cur[v] \notin batch
    BY <1>4 DEF Sending
  <2>3. SendersOK'
    BY <2>1, <2>2, <1>5, <1>6 DEF IInv, SendersOK
  <2>4. HandlersOK'
    BY <1>2, <2>1 DEF IInv, HandlersOK, Subject, IsReport, network, events
  <2>. QED
    BY <2>3, <2>4
<1>13. ItemCorrelates'
  BY <1>2, <1>5, <1>6 DEF IInv, ItemCorrelates, Item, network
<1>14. \A c : ReportsOn(c)' = ReportsOn(c)
  BY <1>2 DEF ReportsOn, Subject, IsReport, events, network
<1>15. \A c \in batch : ReportsOn(c) = {}
  BY <1>4, OpenUnreported
<1>16. DeviceReportWins' /\ AckedOnlyByReport'
  BY <1>5, <1>6, <1>14, <1>15 DEF IInv, DeviceReportWins, AckedOnlyByReport
<1>17. StampsAgree'
  BY <1>2, <1>5, <1>6 DEF IInv, StampsAgree
<1>. QED
  BY <1>6, <1>7, <1>8, <1>9, <1>10, <1>11, <1>12, <1>13, <1>16, <1>17 DEF IInv

\* The rest of the invariant survives a step of a worker that leaves the table
\* alone.
LEMMA WorkerFrame ==
  ASSUME IInv,
         UNCHANGED <<now, count, creators, columns, stamps, downlinks, events>>,
         late' \in [Command -> Nat], \A c \in Command : late'[c] > 0 => c \in Created,
         pc' \in [Worker -> {"idle", "pick", "calling", "accepted"}],
         cur' \in [Worker -> 0 .. MaxCommands],
         left' \in [Worker -> 0 .. BatchLimit],
         got' \in [Worker -> Nat]
  PROVE  TypeOK' /\ TableOK'
<1>1. TableOK'
  BY TableFrame DEF events
<1>2. TypeOK'
  BY DEF IInv, TypeOK, creators, columns, stamps, events, Command, Event
<1>. QED
  BY <1>1, <1>2

\* Locking the oldest pending row keeps the invariant.
LEMMA PickPendingIInv ==
  ASSUME IInv, NEW w \in Worker, PickPending(w)
  PROVE  IInv'
<1>1. PICK c \in Created : c \in Candidates /\ cur' = [cur EXCEPT ![w] = c]
  BY DEF PickPending, IsOldestCandidate
<1>2. /\ pc[w] = "pick"
      /\ pc' = [pc EXCEPT ![w] = "calling"]
      /\ UNCHANGED <<now, count, creators, columns, stamps, left, got, network, events>>
  BY DEF PickPending
<1>3. TypeOK' /\ TableOK'
  <2>1. c \in 0 .. MaxCommands
    BY <1>1, ConstantsOK DEF Created, Command
  <2>2. cur' \in [Worker -> 0 .. MaxCommands]
    BY <1>1, <2>1 DEF IInv, TypeOK
  <2>3. /\ pc' \in [Worker -> {"idle", "pick", "calling", "accepted"}]
        /\ left' \in [Worker -> 0 .. BatchLimit] /\ got' \in [Worker -> Nat]
        /\ late' \in [Command -> Nat] /\ \A b \in Command : late'[b] > 0 => b \in Created
    BY <1>2 DEF IInv, TypeOK, QueueOK, network
  <2>. QED
    BY <1>2, <2>2, <2>3, WorkerFrame DEF network
<1>4. LoopsOK'
  BY <1>1, <1>2 DEF IInv, TypeOK, LoopsOK, Item, network
<1>5. /\ \A v \in Worker : v # w => cur'[v] = cur[v] /\ (Holding(v)' <=> Holding(v))
      /\ cur'[w] = c
  BY <1>1, <1>2 DEF IInv, TypeOK, Holding
<1>6. /\ status[c] = "PENDING"
      /\ \A v \in Worker : Holding(v) => cur[v] # c
      /\ \A e \in handling : ~Names(e, c)
  BY <1>1 DEF Candidates, Locked, Sending
<1>7. SendersOK'
  BY <1>1, <1>2, <1>5, <1>6 DEF IInv, SendersOK, columns, Created
<1>8. HandlersOK'
  <2>1. \A e \in handling : Subject(e) # c
    <3> SUFFICES ASSUME NEW e \in handling, Subject(e) = c PROVE Names(e, c)
      BY <1>6
    <3>1. ~IsReport(e) => queueItem[c] = e.item
      BY DEF IInv, HandlersOK
    <3>. QED
      BY <3>1 DEF Names, IsReport, IsAckTarget, IsNetworkTarget, Subject
  <2>. QED
    BY <1>2, <1>5, <2>1 DEF IInv, HandlersOK, Subject, IsReport, columns, network, events
<1>. QED
  BY <1>3, <1>4, <1>7, <1>8 DEF IInv, TableOK

\* A step that only takes workers out of the call, without touching a row,
\* keeps the invariant.
LEMMA ReleaseFrame ==
  ASSUME IInv, NEW w \in Worker,
         UNCHANGED <<now, count, creators, columns, stamps, downlinks, events>>,
         late' \in [Command -> Nat], \A c \in Command : late'[c] > 0 => c \in Created,
         pc' \in [Worker -> {"idle", "pick", "calling", "accepted"}],
         cur' \in [Worker -> 0 .. MaxCommands],
         left' \in [Worker -> 0 .. BatchLimit],
         got' \in [Worker -> Nat],
         pc'[w] = "idle" \/ (pc'[w] = "pick" /\ left'[w] > 0),
         \A v \in Worker \ {w} : /\ pc'[v] = pc[v] /\ cur'[v] = cur[v]
                                 /\ left'[v] = left[v] /\ got'[v] = got[v]
  PROVE  IInv'
<1>1. TypeOK' /\ TableOK'
  BY WorkerFrame
<1>2. LoopsOK'
  <2> SUFFICES ASSUME NEW v \in Worker
               PROVE  /\ pc'[v] # "idle" => left'[v] > 0
                      /\ pc'[v] = "accepted" => got'[v] \in Item' /\ downlinks'[got'[v]] = cur'[v]
    BY DEF LoopsOK
  <2>1. CASE v = w
    BY <2>1
  <2>2. CASE v # w
    BY <2>2 DEF IInv, LoopsOK, Item
  <2>. QED
    BY <2>1, <2>2
<1>3. ~Holding(w)' /\ \A v \in Worker \ {w} : cur'[v] = cur[v] /\ (Holding(v)' <=> Holding(v))
  BY DEF Holding
<1>4. SendersOK'
  BY <1>3 DEF IInv, SendersOK, columns, Created
<1>5. HandlersOK'
  BY <1>3 DEF IInv, HandlersOK, Subject, IsReport, columns, events
<1>. QED
  BY <1>1, <1>2, <1>4, <1>5 DEF IInv, TableOK

\* Ending an iteration leaves the worker idle, or picking with iterations left.
LEMMA EndIterationTypes ==
  ASSUME IInv, NEW w \in Worker, pc[w] # "idle", EndIteration(w)
  PROVE  /\ pc' \in [Worker -> {"idle", "pick", "calling", "accepted"}]
         /\ cur' \in [Worker -> 0 .. MaxCommands]
         /\ left' \in [Worker -> 0 .. BatchLimit]
         /\ got' \in [Worker -> Nat]
         /\ pc'[w] = "idle" \/ (pc'[w] = "pick" /\ left'[w] > 0)
         /\ \A v \in Worker \ {w} : /\ pc'[v] = pc[v] /\ cur'[v] = cur[v]
                                     /\ left'[v] = left[v] /\ got'[v] = got[v]
<1> USE ConstantsOK
<1>1. /\ left' = [left EXCEPT ![w] = left[w] - 1]
      /\ pc' = [pc EXCEPT ![w] = IF left[w] > 1 THEN "pick" ELSE "idle"]
      /\ cur' = [cur EXCEPT ![w] = 0]
      /\ got' = [got EXCEPT ![w] = 0]
  BY DEF EndIteration
<1>2. left[w] > 0 /\ left[w] \in 0 .. BatchLimit
  BY DEF IInv, LoopsOK, TypeOK
<1>3. left[w] - 1 \in 0 .. BatchLimit
  BY <1>2
<1>4. /\ left' \in [Worker -> 0 .. BatchLimit]
      /\ left'[w] = left[w] - 1
  BY <1>1, <1>3 DEF IInv, TypeOK
<1>5. pc'[w] = "idle" \/ (pc'[w] = "pick" /\ left'[w] > 0)
  <2>1. pc'[w] = IF left[w] > 1 THEN "pick" ELSE "idle"
    BY <1>1 DEF IInv, TypeOK
  <2>. QED
    BY <2>1, <1>2, <1>4
<1>. QED
  BY <1>1, <1>4, <1>5 DEF IInv, TypeOK

\* A call that is given up was for a row that exists.
LEMMA GiveUpTyped ==
  ASSUME IInv, NEW w \in Worker,
         (pc[w] = "calling" /\ GiveUp(cur[w])) \/ UNCHANGED late
  PROVE  late' \in [Command -> Nat] /\ \A c \in Command : late'[c] > 0 => c \in Created
<1>1. late \in [Command -> Nat] /\ \A c \in Command : late[c] > 0 => c \in Created
  BY DEF IInv, TypeOK, QueueOK
<1>2. CASE pc[w] = "calling" /\ GiveUp(cur[w])
  <2>1. cur[w] \in Created /\ cur[w] \in Command
    BY <1>2, HeldRow DEF Holding
  <2>2. late' = [late EXCEPT ![cur[w]] =
          IF "late" \in Faults /\ late[cur[w]] < MaxLate THEN late[cur[w]] + 1 ELSE late[cur[w]]]
    BY <1>2 DEF GiveUp
  <2>. QED
    BY <1>1, <2>1, <2>2
<1>. QED
  BY <1>1, <1>2

\* An empty selection, a retryable result and a rolled back cycle only let go.
LEMMA ReleaseIInv ==
  ASSUME IInv, NEW w \in Worker,
         PickNothing(w) \/ CommitRetryable(w) \/ CycleAborted(w)
  PROVE  IInv'
<1> USE ConstantsOK
<1>1. CASE PickNothing(w)
  <2>1. /\ pc[w] = "pick"
        /\ pc' = [pc EXCEPT ![w] = "idle"]
        /\ UNCHANGED <<cur, left, got, late>>
        /\ UNCHANGED <<now, count, creators, columns, stamps, downlinks, events>>
    BY <1>1 DEF PickNothing, network
  <2>2. /\ pc' \in [Worker -> {"idle", "pick", "calling", "accepted"}]
        /\ cur' \in [Worker -> 0 .. MaxCommands]
        /\ left' \in [Worker -> 0 .. BatchLimit]
        /\ got' \in [Worker -> Nat]
        /\ pc'[w] = "idle" \/ (pc'[w] = "pick" /\ left'[w] > 0)
        /\ \A v \in Worker \ {w} : /\ pc'[v] = pc[v] /\ cur'[v] = cur[v]
                                    /\ left'[v] = left[v] /\ got'[v] = got[v]
    BY <2>1 DEF IInv, TypeOK
  <2>. QED
    BY <2>1, <2>2, GiveUpTyped, ReleaseFrame
<1>2. CASE CommitRetryable(w)
  <2>1. pc[w] # "idle"
    BY <1>2 DEF CommitRetryable
  <2>2. /\ EndIteration(w)
        /\ (pc[w] = "calling" /\ GiveUp(cur[w])) \/ UNCHANGED late
        /\ UNCHANGED <<now, count, creators, columns, stamps, downlinks, events>>
    BY <1>2 DEF CommitRetryable
  <2>. QED
    BY <2>1, <2>2, EndIterationTypes, GiveUpTyped, ReleaseFrame
<1>3. CASE CycleAborted(w)
  <2>1. /\ pc' = [pc EXCEPT ![w] = "idle"]
        /\ cur' = [cur EXCEPT ![w] = 0]
        /\ got' = [got EXCEPT ![w] = 0]
        /\ left' = [left EXCEPT ![w] = 0]
        /\ (pc[w] = "calling" /\ GiveUp(cur[w])) \/ UNCHANGED late
        /\ UNCHANGED <<now, count, creators, columns, stamps, downlinks, events>>
    BY <1>3 DEF CycleAborted
  <2>2. /\ pc' \in [Worker -> {"idle", "pick", "calling", "accepted"}]
        /\ cur' \in [Worker -> 0 .. MaxCommands]
        /\ left' \in [Worker -> 0 .. BatchLimit]
        /\ got' \in [Worker -> Nat]
        /\ pc'[w] = "idle" \/ (pc'[w] = "pick" /\ left'[w] > 0)
        /\ \A v \in Worker \ {w} : /\ pc'[v] = pc[v] /\ cur'[v] = cur[v]
                                    /\ left'[v] = left[v] /\ got'[v] = got[v]
    BY <2>1 DEF IInv, TypeOK
  <2>. QED
    BY <2>1, <2>2, GiveUpTyped, ReleaseFrame
<1>. QED
  BY <1>1, <1>2, <1>3

\* What a queue item stored for an existing command changes.
LEMMA Stored ==
  ASSUME IInv, NEW c \in Created, downlinks' = Append(downlinks, c)
  PROVE  /\ downlinks' \in Seq(Command)
         /\ Item' = Item \cup {Len(downlinks) + 1}
         /\ Len(downlinks) + 1 \in Nat /\ Len(downlinks) + 1 \notin Item
         /\ downlinks'[Len(downlinks) + 1] = c
         /\ \A q \in Item : downlinks'[q] = downlinks[q]
         /\ \A e \in emitted : Subject(e)' = Subject(e)
<1>1. downlinks \in Seq(Command) /\ Len(downlinks) \in Nat /\ c \in Command
  BY DEF IInv, TypeOK, Created
<1>2. /\ downlinks' \in Seq(Command)
      /\ Item' = Item \cup {Len(downlinks) + 1}
      /\ Len(downlinks) + 1 \in Nat /\ Len(downlinks) + 1 \notin Item
      /\ downlinks'[Len(downlinks) + 1] = c
      /\ \A q \in Item : downlinks'[q] = downlinks[q]
  BY <1>1 DEF Item
<1>3. \A e \in emitted : Subject(e)' = Subject(e)
  BY <1>2 DEF Subject, IInv, QueueOK
<1>. QED
  BY <1>2, <1>3

\* A queue item that ChirpStack stores, in the call or after it was given up,
\* keeps the table and what hangs on it.
LEMMA StoredTable ==
  ASSUME IInv, NEW c \in Created, downlinks' = Append(downlinks, c),
         UNCHANGED <<count, creators, columns, stamps, events>>,
         \A b \in Command : late'[b] > 0 => b \in Created
  PROVE  TableOK'
<1> USE DEF columns, stamps, events
<1>1. /\ Item \subseteq Item' /\ \A q \in Item : downlinks'[q] = downlinks[q]
      /\ Item' = Item \cup {Len(downlinks) + 1} /\ downlinks'[Len(downlinks) + 1] = c
      /\ \A e \in emitted : Subject(e)' = Subject(e)
  BY Stored
<1>2. Created' = Created /\ TransactionsOK' /\ SeqUnique'
  BY NumberingFrame
<1>3. RowsOK' /\ StampsAgree'
  BY <1>2 DEF IInv, RowsOK, StampsAgree
<1>4. QueueOK'
  BY <1>1, <1>2 DEF IInv, QueueOK
<1>5. ItemCorrelates'
  BY <1>1, <1>2 DEF IInv, ItemCorrelates
<1>6. NetworkEventsCorrelate'
  BY <1>1 DEF IInv, NetworkEventsCorrelate, IsReport
<1>7. \A b : ReportsOn(b)' = ReportsOn(b)
  <2>1. \A e \in processed : Subject(e)' = Subject(e) /\ (IsReport(e)' <=> IsReport(e))
    BY <1>1 DEF IsReport, IInv, TypeOK
  <2>2. processed' = processed
    OBVIOUS
  <2> SUFFICES ASSUME NEW b
               PROVE  {e \in processed : IsReport(e)' /\ Subject(e)' = b}
                        = {e \in processed : IsReport(e) /\ Subject(e) = b}
    BY <2>2 DEF ReportsOn
  <2>. QED
    BY <2>1
<1>8. DeviceReportWins' /\ AckedOnlyByReport'
  BY <1>2, <1>7 DEF IInv, DeviceReportWins, AckedOnlyByReport
<1>. QED
  BY <1>2, <1>3, <1>4, <1>5, <1>6, <1>8 DEF TableOK

\* ChirpStack storing the queue item of a held row keeps the invariant.
LEMMA ChirpStackAcceptsIInv ==
  ASSUME IInv, NEW w \in Worker, ChirpStackAccepts(w)
  PROVE  IInv'
<1>1. /\ pc[w] = "calling"
      /\ downlinks' = Append(downlinks, cur[w])
      /\ got' = [got EXCEPT ![w] = Len(downlinks) + 1]
      /\ pc' = [pc EXCEPT ![w] = "accepted"]
      /\ UNCHANGED <<now, count, creators, columns, stamps, cur, left, late, events>>
  BY DEF ChirpStackAccepts
<1>2. cur[w] \in Created
  BY <1>1, HeldRow DEF Holding
<1>3. /\ downlinks' \in Seq(Command)
      /\ Item' = Item \cup {Len(downlinks) + 1}
      /\ Len(downlinks) + 1 \in Nat
      /\ downlinks'[Len(downlinks) + 1] = cur[w]
      /\ \A q \in Item : downlinks'[q] = downlinks[q]
      /\ \A e \in emitted : Subject(e)' = Subject(e)
  BY <1>1, <1>2, Stored
<1>4. TypeOK'
  <2>1. /\ got' \in [Worker -> Nat]
        /\ pc' \in [Worker -> {"idle", "pick", "calling", "accepted"}]
    BY <1>1, <1>3 DEF IInv, TypeOK
  <2>. QED
    BY <1>1, <1>3, <2>1 DEF IInv, TypeOK, creators, columns, stamps, events, Command, Event
<1>5. TableOK'
  BY <1>1, <1>2, StoredTable DEF IInv, QueueOK
<1>6. LoopsOK'
  <2> SUFFICES ASSUME NEW v \in Worker
               PROVE  /\ pc'[v] # "idle" => left'[v] > 0
                      /\ pc'[v] = "accepted" => got'[v] \in Item' /\ downlinks'[got'[v]] = cur'[v]
    BY DEF LoopsOK
  <2>1. CASE v = w
    BY <2>1, <1>1, <1>3 DEF IInv, LoopsOK, TypeOK
  <2>2. CASE v # w
    BY <2>2, <1>1, <1>3 DEF IInv, LoopsOK, TypeOK
  <2>. QED
    BY <2>1, <2>2
<1>7. \A v \in Worker : cur'[v] = cur[v] /\ (Holding(v)' <=> Holding(v))
  BY <1>1 DEF Holding, IInv, TypeOK
<1>8. SendersOK'
  BY <1>1, <1>7 DEF IInv, SendersOK, columns, Created
<1>9. HandlersOK'
  BY <1>1, <1>3, <1>7 DEF IInv, HandlersOK, TypeOK, IsReport, columns, events
<1>. QED
  BY <1>4, <1>5, <1>6, <1>8, <1>9 DEF IInv, TableOK

\* So does a late effect, whatever the row has become.
LEMMA TakesEffectLateIInv ==
  ASSUME IInv, NEW c \in Command, TakesEffectLate(c)
  PROVE  IInv'
<1>1. /\ late[c] > 0
      /\ downlinks' = Append(downlinks, c)
      /\ late' = [late EXCEPT ![c] = late[c] - 1]
      /\ UNCHANGED <<now, count, creators, columns, stamps, workers, events>>
  BY DEF TakesEffectLate
<1>2. c \in Created
  BY <1>1 DEF IInv, QueueOK
<1>3. /\ downlinks' \in Seq(Command)
      /\ Item \subseteq Item'
      /\ \A q \in Item : downlinks'[q] = downlinks[q]
      /\ \A e \in emitted : Subject(e)' = Subject(e)
  BY <1>1, <1>2, Stored
<1>4. late' \in [Command -> Nat] /\ \A b \in Command : late'[b] > 0 => b \in Created
  <2>1. late \in [Command -> Nat] /\ \A b \in Command : late[b] > 0 => b \in Created
    BY DEF IInv, TypeOK, QueueOK
  <2>. QED
    BY <1>1, <1>2, <2>1
<1>5. TypeOK'
  BY <1>1, <1>3, <1>4 DEF IInv, TypeOK, creators, columns, stamps, workers, events, Command, Event
<1>6. TableOK'
  BY <1>1, <1>2, <1>4, StoredTable
<1>7. LoopsOK' /\ SendersOK'
  BY <1>1, <1>3 DEF IInv, LoopsOK, SendersOK, Holding, Created, columns, workers
<1>8. HandlersOK'
  BY <1>1, <1>3 DEF IInv, HandlersOK, TypeOK, Holding, IsReport, columns, workers, events
<1>. QED
  BY <1>5, <1>6, <1>7, <1>8 DEF IInv, TableOK

\* A reply, good or bad, settles what the held row says, in one transaction.
LEMMA CommitOutcomeIInv ==
  ASSUME IInv, NEW w \in Worker, CommitSent(w) \/ CommitFailed(w)
  PROVE  IInv'
<1> DEFINE c == cur[w]
<1>1. /\ EndIteration(w)
      /\ pc[w] # "idle"
      /\ Holding(w)
      /\ UNCHANGED <<now, count, creators, device, seq, expires, ackAt, txAckedAt,
                     lorawanAckAt, network, events>>
  BY DEF CommitSent, CommitFailed, Holding
<1>2. /\ c \in Created /\ c \in Command
      /\ status[c] = "PENDING"
      /\ queueItem[c] = 0
      /\ ~ackAt[c] /\ ~failedAt[c]
      /\ ReportsOn(c) = {}
      /\ \A v \in Worker : Holding(v) /\ cur[v] = c => v = w
  BY <1>1, HeldRow
<1>3. /\ status' \in [Command -> Status]
      /\ queueItem' \in [Command -> Nat]
      /\ sentAt' \in [Command -> BOOLEAN]
      /\ failedAt' \in [Command -> BOOLEAN]
  <2>1. /\ got[w] \in Nat
        /\ status \in [Command -> Status] /\ queueItem \in [Command -> Nat]
        /\ sentAt \in [Command -> BOOLEAN] /\ failedAt \in [Command -> BOOLEAN]
    BY DEF IInv, TypeOK
  <2>2. CASE CommitSent(w)
    <3>1. status' \in [Command -> Status]
      BY <2>1, <2>2 DEF CommitSent, Status
    <3>. QED
      BY <2>1, <2>2, <3>1 DEF CommitSent
  <2>3. CASE CommitFailed(w)
    <3>1. status' \in [Command -> Status]
      BY <2>1, <2>3 DEF CommitFailed, Status, Terminal
    <3>. QED
      BY <2>1, <2>3, <3>1 DEF CommitFailed
  <2>. QED
    BY <2>2, <2>3
<1>4. \A b \in Command \ {c} : /\ status'[b] = status[b]
                               /\ queueItem'[b] = queueItem[b]
                               /\ sentAt'[b] = sentAt[b]
                               /\ failedAt'[b] = failedAt[b]
  BY DEF CommitSent, CommitFailed, IInv, TypeOK
<1>5. \/ /\ status'[c] = "SENT" /\ queueItem'[c] = got[w] /\ sentAt'[c] /\ ~failedAt'[c]
         /\ got[w] \in Item /\ downlinks[got[w]] = c
      \/ /\ status'[c] = "FAILED" /\ queueItem'[c] = 0 /\ failedAt'[c]
  <2>1. CASE CommitSent(w)
    BY <2>1, <1>2 DEF CommitSent, IInv, TypeOK, LoopsOK
  <2>2. CASE CommitFailed(w)
    BY <2>2, <1>2 DEF CommitFailed, IInv, TypeOK
  <2>. QED
    BY <2>1, <2>2
<1>6. /\ Created' = Created /\ Created \subseteq Command /\ Item' = Item
      /\ downlinks' = downlinks /\ late' = late
      /\ TransactionsOK' /\ SeqUnique'
  <2>1. \A b \in Command : status'[b] = "NONE" <=> status[b] = "NONE"
    BY <1>2, <1>4, <1>5
  <2>2. Created' = Created /\ TransactionsOK' /\ SeqUnique'
    BY <1>1, <2>1, NumberingFrame
  <2>. QED
    BY <1>1, <2>2 DEF network, Created, Item
<1>7. \A q \in Item : q # 0
  BY DEF IInv, TypeOK, Item
<1>8. /\ pc' \in [Worker -> {"idle", "pick", "calling", "accepted"}]
      /\ cur' \in [Worker -> 0 .. MaxCommands]
      /\ left' \in [Worker -> 0 .. BatchLimit]
      /\ got' \in [Worker -> Nat]
      /\ pc'[w] = "idle" \/ (pc'[w] = "pick" /\ left'[w] > 0)
      /\ \A v \in Worker \ {w} : /\ pc'[v] = pc[v] /\ cur'[v] = cur[v]
                                  /\ left'[v] = left[v] /\ got'[v] = got[v]
  BY <1>1, EndIterationTypes
<1> HIDE DEF c
<1>9. TypeOK'
  BY <1>1, <1>3, <1>8 DEF IInv, TypeOK, creators, network, events, Command, Event
<1>10. RowsOK'
  BY <1>1, <1>2, <1>4, <1>5, <1>6 DEF IInv, RowsOK
<1>11. LoopsOK'
  <2> SUFFICES ASSUME NEW v \in Worker
               PROVE  /\ pc'[v] # "idle" => left'[v] > 0
                      /\ pc'[v] = "accepted" => got'[v] \in Item' /\ downlinks'[got'[v]] = cur'[v]
    BY DEF LoopsOK
  <2>1. CASE v = w
    BY <2>1, <1>8
  <2>2. CASE v # w
    BY <2>2, <1>6, <1>8 DEF IInv, LoopsOK
  <2>. QED
    BY <2>1, <2>2
<1>12. QueueOK'
  BY <1>1, <1>6 DEF IInv, QueueOK, events
<1>13. ~Holding(w)' /\ \A v \in Worker \ {w} : cur'[v] = cur[v] /\ (Holding(v)' <=> Holding(v))
  BY <1>8 DEF Holding
<1>14. SendersOK'
  BY <1>2, <1>4, <1>6, <1>13 DEF IInv, SendersOK
<1>15. \A e : Subject(e)' = Subject(e) /\ (IsReport(e)' <=> IsReport(e))
  BY <1>6 DEF Subject, IsReport
<1>16. HandlersOK'
  <2>1. \A e \in handling : Subject(e) # c /\ Subject(e) \in Command
    <3>1. \A e \in handling : Subject(e) # c
      BY <1>1 DEF IInv, HandlersOK, c
    <3>2. \A e \in handling : Subject(e) \in Created
      BY SubjectExists DEF IInv, TypeOK
    <3>. QED
      BY <1>6, <3>1, <3>2
  <2>2. handling' = handling
    BY <1>1 DEF events
  <2>. QED
    BY <1>4, <1>13, <1>15, <2>1, <2>2 DEF IInv, HandlersOK
<1>17. ItemCorrelates'
  BY <1>4, <1>5, <1>6, <1>7 DEF IInv, ItemCorrelates
<1>18. NetworkEventsCorrelate'
  <2> SUFFICES ASSUME NEW e \in processed, ~IsReport(e)
               PROVE  e.item \in Item /\ queueItem'[downlinks[e.item]] = e.item
    BY <1>1, <1>6, <1>15 DEF NetworkEventsCorrelate, events
  <2>1. e.item \in Item /\ queueItem[downlinks[e.item]] = e.item
    BY DEF IInv, NetworkEventsCorrelate
  <2>2. downlinks[e.item] # c /\ downlinks[e.item] \in Command
    BY <2>1, <1>2, <1>6, <1>7 DEF IInv, QueueOK
  <2>. QED
    BY <2>1, <2>2, <1>4
<1>19. \A b : ReportsOn(b)' = ReportsOn(b)
  BY <1>1, <1>15 DEF ReportsOn, events
<1>20. DeviceReportWins' /\ AckedOnlyByReport'
  BY <1>2, <1>4, <1>5, <1>6, <1>19 DEF IInv, DeviceReportWins, AckedOnlyByReport
<1>21. StampsAgree'
  BY <1>1, <1>2, <1>4, <1>5, <1>6 DEF IInv, StampsAgree
<1>. QED
  BY <1>6, <1>9, <1>10, <1>11, <1>12, <1>14, <1>16, <1>17, <1>18, <1>20, <1>21 DEF IInv

-----------------------------------------------------------------------------
(* ChirpStack, the device and the clock.                                   *)

\* An event about an existing queue item or command may be published at any time.
LEMMA PublishIInv ==
  ASSUME IInv, NEW e \in Event, Publish(e),
         IF e.kind = "uuid" THEN e.row \in Created ELSE e.item \in Item
  PROVE  IInv'
<1>1. /\ emitted' = emitted \cup {e}
      /\ UNCHANGED <<now, count, creators, columns, stamps, workers, network,
                     handling, processed, dropped>>
  BY DEF Publish
<1> USE DEF creators, columns, stamps, workers, network, Item
<1>2. TypeOK'
  BY <1>1 DEF IInv, TypeOK, Command, Event
<1>3. Created' = Created /\ TransactionsOK' /\ SeqUnique'
  BY <1>1, NumberingFrame
<1>4. RowsOK' /\ LoopsOK' /\ QueueOK'
  BY <1>1, <1>3 DEF IInv, RowsOK, LoopsOK, QueueOK
<1>5. \A b : Subject(b)' = Subject(b) /\ (IsReport(b)' <=> IsReport(b))
  BY <1>1 DEF Subject, IsReport
<1>6. HandlersOK' /\ SendersOK'
  BY <1>1, <1>3, <1>5 DEF IInv, HandlersOK, SendersOK, Holding
<1>7. ItemCorrelates' /\ NetworkEventsCorrelate'
  BY <1>1, <1>3, <1>5 DEF IInv, ItemCorrelates, NetworkEventsCorrelate
<1>8. \A b : ReportsOn(b)' = ReportsOn(b)
  BY <1>1, <1>5 DEF ReportsOn
<1>9. DeviceReportWins' /\ AckedOnlyByReport' /\ StampsAgree'
  BY <1>1, <1>3, <1>8 DEF IInv, DeviceReportWins, AckedOnlyByReport, StampsAgree
<1>. QED
  BY <1>2, <1>3, <1>4, <1>6, <1>7, <1>9 DEF IInv

\* All the events of the environment are of this kind.
LEMMA EnvironmentIInv ==
  ASSUME IInv, Environment
  PROVE  IInv'
<1>1. ASSUME NEW q \in Item,
             \/ \E res \in {"OK", "NOT_OK"} : Transmit(q, res)
             \/ \E res \in {"ACK", "NACK"} : AcknowledgeFrame(q, res)
             \/ \E res \in AckStatus : Report(q, res)
      PROVE  IInv'
  <2>1. q \in Nat \ {0}
    BY DEF IInv, TypeOK, Item
  <2>2. PICK e \in Event : e.kind # "uuid" /\ e.item \in Item /\ Publish(e)
    <3>1. CASE \E res \in {"OK", "NOT_OK"} : Transmit(q, res)
      BY <3>1, <2>1 DEF Transmit, TxAck, Event
    <3>2. CASE \E res \in {"ACK", "NACK"} : AcknowledgeFrame(q, res)
      BY <3>2, <2>1 DEF AcknowledgeFrame, NetAck, Event
    <3>3. CASE \E res \in AckStatus : Report(q, res)
      BY <3>3, <2>1 DEF Report, AppAck, Event
    <3>. QED
      BY <1>1, <3>1, <3>2, <3>3
  <2>. QED
    BY <2>2, PublishIInv
<1>2. ASSUME NEW c \in Command, NEW res \in AckStatus, ReportByUuid(c, res)
      PROVE  IInv'
  BY <1>2, PublishIInv DEF ReportByUuid, UuidAck, Event
<1>. QED
  BY <1>1, <1>2 DEF Environment

\* Steps that leave everything but the clock alone.
LEMMA ClockIInv ==
  ASSUME IInv, Tick \/ UNCHANGED vars
  PROVE  IInv'
<1>1. /\ now' \in Nat
      /\ UNCHANGED <<count, creators, columns, stamps, workers, network, events>>
  BY DEF Tick, vars, IInv, TypeOK
<1>2. TableOK'
  BY <1>1, TableFrame DEF IInv, QueueOK, network, events
<1>3. TypeOK' /\ LoopsOK' /\ SendersOK'
  BY <1>1 DEF IInv, TypeOK, LoopsOK, SendersOK, creators, columns, stamps, workers, network,
              events, Created, Item, Holding, Command, Event
<1>4. HandlersOK'
  BY <1>1 DEF IInv, HandlersOK, Subject, IsReport, Holding, columns, workers, network, events
<1>. QED
  BY <1>2, <1>3, <1>4 DEF IInv, TableOK

-----------------------------------------------------------------------------
(* The event handlers.                                                     *)

\* Locking the row an event names keeps the invariant: nobody else has it.
LEMMA LockRowIInv ==
  ASSUME IInv, NEW e \in emitted, NEW c \in Created, LockRow(e, c)
  PROVE  IInv'
<1>1. /\ Names(e, c)
      /\ ~Locked(c)
      /\ handling' = handling \cup {e}
      /\ UNCHANGED <<now, count, creators, columns, stamps, workers, network,
                     emitted, processed, dropped>>
  BY DEF LockRow
<1>2. TableOK'
  BY <1>1, TableFrame DEF IInv, QueueOK, network
<1>3. TypeOK' /\ LoopsOK' /\ SendersOK'
  <2>1. TypeOK'
    BY <1>1 DEF IInv, TypeOK, creators, columns, stamps, workers, network, Command, Event
  <2>2. LoopsOK'
    BY <1>1 DEF IInv, LoopsOK, workers, network, Item
  <2>3. SendersOK'
    BY <1>1 DEF IInv, SendersOK, Holding, columns, workers, Created, Command
  <2>. QED
    BY <2>1, <2>2, <2>3
<1>4. /\ c = Subject(e)
      /\ ~IsReport(e) => queueItem[c] = e.item
  BY <1>1, TargetIsSubject
<1>5. \A w \in Worker : Holding(w) => cur[w] # c
  BY <1>1 DEF Locked, Sending
<1>6. \A f \in handling : Subject(f) # c
  <2> SUFFICES ASSUME NEW f \in handling, Subject(f) = c PROVE Names(f, c)
    BY <1>1 DEF Locked
  <2>1. ~IsReport(f) => queueItem[c] = f.item
    BY DEF IInv, HandlersOK
  <2>. QED
    BY <2>1 DEF Names, IsReport, IsAckTarget, IsNetworkTarget, Subject
<1>7. HandlersOK'
  <2>1. \A f : Subject(f)' = Subject(f) /\ (IsReport(f)' <=> IsReport(f))
    BY <1>1 DEF Subject, IsReport, network
  <2>2. \A w \in Worker : cur'[w] = cur[w] /\ (Holding(w)' <=> Holding(w))
    BY <1>1 DEF Holding, workers
  <2>3. queueItem' = queueItem
    BY <1>1 DEF columns
  <2>. QED
    BY <1>1, <1>4, <1>5, <1>6, <2>1, <2>2, <2>3 DEF IInv, HandlersOK
<1>. QED
  BY <1>2, <1>3, <1>7 DEF IInv, TableOK

\* A handler that fails leaves nothing behind but an event nobody handles again.
LEMMA HandlerFailsIInv ==
  ASSUME IInv, NEW e \in handling, HandlerFails(e)
  PROVE  IInv'
<1>1. /\ handling' = handling \ {e}
      /\ dropped' = dropped \cup {e}
      /\ UNCHANGED <<now, count, creators, columns, stamps, workers, network,
                     emitted, processed>>
  BY DEF HandlerFails
<1>2. TableOK'
  BY <1>1, TableFrame DEF IInv, QueueOK, network
<1>3. TypeOK' /\ LoopsOK' /\ SendersOK'
  <2>1. handling' \cup processed' \cup dropped' \subseteq emitted'
    BY <1>1 DEF IInv, TypeOK
  <2>2. TypeOK'
    BY <1>1, <2>1 DEF IInv, TypeOK, creators, columns, stamps, workers, network, Command, Event
  <2>3. LoopsOK' /\ SendersOK'
    BY <1>1 DEF IInv, LoopsOK, SendersOK, columns, workers, network, Created, Item, Holding
  <2>. QED
    BY <2>2, <2>3
<1>4. HandlersOK'
  BY <1>1 DEF IInv, HandlersOK, Subject, IsReport, Holding, columns, workers, network
<1>. QED
  BY <1>2, <1>3, <1>4 DEF IInv, TableOK

\* What every handler leaves alone, and what is known of the row it has locked.
LEMMA MarkedProcessed ==
  ASSUME IInv, NEW e \in handling, NEW c \in Created, Names(e, c), MarkProcessed(e),
         status' \in [Command -> Status],
         \A b \in Command : status'[b] = "NONE" <=> status[b] = "NONE",
         \A b \in Command \ {c} : status'[b] = status[b],
         status'[c] = status[c] \/ status'[c] \in Terminal,
         ackAt' \in [Command -> BOOLEAN], failedAt' \in [Command -> BOOLEAN],
         txAckedAt' \in [Command -> BOOLEAN], lorawanAckAt' \in [Command -> BOOLEAN],
         \A b \in Command \ {c} : ackAt'[b] = ackAt[b] /\ failedAt'[b] = failedAt[b],
         UNCHANGED sentAt
  PROVE  /\ c = Subject(e) /\ c \in Command
         /\ Created' = Created /\ Created \subseteq Command
         /\ TypeOK' /\ TransactionsOK' /\ SeqUnique' /\ RowsOK' /\ LoopsOK' /\ QueueOK'
         /\ HandlersOK' /\ SendersOK' /\ ItemCorrelates' /\ NetworkEventsCorrelate'
         /\ processed' = processed \cup {e}
         /\ \A b : b # c => ReportsOn(b)' = ReportsOn(b)
         /\ ReportsOn(c)' = IF IsReport(e) THEN ReportsOn(c) \cup {e} ELSE ReportsOn(c)
<1>1. /\ handling' = handling \ {e}
      /\ processed' = processed \cup {e}
      /\ UNCHANGED <<now, count, creators, device, seq, expires, queueItem, workers,
                     network, emitted, dropped>>
  BY DEF MarkProcessed
<1>2. e \in emitted
  BY DEF IInv, TypeOK
<1>3. /\ c = Subject(e) /\ c \in Command
      /\ ~IsReport(e) => e.item \in Item /\ queueItem[c] = e.item
  BY <1>2, TargetIsSubject DEF Created
<1>4. Created' = Created /\ TransactionsOK' /\ SeqUnique'
  BY <1>1, NumberingFrame
<1>5. Created \subseteq Command /\ Item' = Item /\ downlinks' = downlinks /\ late' = late
  BY <1>1 DEF Created, Item, network
<1>6. TypeOK'
  <2>1. TypeOK
    BY DEF IInv
  <2>2. (handling \cup processed \cup dropped \subseteq emitted)'
    BY <1>1, <1>2, <2>1 DEF TypeOK
  <2>3. UNCHANGED <<now, count, uplink, drafts, flushed, device, seq, expires, queueItem, sentAt,
                    pc, cur, left, got, downlinks, late, emitted>>
    BY <1>1 DEF creators, workers, network
  <2>. QED
    BY <2>1, <2>2, <2>3 DEF TypeOK, Command, Event
<1>7. RowsOK'
  BY <1>1, <1>4, <1>5 DEF IInv, RowsOK
<1>8. LoopsOK' /\ QueueOK'
  BY <1>1, <1>4, <1>5 DEF IInv, LoopsOK, QueueOK, workers
<1>9. \A f : Subject(f)' = Subject(f) /\ (IsReport(f)' <=> IsReport(f))
  BY <1>5 DEF Subject, IsReport
<1>10. \A w \in Worker : cur'[w] = cur[w] /\ (Holding(w)' <=> Holding(w))
  BY <1>1 DEF Holding, workers
<1>11. HandlersOK'
  BY <1>1, <1>9, <1>10 DEF IInv, HandlersOK
<1>12. SendersOK'
  <2>1. \A w \in Worker : Holding(w) => cur[w] # c
    BY <1>3 DEF IInv, HandlersOK
  <2>. QED
    BY <1>4, <1>5, <1>10, <2>1 DEF IInv, SendersOK
<1>13. ItemCorrelates'
  <2>1. \A b \in Created : status'[b] \in {"SENT", "PENDING"} => status[b] = status'[b]
    BY <1>5 DEF Terminal
  <2>. QED
    BY <1>1, <1>4, <1>5, <2>1 DEF IInv, ItemCorrelates
<1>14. NetworkEventsCorrelate'
  <2> SUFFICES ASSUME NEW f \in processed', ~IsReport(f)
               PROVE  f.item \in Item /\ queueItem[downlinks[f.item]] = f.item
    BY <1>1, <1>5, <1>9 DEF NetworkEventsCorrelate
  <2>1. CASE f \in processed
    BY <2>1 DEF IInv, NetworkEventsCorrelate
  <2>2. CASE f = e
    BY <1>3, <2>2 DEF Subject, IsReport
  <2>. QED
    BY <1>1, <2>1, <2>2
<1>15. /\ \A b : b # c => ReportsOn(b)' = ReportsOn(b)
       /\ ReportsOn(c)' = IF IsReport(e) THEN ReportsOn(c) \cup {e} ELSE ReportsOn(c)
  <2>1. \A b : ReportsOn(b)' = {f \in processed \cup {e} : IsReport(f) /\ Subject(f) = b}
    BY <1>1, <1>9 DEF ReportsOn
  <2>. QED
    BY <1>3, <2>1 DEF ReportsOn
<1>. QED
  BY <1>1, <1>3, <1>4, <1>5, <1>6, <1>7, <1>8, <1>11, <1>12, <1>13, <1>14, <1>15

\* A txack or an ack, good or bad, keeps the invariant.
LEMMA NetworkEventIInv ==
  ASSUME IInv, NEW e \in handling, NEW c \in Created,
         HandleTxAck(e, c) \/ HandleNetworkAck(e, c)
  PROVE  IInv'
<1>1. /\ ~IsReport(e)
      /\ Names(e, c)
      /\ MarkProcessed(e)
      /\ UNCHANGED <<sentAt, ackAt>>
  BY DEF HandleTxAck, HandleNetworkAck, IsReport, Names
<1>2. c \in Command
  BY DEF Created
<1>3. /\ txAckedAt' \in [Command -> BOOLEAN] /\ lorawanAckAt' \in [Command -> BOOLEAN]
      /\ ackAt' \in [Command -> BOOLEAN]
  BY DEF HandleTxAck, HandleNetworkAck, IInv, TypeOK
<1>4. FailUnlessTerminal(c) \/ UNCHANGED <<status, failedAt>>
  BY DEF HandleTxAck, HandleNetworkAck
<1>5. \/ UNCHANGED <<status, failedAt>>
      \/ /\ status[c] \notin Terminal
         /\ status' = [status EXCEPT ![c] = "FAILED"]
         /\ failedAt' = [failedAt EXCEPT ![c] = TRUE]
  BY <1>4 DEF FailUnlessTerminal
<1>6. /\ \A b \in Command \ {c} : status'[b] = status[b] /\ failedAt'[b] = failedAt[b]
      /\ \/ status'[c] = status[c] /\ failedAt'[c] = failedAt[c]
         \/ status[c] \notin Terminal /\ status'[c] = "FAILED" /\ failedAt'[c]
      /\ status' \in [Command -> Status] /\ failedAt' \in [Command -> BOOLEAN]
  <2>1. status \in [Command -> Status] /\ failedAt \in [Command -> BOOLEAN] /\ "FAILED" \in Status
    BY DEF IInv, TypeOK, Status, Terminal
  <2>. QED
    BY <1>2, <1>5, <2>1
<1>7. /\ \A b \in Command : status'[b] = "NONE" <=> status[b] = "NONE"
      /\ status'[c] = status[c] \/ status'[c] \in Terminal
  BY <1>2, <1>6 DEF Created, Terminal
<1>8. /\ Created' = Created /\ Created \subseteq Command
      /\ TypeOK' /\ TransactionsOK' /\ SeqUnique' /\ RowsOK' /\ LoopsOK' /\ QueueOK'
      /\ HandlersOK' /\ SendersOK' /\ ItemCorrelates' /\ NetworkEventsCorrelate'
      /\ \A b : ReportsOn(b)' = ReportsOn(b)
  BY <1>1, <1>3, <1>6, <1>7, MarkedProcessed
<1>9. status[c] \notin Terminal => ReportsOn(c) = {}
  BY OpenUnreported
<1>10. DeviceReportWins' /\ AckedOnlyByReport'
  BY <1>6, <1>8, <1>9 DEF IInv, DeviceReportWins, AckedOnlyByReport
<1>11. StampsAgree'
  BY <1>1, <1>6, <1>8 DEF IInv, StampsAgree
<1>. QED
  BY <1>8, <1>10, <1>11 DEF IInv

\* A report reaches the very command it is about, and keeps the invariant
\* whatever the status it overwrites.
LEMMA ApplicationAckIInv ==
  ASSUME IInv, NEW e \in handling, NEW c \in Created, HandleApplicationAck(e, c)
  PROVE  IInv'
<1>1. /\ IsReport(e)
      /\ Names(e, c)
      /\ MarkProcessed(e)
      /\ status' = [status EXCEPT ![c] = Verdict(e.res)]
      /\ ackAt' = [ackAt EXCEPT ![c] = ackAt[c] \/ Verdict(e.res) = "ACKED"]
      /\ failedAt' = [failedAt EXCEPT ![c] = FailedStampAfter(e.res, failedAt[c])]
      /\ UNCHANGED <<sentAt, txAckedAt, lorawanAckAt>>
  BY DEF HandleApplicationAck, Names
<1>2. c \in Command
  BY DEF Created
<1>3. Verdict(e.res) \in Terminal /\ FailedStampAfter(e.res, failedAt[c]) \in BOOLEAN
  BY <1>2 DEF Verdict, FailedStampAfter, Terminal, IInv, TypeOK
<1>4. /\ status'[c] = Verdict(e.res)
      /\ ackAt'[c] = (ackAt[c] \/ Verdict(e.res) = "ACKED")
      /\ failedAt'[c] = FailedStampAfter(e.res, failedAt[c])
      /\ \A b \in Command \ {c} : /\ status'[b] = status[b]
                                  /\ ackAt'[b] = ackAt[b]
                                  /\ failedAt'[b] = failedAt[b]
  BY <1>1, <1>2 DEF IInv, TypeOK
<1>5. /\ status' \in [Command -> Status]
      /\ ackAt' \in [Command -> BOOLEAN] /\ failedAt' \in [Command -> BOOLEAN]
      /\ txAckedAt' \in [Command -> BOOLEAN] /\ lorawanAckAt' \in [Command -> BOOLEAN]
  <2>1. status' \in [Command -> Status]
    BY <1>1, <1>3 DEF IInv, TypeOK, Status
  <2>2. ackAt' \in [Command -> BOOLEAN] /\ failedAt' \in [Command -> BOOLEAN]
    BY <1>1, <1>3 DEF IInv, TypeOK
  <2>. QED
    BY <1>1, <2>1, <2>2 DEF IInv, TypeOK
<1>6. \A b \in Command : status'[b] = "NONE" <=> status[b] = "NONE"
  BY <1>3, <1>4 DEF Created, Terminal
<1>7. /\ Created' = Created /\ Created \subseteq Command
      /\ TypeOK' /\ TransactionsOK' /\ SeqUnique' /\ RowsOK' /\ LoopsOK' /\ QueueOK'
      /\ HandlersOK' /\ SendersOK' /\ ItemCorrelates' /\ NetworkEventsCorrelate'
      /\ ReportsOn(c)' = ReportsOn(c) \cup {e}
      /\ \A b : b # c => ReportsOn(b)' = ReportsOn(b)
  BY <1>1, <1>3, <1>4, <1>5, <1>6, MarkedProcessed
<1>8. DeviceReportWins'
  BY <1>4, <1>7 DEF IInv, DeviceReportWins
<1>9. AckedOnlyByReport'
  <2>1. Verdict(e.res) = "ACKED" => e.res \in {"EXECUTED", "DUPLICATE"}
    BY DEF Verdict
  <2>. QED
    BY <2>1, <1>4, <1>7 DEF IInv, AckedOnlyByReport
<1>10. StampsAgree'
  <2>1. \A b \in Created \ {c} :
           /\ b \in Command /\ status'[b] = status[b] /\ ackAt'[b] = ackAt[b]
           /\ failedAt'[b] = failedAt[b] /\ sentAt'[b] = sentAt[b]
    BY <1>1, <1>4, <1>7
  <2>2. /\ status'[c] \in Terminal
        /\ status'[c] = "ACKED" => ackAt'[c] /\ ~failedAt'[c]
        /\ status'[c] = "FAILED" => failedAt'[c]
    BY <1>3, <1>4 DEF FailedStampAfter
  <2>3. status'[c] # "PENDING" /\ status'[c] # "SENT"
    BY <2>2 DEF Terminal
  <2>. QED
    BY <2>1, <2>2, <2>3, <1>7 DEF IInv, StampsAgree
<1>. QED
  BY <1>7, <1>8, <1>9, <1>10 DEF IInv

-----------------------------------------------------------------------------
(* The theorems.                                                           *)

\* Every step of the system keeps the inductive invariant.
LEMMA NextIInv == IInv /\ [Next]_vars => IInv'
<1> SUFFICES ASSUME IInv, [Next]_vars PROVE IInv'
  OBVIOUS
<1>1. CASE \E t \in Creator : CreatorStep(t)
  BY <1>1, CreatorIInv
<1>2. ASSUME NEW w \in Worker, WorkerStep(w) \/ CycleAborted(w) PROVE IInv'
  BY <1>2, ExpireBatchIInv, PickPendingIInv, ReleaseIInv, ChirpStackAcceptsIInv,
     CommitOutcomeIInv DEF WorkerStep
<1>3. CASE \E c \in Command : TakesEffectLate(c)
  BY <1>3, TakesEffectLateIInv
<1>4. CASE Environment
  BY <1>4, EnvironmentIInv
<1>5. CASE \E e \in emitted, c \in Created : LockRow(e, c)
  BY <1>5, LockRowIInv
<1>6. CASE EndHandling
  BY <1>6, HandlerFailsIInv, NetworkEventIInv, ApplicationAckIInv DEF EndHandling
<1>7. CASE Tick \/ UNCHANGED vars
  BY <1>7, ClockIInv
<1>. QED
  BY <1>1, <1>2, <1>3, <1>4, <1>5, <1>6, <1>7 DEF Next

\* The inductive invariant holds in every reachable state.
THEOREM Invariance == Spec => []IInv
<1>1. Init => IInv
  BY InitIInv
<1>2. IInv /\ [Next]_vars => IInv'
  BY NextIInv
<1>. QED
  BY <1>1, <1>2, PTL DEF Spec

\* Every variable keeps its type.
THEOREM TypeCorrect == Spec => []TypeOK
<1>1. IInv => TypeOK
  BY DEF IInv
<1>. QED
  BY <1>1, Invariance, PTL

\* A command that is being sent is PENDING and nobody else's; a row that a
\* handler is changing is no other handler's.
THEOREM ExclusiveLocks == Spec => []LocksExclusive
<1>1. ASSUME IInv PROVE LocksExclusive
  <2>1. \A e \in handling : e \in emitted
    BY <1>1 DEF IInv, TypeOK
  <2>2. \A e \in handling, c \in Created : Names(e, c) => c = Subject(e)
    BY <1>1, <2>1, TargetIsSubject
  <2>. QED
    BY <1>1, <2>2 DEF IInv, SendersOK, HandlersOK, LocksExclusive
<1>. QED
  BY <1>1, Invariance, PTL

\* A number is given out once per device, to whichever transactions allocate.
THEOREM UniqueNumbers == Spec => []SeqUnique
<1>1. IInv => SeqUnique
  BY DEF IInv
<1>. QED
  BY <1>1, Invariance, PTL

\* Queue item ids on rows are those of the row's own downlinks.
THEOREM Correlation == Spec => []ItemCorrelates
<1>1. IInv => ItemCorrelates
  BY DEF IInv
<1>. QED
  BY <1>1, Invariance, PTL

\* The network events applied to a row are about its own downlinks.
THEOREM NetworkCorrelation == Spec => []NetworkEventsCorrelate
<1>1. IInv => NetworkEventsCorrelate
  BY DEF IInv
<1>. QED
  BY <1>1, Invariance, PTL

\* The device's own report decides.
THEOREM DeviceDecides == Spec => []DeviceReportWins
<1>1. IInv => DeviceReportWins
  BY DEF IInv
<1>. QED
  BY <1>1, Invariance, PTL

\* No command is ACKED without a report that it was executed.
THEOREM AckNeedsReport == Spec => []AckedOnlyByReport
<1>1. IInv => AckedOnlyByReport
  BY DEF IInv
<1>. QED
  BY <1>1, Invariance, PTL

\* Time stamps and status tell the same story.
THEOREM StampsConsistent == Spec => []StampsAgree
<1>1. IInv => StampsAgree
  BY DEF IInv
<1>. QED
  BY <1>1, Invariance, PTL

-----------------------------------------------------------------------------
(* The contract with the issuer of a command.                              *)

Handed == {downlinks[q] : q \in Item}
Seen == <<status, UnderWay, Handed, Reported>>

\* Writing status of some rows, as the contract writes it.
LEMMA OneRowAssigned ==
  ASSUME IInv, NEW c \in Command, NEW s, status' = [status EXCEPT ![c] = s]
  PROVE  Contract!Assign({c}, s)
BY DEF Contract!Assign, IInv, TypeOK

\* A row that exists and is not settled is open.
LEMMA CreatedOpen ==
  ASSUME IInv, NEW c \in Created, status[c] \notin Terminal
  PROVE  c \in Command /\ Contract!Open(c)
<1>1. c \in Command /\ status[c] # "NONE"
  BY DEF Created
<1>2. status[c] \in Status
  BY <1>1 DEF IInv, TypeOK
<1>. QED
  BY <1>1, <1>2 DEF Contract!Open, Status

\* What the issuer sees of ChirpStack and of the reports.
LEMMA QueueSeen == UNCHANGED downlinks => UNCHANGED Handed
BY DEF Handed, Item

LEMMA ReportsSeen == UNCHANGED emitted => UNCHANGED Reported
BY DEF Reported

\* Calls are the same after a step of a worker that makes and ends none.
LEMMA NoCall ==
  ASSUME NEW w \in Worker, pc[w] # "calling", pc'[w] # "calling", UNCHANGED late,
         \A v \in Worker \ {w} : pc'[v] = pc[v] /\ cur'[v] = cur[v]
  PROVE  UNCHANGED UnderWay
BY DEF UnderWay

LEMMA CallsSeen == UNCHANGED <<workers, late>> => UNCHANGED UnderWay
BY DEF UnderWay, workers

\* A worker that leaves its call, given up or not, ends at most that one.
LEMMA CallEnds ==
  ASSUME IInv, NEW w \in Worker, pc[w] = "calling", pc'[w] # "calling",
         \A v \in Worker \ {w} : pc'[v] = pc[v] /\ cur'[v] = cur[v],
         \A b \in Command \ {cur[w]} : late'[b] = late[b]
  PROVE  Contract!Returns(cur[w]) /\ cur[w] \in UnderWay
<1>1. cur[w] \in Command
  BY HeldRow DEF Holding
<1>2. cur[w] \in UnderWay
  BY <1>1 DEF UnderWay
<1>3. \A b \in Command \ {cur[w]} : b \in UnderWay' <=> b \in UnderWay
  BY DEF UnderWay
<1>4. UnderWay \subseteq Command /\ UnderWay' \subseteq Command
  BY DEF UnderWay
<1>5. UnderWay' = UnderWay \/ UnderWay' = UnderWay \ {cur[w]}
  BY <1>2, <1>3, <1>4
<1>. QED
  BY <1>2, <1>5 DEF Contract!Returns

\* Of a creator's steps the issuer sees the commit, which issues its rows.
LEMMA CreatorKeepsContract ==
  ASSUME IInv, NEW t \in Creator, CreatorStep(t)
  PROVE  Contract!Next \/ UNCHANGED Seen
<1>1. UNCHANGED <<workers, network, events>>
  BY DEF CreatorStep, TakeSequenceLock, AddCommand, Flush, CommitCommands, RollBack
<1>2. UNCHANGED <<UnderWay, Handed, Reported>>
  BY <1>1, CallsSeen, QueueSeen, ReportsSeen DEF network, events
<1>3. CASE UNCHANGED status
  BY <1>2, <1>3 DEF Seen
<1>4. CASE CommitCommands(t)
  <2>1. flushed[t] \subseteq Command /\ \A c \in flushed[t] : status[c] = "NONE"
    BY DEF IInv, TypeOK, TransactionsOK
  <2>2. Contract!Issue(flushed[t])
    BY <1>2, <1>4, <2>1 DEF CommitCommands, Contract!Issue, Contract!Assign, Handed
  <2>. QED
    BY <2>1, <2>2 DEF Contract!Next
<1>. QED
  BY <1>3, <1>4 DEF CreatorStep, TakeSequenceLock, AddCommand, Flush, RollBack, columns

\* ChirpStack storing a queue item hands the command over.
LEMMA StoringHandsOver ==
  ASSUME IInv, NEW c \in Created, downlinks' = Append(downlinks, c),
         UNCHANGED <<status, emitted>>, c \in UnderWay, Contract!Returns(c)
  PROVE  Contract!Next
<1>1. Handed' = Handed \cup {c}
  <2>1. /\ Item' = Item \cup {Len(downlinks) + 1}
        /\ downlinks'[Len(downlinks) + 1] = c
        /\ \A q \in Item : downlinks'[q] = downlinks[q]
    BY Stored
  <2>. QED
    BY <2>1 DEF Handed
<1>2. Contract!HandOver(c)
  BY <1>1, ReportsSeen DEF Contract!HandOver, Handed
<1>. QED
  BY <1>2 DEF Contract!Next, Created

LEMMA LateKeepsContract ==
  ASSUME IInv, NEW c \in Command, TakesEffectLate(c)
  PROVE  Contract!Next
<1>1. /\ late[c] > 0 /\ downlinks' = Append(downlinks, c)
      /\ late' = [late EXCEPT ![c] = late[c] - 1]
      /\ UNCHANGED <<status, emitted, pc, cur>>
  BY DEF TakesEffectLate, columns, workers, events
<1>2. c \in Created /\ late \in [Command -> Nat]
  BY <1>1 DEF IInv, TypeOK, QueueOK
<1>3. c \in UnderWay
  BY <1>1 DEF UnderWay
<1>4. \A b \in Command \ {c} : b \in UnderWay' <=> b \in UnderWay
  BY <1>1, <1>2 DEF UnderWay
<1>5. UnderWay \subseteq Command /\ UnderWay' \subseteq Command
  BY DEF UnderWay
<1>6. UnderWay' = UnderWay \/ UnderWay' = UnderWay \ {c}
  BY <1>3, <1>4, <1>5
<1>. QED
  BY <1>1, <1>2, <1>3, <1>6, StoringHandsOver DEF Contract!Returns

\* Every worker step is a step of the contract, or unseen.
LEMMA WorkerKeepsContract ==
  ASSUME IInv, NEW w \in Worker, WorkerStep(w) \/ CycleAborted(w)
  PROVE  Contract!Next \/ UNCHANGED Seen
<1>1. CASE ExpireBatch(w)
  <2>1. PICK batch \in SUBSET {c \in Created : Overdue(c) /\ ~Locked(c)} :
          status' = [c \in Command |-> IF c \in batch THEN "EXPIRED" ELSE status[c]]
    BY <1>1 DEF ExpireBatch
  <2>2. \A c \in batch : c \in Command /\ Contract!Open(c)
    BY <2>1, CreatedOpen DEF Overdue
  <2>3. /\ UNCHANGED <<cur, network, events>>
        /\ pc[w] = "idle" /\ pc'[w] # "calling"
        /\ \A v \in Worker \ {w} : pc'[v] = pc[v]
    BY <1>1 DEF ExpireBatch, IInv, TypeOK
  <2>4. UNCHANGED <<UnderWay, Handed, Reported>>
    BY <2>3, NoCall, QueueSeen, ReportsSeen DEF network, events
  <2>5. Contract!Expire(batch)
    BY <2>1, <2>2, <2>4 DEF Contract!Expire, Contract!Assign, Handed
  <2>. QED
    BY <2>2, <2>5 DEF Contract!Next
<1>2. CASE PickPending(w)
  <2>1. PICK c \in Created : c \in Candidates /\ cur' = [cur EXCEPT ![w] = c]
    BY <1>2 DEF PickPending, IsOldestCandidate
  <2>2. /\ pc[w] = "pick" /\ pc' = [pc EXCEPT ![w] = "calling"]
        /\ UNCHANGED <<status, network, events>>
    BY <1>2 DEF PickPending, columns
  <2>3. /\ pc'[w] = "calling" /\ cur'[w] = c
        /\ \A v \in Worker \ {w} : pc'[v] = pc[v] /\ cur'[v] = cur[v]
    BY <2>1, <2>2 DEF IInv, TypeOK
  <2>4. c \in Command /\ status[c] = "PENDING"
    BY <2>1 DEF Created, Candidates
  <2>5. UnderWay' = UnderWay \cup {c}
    BY <2>2, <2>3, <2>4 DEF UnderWay, network
  <2>6. Contract!Ask(c)
    BY <2>2, <2>4, <2>5, QueueSeen, ReportsSeen DEF Contract!Ask, Handed, network, events
  <2>. QED
    BY <2>4, <2>6 DEF Contract!Next
<1>3. CASE PickNothing(w)
  <2>1. /\ UNCHANGED <<status, cur, network, events>>
        /\ pc[w] = "pick" /\ pc'[w] # "calling"
        /\ \A v \in Worker \ {w} : pc'[v] = pc[v]
    BY <1>3 DEF PickNothing, columns, IInv, TypeOK
  <2>. QED
    BY <2>1, NoCall, QueueSeen, ReportsSeen DEF Seen, network, events
<1>4. CASE ChirpStackAccepts(w)
  <2>1. /\ pc[w] = "calling" /\ pc'[w] # "calling"
        /\ \A v \in Worker \ {w} : pc'[v] = pc[v]
        /\ downlinks' = Append(downlinks, cur[w])
        /\ UNCHANGED <<status, cur, late, emitted>>
    BY <1>4 DEF ChirpStackAccepts, columns, events, IInv, TypeOK
  <2>2. cur[w] \in Created
    BY <2>1, HeldRow DEF Holding
  <2>3. Contract!Returns(cur[w]) /\ cur[w] \in UnderWay
    BY <2>1, CallEnds
  <2>. QED
    BY <2>1, <2>2, <2>3, StoringHandsOver
<1>5. CASE CommitSent(w)
  <2>1. cur[w] \in Command /\ status[cur[w]] = "PENDING" /\ pc[w] = "accepted"
    BY <1>5, HeldRow DEF CommitSent, Holding
  <2>2. /\ pc'[w] # "calling" /\ \A v \in Worker \ {w} : pc'[v] = pc[v] /\ cur'[v] = cur[v]
        /\ UNCHANGED <<network, events>>
    BY <1>5, <2>1, EndIterationTypes DEF CommitSent
  <2>3. UNCHANGED <<UnderWay, Handed, Reported>>
    BY <2>1, <2>2, NoCall, QueueSeen, ReportsSeen DEF network, events
  <2>4. cur[w] \in Handed
    BY <2>1 DEF IInv, LoopsOK, Handed
  <2>5. Contract!Assign({cur[w]}, "SENT")
    BY <1>5, <2>1, OneRowAssigned DEF CommitSent
  <2>6. Contract!MarkSent(cur[w])
    BY <2>1, <2>3, <2>4, <2>5 DEF Contract!MarkSent, Handed
  <2>. QED
    BY <2>1, <2>6 DEF Contract!Next
<1>6. CASE CommitFailed(w)
  <2>1. Holding(w) /\ cur[w] \in Command /\ status[cur[w]] = "PENDING"
    BY <1>6, HeldRow DEF CommitFailed, Holding
  <2>2. /\ pc'[w] # "calling" /\ \A v \in Worker \ {w} : pc'[v] = pc[v] /\ cur'[v] = cur[v]
        /\ UNCHANGED <<network, events>>
    BY <1>6, <2>1, EndIterationTypes DEF CommitFailed, Holding
  <2>3. Contract!Returns(cur[w])
    <3>1. CASE pc[w] = "calling"
      BY <2>2, <3>1, CallEnds DEF network
    <3>2. CASE pc[w] # "calling"
      BY <2>2, <3>2, NoCall DEF network, Contract!Returns
    <3>. QED
      BY <3>1, <3>2
  <2>4. UNCHANGED <<Handed, Reported>>
    BY <2>2, QueueSeen, ReportsSeen DEF network, events
  <2>5. Contract!Assign({cur[w]}, "FAILED")
    BY <1>6, <2>1, OneRowAssigned DEF CommitFailed
  <2>6. Contract!Fail(cur[w])
    BY <2>1, <2>3, <2>4, <2>5 DEF Contract!Fail, Contract!Open, Handed
  <2>. QED
    BY <2>1, <2>6 DEF Contract!Next
<1>7. CASE CommitRetryable(w) \/ CycleAborted(w)
  <2>1. /\ UNCHANGED <<status, downlinks, events>>
        /\ pc[w] # "calling" => UNCHANGED late
        /\ pc[w] = "calling" => GiveUp(cur[w])
    BY <1>7 DEF CommitRetryable, CycleAborted, columns
  <2>2. pc'[w] # "calling" /\ \A v \in Worker \ {w} : pc'[v] = pc[v] /\ cur'[v] = cur[v]
    <3>1. CASE CommitRetryable(w)
      BY <3>1, EndIterationTypes DEF CommitRetryable
    <3>2. CASE CycleAborted(w)
      BY <3>2 DEF CycleAborted, IInv, TypeOK
    <3>. QED
      BY <1>7, <3>1, <3>2
  <2>3. CASE pc[w] # "calling"
    BY <2>1, <2>2, <2>3, NoCall, QueueSeen, ReportsSeen DEF Seen, events
  <2>4. CASE pc[w] = "calling"
    <3>1. cur[w] \in Command
      BY <2>4, HeldRow DEF Holding
    <3>2. \A b \in Command \ {cur[w]} : late'[b] = late[b]
      BY <2>1, <2>4 DEF GiveUp, IInv, TypeOK
    <3>3. Contract!Returns(cur[w])
      BY <2>2, <2>4, <3>2, CallEnds
    <3>4. Contract!GiveUp(cur[w])
      BY <2>1, <3>3, QueueSeen, ReportsSeen DEF Contract!GiveUp, Handed, events
    <3>. QED
      BY <3>1, <3>4 DEF Contract!Next
  <2>. QED
    BY <2>3, <2>4
<1>. QED
  BY <1>1, <1>2, <1>3, <1>4, <1>5, <1>6, <1>7 DEF WorkerStep

\* Of the events published the issuer sees the reports that name a command.
LEMMA EnvironmentKeepsContract ==
  ASSUME IInv, Environment
  PROVE  Contract!Next \/ UNCHANGED Seen
<1>1. /\ UNCHANGED <<status, workers, network>>
      /\ \E e : emitted' = emitted \cup {e}
  BY DEF Environment, Transmit, AcknowledgeFrame, Report, ReportByUuid, Publish, columns
<1>2. UNCHANGED <<UnderWay, Handed>>
  BY <1>1, CallsSeen, QueueSeen DEF network
<1>3. CASE \E c \in Command, res \in AckStatus : ReportByUuid(c, res)
  <2>1. PICK c \in Command, res \in AckStatus : ReportByUuid(c, res)
    BY <1>3
  <2>2. PICK e : /\ e.kind = "uuid" /\ e.row = c
                 /\ c \in Created
                 /\ emitted' = emitted \cup {e}
    BY <2>1 DEF ReportByUuid, Publish, UuidAck
  <2>3. Reported' = Reported \cup {c}
    BY <2>2 DEF Reported
  <2>4. Contract!Name(c)
    BY <1>1, <1>2, <2>2, <2>3 DEF Contract!Name, Created, Handed
  <2>. QED
    BY <2>4 DEF Contract!Next
<1>4. CASE \E q \in Item :
             \/ \E res \in {"OK", "NOT_OK"} : Transmit(q, res)
             \/ \E res \in {"ACK", "NACK"} : AcknowledgeFrame(q, res)
             \/ \E res \in AckStatus : Report(q, res)
  <2>1. PICK e : e.kind # "uuid" /\ emitted' = emitted \cup {e}
    BY <1>4 DEF Transmit, AcknowledgeFrame, Report, Publish, TxAck, NetAck, AppAck
  <2>2. UNCHANGED Reported
    BY <2>1 DEF Reported
  <2>. QED
    BY <1>1, <1>2, <2>2 DEF Seen
<1>. QED
  BY <1>3, <1>4 DEF Environment

\* So is every handler step.
LEMMA HandlerKeepsContract ==
  ASSUME IInv, EndHandling
  PROVE  Contract!Next \/ UNCHANGED Seen
<1>1. PICK e \in handling :
        \/ HandlerFails(e)
        \/ \E c \in Created :
             HandleTxAck(e, c) \/ HandleNetworkAck(e, c) \/ HandleApplicationAck(e, c)
  BY DEF EndHandling
<1>2. UNCHANGED <<workers, network, emitted>>
  BY <1>1 DEF HandlerFails, HandleTxAck, HandleNetworkAck, HandleApplicationAck, MarkProcessed
<1>3. UNCHANGED <<UnderWay, Handed, Reported>>
  BY <1>2, CallsSeen, QueueSeen, ReportsSeen DEF network
<1>4. CASE UNCHANGED status
  BY <1>3, <1>4 DEF Seen
<1>5. ASSUME NEW c \in Created, HandleTxAck(e, c) \/ HandleNetworkAck(e, c)
      PROVE  Contract!Next \/ UNCHANGED Seen
  <2>1. \/ UNCHANGED status
        \/ status[c] \notin Terminal /\ status' = [status EXCEPT ![c] = "FAILED"]
    BY <1>5 DEF HandleTxAck, HandleNetworkAck, FailUnlessTerminal
  <2>2. CASE status[c] \notin Terminal /\ status' = [status EXCEPT ![c] = "FAILED"]
    <3>1. c \in Command /\ Contract!Open(c)
      BY <2>2, CreatedOpen
    <3>2. Contract!Fail(c)
      BY <1>3, <2>2, <3>1, OneRowAssigned DEF Contract!Fail, Contract!Returns, Handed
    <3>. QED
      BY <3>1, <3>2 DEF Contract!Next
  <2>. QED
    BY <1>4, <2>1, <2>2
<1>6. ASSUME NEW c \in Created, HandleApplicationAck(e, c)
      PROVE  Contract!Next
  <2>1. status' = [status EXCEPT ![c] = Verdict(e.res)] /\ IsReport(e) /\ Names(e, c)
    BY <1>6 DEF HandleApplicationAck, Names
  <2>2. e \in emitted /\ c \in Command /\ c = Subject(e)
    BY <2>1, TargetIsSubject DEF IInv, TypeOK, Created
  <2>3. c \in Handed \cup Reported
    <3>1. CASE e.kind = "uuid"
      BY <2>2, <3>1 DEF Subject, Reported
    <3>2. CASE e.kind # "uuid"
      BY <2>2, <3>2 DEF Subject, Handed, IInv, QueueOK
    <3>. QED
      BY <3>1, <3>2
  <2>4. Verdict(e.res) \in Contract!Terminal
    BY DEF Verdict, Contract!Terminal
  <2>5. Contract!Answer(c, Verdict(e.res))
    BY <1>3, <2>1, <2>2, <2>3, OneRowAssigned DEF Contract!Answer, Handed
  <2>. QED
    BY <2>2, <2>4, <2>5 DEF Contract!Next
<1>. QED
  BY <1>1, <1>4, <1>5, <1>6 DEF HandlerFails, columns

\* Every step of the system is a step of the contract, or unseen.
LEMMA NextKeepsContract == IInv /\ [Next]_vars => (Contract!Next \/ UNCHANGED Seen)
<1> SUFFICES ASSUME IInv, [Next]_vars
             PROVE  Contract!Next \/ UNCHANGED Seen
  OBVIOUS
<1>1. CASE \E t \in Creator : CreatorStep(t)
  BY <1>1, CreatorKeepsContract
<1>2. ASSUME NEW w \in Worker, WorkerStep(w) \/ CycleAborted(w)
      PROVE  Contract!Next \/ UNCHANGED Seen
  BY <1>2, WorkerKeepsContract
<1>3. CASE \E c \in Command : TakesEffectLate(c)
  BY <1>3, LateKeepsContract
<1>4. CASE Environment
  BY <1>4, EnvironmentKeepsContract
<1>5. CASE EndHandling
  BY <1>5, HandlerKeepsContract
<1>6. CASE (\E e \in emitted, c \in Created : LockRow(e, c)) \/ Tick \/ UNCHANGED vars
  <2>1. UNCHANGED <<status, workers, network, emitted>>
    BY <1>6 DEF LockRow, Tick, vars, columns, events
  <2>. QED
    BY <2>1, CallsSeen, QueueSeen, ReportsSeen DEF Seen, network
<1>. QED
  BY <1>1, <1>2, <1>3, <1>4, <1>5, <1>6 DEF Next

\* The dispatchers, the handlers, the calls that take effect late and their
\* interleavings implement the contract.
THEOREM ImplementsContract == Spec => KeepsContract
<1>1. Init => Contract!Init
  BY DEF Init, Contract!Init, Item, UnderWay, Reported
<1>2. IInv /\ [Next]_vars => [Contract!Next]_<<status, UnderWay, {downlinks[q] : q \in Item}, Reported>>
  BY NextKeepsContract DEF Handed, Seen
<1>. QED
  BY <1>1, <1>2, Invariance, PTL DEF Spec, KeepsContract, Contract!Spec

\* What the contract allows never reopens a settled command, nor takes a sent
\* one back to PENDING.
THEOREM NothingReopened == Spec => NeverReopened
<1> DEFINE Closed == \A c \in Command :
                       /\ status[c] \in Terminal => status'[c] \in Terminal
                       /\ status[c] = "SENT" => status'[c] # "PENDING"
<1>1. Contract!Next => Closed
  BY DEF Contract!Next, Contract!Issue, Contract!Ask, Contract!HandOver, Contract!GiveUp,
         Contract!MarkSent, Contract!Fail, Contract!Expire, Contract!Name, Contract!Answer,
         Contract!Assign, Contract!Open, Contract!Terminal, Terminal
<1>2. UNCHANGED Seen => Closed
  BY DEF Seen
<1>3. IInv /\ [Next]_vars => [Closed]_vars
  BY <1>1, <1>2, NextKeepsContract
<1> HIDE DEF Closed
<1>4. Spec => [][Closed]_vars
  BY <1>3, Invariance, PTL DEF Spec
<1>. QED
  BY <1>4 DEF NeverReopened, Closed

-----------------------------------------------------------------------------
(* How often a command is handed over.                                     *)

\* Every call to ChirpStack ends with its reply or without effect, and no
\* dispatcher dies.
CallsAnswered == Faults \cap {"crash", "lost_reply", "late"} = {}

\* A queue item whose command is still PENDING is the one that the reply on
\* its way to a worker is about, and no call was given up with an effect.
HandedOnce ==
  CallsAnswered =>
    /\ AtMostOneDownlink
    /\ \A c \in Command : late[c] = 0
    /\ \A q \in Item : status[downlinks[q]] = "PENDING" =>
         \E w \in Worker : pc[w] = "accepted" /\ cur[w] = downlinks[q]

\* Most steps make no row PENDING, hand nothing over and take no row; the
\* worker that leaves its call with the reply settles the row.
Unmoved ==
  /\ UNCHANGED downlinks
  /\ \A c \in Created : status'[c] = "PENDING" => status[c] = "PENDING"
  /\ CallsAnswered => UNCHANGED late
  /\ CallsAnswered => \A w \in Worker : pc[w] = "accepted" =>
       \/ pc'[w] = "accepted" /\ cur'[w] = cur[w]
       \/ status'[cur[w]] # "PENDING"

LEMMA WorkerUnmoved ==
  ASSUME IInv, NEW w \in Worker, WorkerStep(w) \/ CycleAborted(w)
  PROVE  PickPending(w) \/ ChirpStackAccepts(w) \/ Unmoved
<1> USE DEF IInv, TypeOK, Created
<1>1. CASE ExpireBatch(w)
  <2>1. PICK batch \in SUBSET Created :
          status' = [c \in Command |-> IF c \in batch THEN "EXPIRED" ELSE status[c]]
    BY <1>1 DEF ExpireBatch
  <2>. QED
    BY <1>1, <2>1 DEF ExpireBatch, network, Unmoved
<1>2. CASE PickNothing(w)
  BY <1>2 DEF PickNothing, columns, network, Unmoved
<1>3. CASE CommitSent(w) \/ CommitFailed(w)
  <2>1. cur[w] \in Command
    BY <1>3, HeldRow DEF CommitSent, CommitFailed, Holding
  <2>. QED
    BY <1>3, <2>1 DEF CommitSent, CommitFailed, EndIteration, network, Unmoved
<1>4. CASE CommitRetryable(w)
  <2>1. CallsAnswered => UNCHANGED late
    BY <1>4 DEF CommitRetryable, GiveUp, CallsAnswered
  <2>. QED
    BY <1>4, <2>1 DEF CommitRetryable, EndIteration, columns, Unmoved, CallsAnswered
<1>5. CASE CycleAborted(w)
  BY <1>5 DEF CycleAborted, columns, Unmoved, CallsAnswered
<1>. QED
  BY <1>1, <1>2, <1>3, <1>4, <1>5 DEF WorkerStep

LEMMA OthersUnmoved ==
  ASSUME IInv,
         \/ \E t \in Creator : CreatorStep(t)
         \/ Environment
         \/ \E e \in emitted, c \in Created : LockRow(e, c)
         \/ EndHandling \/ Tick \/ UNCHANGED vars
  PROVE  Unmoved
<1>1. CASE \E t \in Creator : CreatorStep(t)
  <2>1. PICK t \in Creator : CreatorStep(t)
    BY <1>1
  <2>2. UNCHANGED <<workers, network>>
    BY <2>1 DEF CreatorStep, TakeSequenceLock, AddCommand, Flush, CommitCommands, RollBack
  <2>3. \A c \in Created : status'[c] = status[c]
    BY <2>1 DEF CreatorStep, TakeSequenceLock, AddCommand, Flush, CommitCommands, RollBack,
                columns, Created, IInv, TransactionsOK
  <2>. QED
    BY <2>2, <2>3 DEF Unmoved, workers, network
<1>2. CASE Environment
  BY <1>2 DEF Environment, Transmit, AcknowledgeFrame, Report, ReportByUuid, Publish,
              columns, workers, network, Unmoved
<1>3. CASE EndHandling
  <2>1. PICK e \in handling :
          \/ HandlerFails(e)
          \/ \E c \in Created :
               HandleTxAck(e, c) \/ HandleNetworkAck(e, c) \/ HandleApplicationAck(e, c)
    BY <1>3 DEF EndHandling
  <2>2. \A res : Verdict(res) # "PENDING"
    BY DEF Verdict
  <2>3. \A b \in Created : status'[b] = "PENDING" => status[b] = "PENDING"
    BY <2>1, <2>2 DEF HandlerFails, HandleTxAck, HandleNetworkAck, HandleApplicationAck,
                      FailUnlessTerminal, columns, IInv, TypeOK, Created
  <2>4. UNCHANGED <<workers, network>>
    BY <2>1 DEF HandlerFails, HandleTxAck, HandleNetworkAck, HandleApplicationAck, MarkProcessed
  <2>. QED
    BY <2>3, <2>4 DEF Unmoved, workers, network
<1>4. CASE (\E e \in emitted, c \in Created : LockRow(e, c)) \/ Tick \/ UNCHANGED vars
  BY <1>4 DEF LockRow, Tick, vars, columns, workers, network, Unmoved
<1>. QED
  BY <1>1, <1>2, <1>3, <1>4

LEMMA NextHandedOnce ==
  ASSUME IInv, HandedOnce, [Next]_vars
  PROVE  HandedOnce'
<1> SUFFICES ASSUME CallsAnswered
             PROVE  /\ AtMostOneDownlink'
                    /\ \A c \in Command : late'[c] = 0
                    /\ \A q \in Item' : status'[downlinks'[q]] = "PENDING" =>
                         \E w \in Worker : pc'[w] = "accepted" /\ cur'[w] = downlinks'[q]
  BY DEF HandedOnce, CallsAnswered
<1>1. /\ AtMostOneDownlink
      /\ \A c \in Command : late[c] = 0
      /\ \A q \in Item : downlinks[q] \in Created /\ downlinks[q] \in Command
      /\ \A q \in Item : status[downlinks[q]] = "PENDING" =>
           \E w \in Worker : pc[w] = "accepted" /\ cur[w] = downlinks[q]
  BY DEF HandedOnce, IInv, QueueOK, Created
<1>2. ASSUME NEW w \in Worker, PickPending(w)
      PROVE  HandedOnce'
  <2>1. /\ UNCHANGED <<status, network>>
        /\ pc[w] = "pick"
        /\ \A v \in Worker \ {w} : pc'[v] = pc[v] /\ cur'[v] = cur[v]
    BY <1>2 DEF PickPending, columns, IInv, TypeOK
  <2>. QED
    BY <1>1, <2>1 DEF AtMostOneDownlink, Item, network, HandedOnce
<1>3. ASSUME NEW w \in Worker, ChirpStackAccepts(w)
      PROVE  HandedOnce'
  <2> DEFINE new == Len(downlinks) + 1
  <2>1. /\ downlinks' = Append(downlinks, cur[w])
        /\ cur' = cur /\ status' = status /\ late' = late
        /\ pc[w] = "calling" /\ pc'[w] = "accepted"
        /\ \A v \in Worker \ {w} : pc'[v] = pc[v]
    BY <1>3 DEF ChirpStackAccepts, columns, IInv, TypeOK
  <2>2. cur[w] \in Created
    BY <2>1, HeldRow DEF Holding
  <2>3. /\ Item' = Item \cup {new}
        /\ \A q \in Item : downlinks'[q] = downlinks[q]
        /\ downlinks'[new] = cur[w]
    BY <2>1, <2>2, Stored
  <2> HIDE DEF new
  <2>4. \A q \in Item : downlinks[q] # cur[w]
    <3> SUFFICES ASSUME NEW q \in Item, downlinks[q] = cur[w] PROVE FALSE
      OBVIOUS
    <3>1. PICK v \in Worker : pc[v] = "accepted" /\ cur[v] = cur[w]
      BY <1>1, <2>1, HeldRow DEF Holding
    <3>. QED
      BY <2>1, <3>1, HeldRow DEF Holding
  <2>5. AtMostOneDownlink'
    BY <1>1, <2>3, <2>4 DEF AtMostOneDownlink
  <2>6. ASSUME NEW q \in Item', status'[downlinks'[q]] = "PENDING"
        PROVE  \E v \in Worker : pc'[v] = "accepted" /\ cur'[v] = downlinks'[q]
    <3>1. CASE q = new
      BY <2>1, <2>3, <3>1
    <3>2. CASE q \in Item
      <4>1. PICK v \in Worker : pc[v] = "accepted" /\ cur[v] = downlinks[q]
        BY <1>1, <2>1, <2>3, <2>6, <3>2
      <4>. QED
        BY <2>1, <2>3, <3>2, <4>1
    <3>. QED
      BY <2>3, <3>1, <3>2
  <2>. QED
    BY <1>1, <2>1, <2>5, <2>6 DEF HandedOnce
<1>4. CASE Unmoved
  <2>1. Item' = Item /\ downlinks' = downlinks /\ late' = late
    BY <1>4 DEF Unmoved, Item
  <2>2. ASSUME NEW q \in Item, status'[downlinks[q]] = "PENDING"
        PROVE  \E w \in Worker : pc'[w] = "accepted" /\ cur'[w] = downlinks[q]
    <3>1. PICK w \in Worker : pc[w] = "accepted" /\ cur[w] = downlinks[q]
      BY <1>1, <1>4, <2>2 DEF Unmoved
    <3>. QED
      BY <1>4, <2>2, <3>1 DEF Unmoved
  <2>. QED
    BY <1>1, <2>1, <2>2 DEF AtMostOneDownlink
<1>5. ASSUME NEW c \in Command, TakesEffectLate(c)
      PROVE  FALSE
  BY <1>1, <1>5 DEF TakesEffectLate
<1>. QED
  BY <1>2, <1>3, <1>4, <1>5, WorkerUnmoved, OthersUnmoved DEF Next, HandedOnce

\* As long as calls are answered and no dispatcher dies, no command is handed
\* over twice, however many dispatchers run (SKIP LOCKED across the call).
THEOREM HandedOverOnce == Spec => [](CallsAnswered => AtMostOneDownlink)
<1>1. Init => HandedOnce
  BY DEF Init, HandedOnce, AtMostOneDownlink, Item
<1>2. HandedOnce => (CallsAnswered => AtMostOneDownlink)
  BY DEF HandedOnce
<1>3. IInv /\ HandedOnce /\ [Next]_vars => HandedOnce'
  BY NextHandedOnce
<1>. QED
  BY <1>1, <1>2, <1>3, Invariance, PTL DEF Spec
=============================================================================
