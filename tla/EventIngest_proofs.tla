-------------------------- MODULE EventIngest_proofs --------------------------
(***************************************************************************)
(* Proofs about EventIngest, for every set of events and devices, every    *)
(* number of permits and every set of faults.  The inductive invariant ties*)
(* each task's step to its row (RowsOK), the rows of one event to each     *)
(* other (TwinsOK), the effects and announcements to the rows (AppliedOK,  *)
(* AnnouncedOK), the holder of a device's lock to the effects already      *)
(* committed (LockOK) and last_seen_at to one of them (LastSeenOK).        *)
(***************************************************************************)
EXTENDS EventIngest, TLAPS

RowMatches(t) ==
  /\ t \notin Created => pc[t] = "waiting"
  /\ pc[t] \in {"waiting", "check", "insert"} => row[t] = "none"
  /\ pc[t] = "record" <=> row[t] = "inserted"
  /\ pc[t] \in {"resolve", "lock", "process", "commit"} => row[t] = "recorded"
  /\ pc[t] = "announce" => row[t] = "processed" /\ KindAt(t) = "location"
  /\ pc[t] = "error" => row[t] \in {"recorded", "processed"}
  /\ pc[t] = "commit" /\ KindAt(t) # "log" => stamp[t] \in 1 .. clock
  /\ row[t] = "processed" => t \in AppliedTasks

RowsOK == \A t \in Task : RowMatches(t)

TwinsOK ==
  \A t, u \in Created : Twin(t, u) => row[t] = "none" \/ row[u] = "none"

AppliedOK ==
  /\ \A i \in DOMAIN applied :
       /\ applied[i] \in Created
       /\ pc[applied[i]] \in {"announce", "error", "done"}
       /\ row[applied[i]] \in {"processed", "failed"}
       /\ KindAt(applied[i]) # "log" => stamp[applied[i]] \in 1 .. clock
       /\ "commit_reply" \notin Faults => /\ row[applied[i]] = "processed"
                                          /\ pc[applied[i]] # "error"
  /\ \A i, j \in DOMAIN applied : i # j => applied[i] # applied[j]
  /\ UplinksInOrder

AnnouncedOK ==
  /\ \A i \in DOMAIN announced :
       /\ announced[i] \in AppliedTasks
       /\ pc[announced[i]] = "done"
       /\ KindAt(announced[i]) = "location"
  /\ \A i, j \in DOMAIN announced : i # j => announced[i] # announced[j]

LockOK ==
  \A t \in Created :
    pc[t] \in {"process", "commit"} /\ Uplink(t) =>
      /\ \A u \in Created \ {t} :
           ~(Uplink(u) /\ DeviceAt(u) = DeviceAt(t) /\ pc[u] \in {"process", "commit"})
      /\ pc[t] = "commit" =>
           \A i \in DOMAIN applied :
             Uplink(applied[i]) /\ DeviceAt(applied[i]) = DeviceAt(t)
               => stamp[applied[i]] < stamp[t]

LastSeenOK ==
  \A d \in Device :
    lastSeen[d] # 0 =>
      \E u \in AppliedTasks : /\ DeviceAt(u) = d
                              /\ KindAt(u) # "log"
                              /\ stamp[u] = lastSeen[d]

IInv ==
  TypeOK /\ RowsOK /\ TwinsOK /\ AppliedOK /\ AnnouncedOK /\ LockOK /\ LastSeenOK

-----------------------------------------------------------------------------
\* No task exists, nothing is recorded or applied.
LEMMA InitIInv == Init => IInv
<1> SUFFICES ASSUME Init PROVE IInv OBVIOUS
<1>1. /\ Created = {} /\ DOMAIN applied = {} /\ DOMAIN announced = {}
      /\ AppliedTasks = {}
  BY DEF Init, Created, AppliedTasks
<1>2. TypeOK BY ConstantsOK DEF Init, TypeOK, Step
<1>3. RowsOK BY <1>1 DEF Init, RowsOK, RowMatches
<1>4. TwinsOK /\ LockOK BY <1>1 DEF TwinsOK, LockOK
<1>5. AppliedOK BY <1>1 DEF AppliedOK, UplinksInOrder
<1>6. AnnouncedOK BY <1>1 DEF AnnouncedOK
<1>7. LastSeenOK BY DEF Init, LastSeenOK
<1> QED BY <1>2, <1>3, <1>4, <1>5, <1>6, <1>7 DEF IInv

\* A created task has a type and an event with a kind and a device.
LEMMA TaskFacts ==
  ASSUME TypeOK, NEW t \in Created
  PROVE  /\ t \in Task
         /\ event[t] \in Event
         /\ KindAt(t) \in Kind
         /\ DeviceAt(t) \in Device
  BY ConstantsOK DEF TypeOK, Created, Task, KindAt, DeviceAt

\* A new delivery is a task that has done nothing.
LEMMA DeliverIInv ==
  ASSUME IInv, NEW e \in Event, Deliver(e)
  PROVE  IInv'
<1>1. TypeOK' BY ConstantsOK DEF IInv, Deliver, TypeOK
<1> DEFINE n == Len(event) + 1
<1>2. /\ n \in Task /\ n \notin Created
      /\ Created' = Created \cup {n}
      /\ \A t \in Created : event'[t] = event[t]
      /\ pc[n] = "waiting" /\ row[n] = "none"
  <2>1. n \in Task /\ n \notin Created /\ Created' = Created \cup {n}
    BY ConstantsOK DEF IInv, TypeOK, Deliver, Created, Task
  <2>2. \A t \in Created : event'[t] = event[t]
    BY DEF IInv, TypeOK, Deliver, Created
  <2>3. pc[n] = "waiting" /\ row[n] = "none" BY <2>1 DEF IInv, RowsOK, RowMatches
  <2> QED BY <2>1, <2>2, <2>3
<1>3. \A t \in Created : /\ KindAt(t)' = KindAt(t)
                         /\ DeviceAt(t)' = DeviceAt(t)
                         /\ Uplink(t)' = Uplink(t)
  BY <1>2 DEF KindAt, DeviceAt, Uplink
<1>4. AppliedTasks' = AppliedTasks /\ AppliedTasks \subseteq Created
  BY DEF Deliver, AppliedTasks, IInv, AppliedOK
<1>5. RowsOK'
  <2> SUFFICES ASSUME NEW t \in Task PROVE RowMatches(t)' BY DEF RowsOK
  <2>1. CASE t \in Created BY <1>2, <1>3, <1>4, <2>1 DEF Deliver, IInv, RowsOK, RowMatches
  <2>2. CASE t \notin Created BY <1>2, <1>4, <2>2 DEF Deliver, IInv, RowsOK, RowMatches
  <2> QED BY <2>1, <2>2
<1>6. TwinsOK'
  <2> SUFFICES ASSUME NEW t \in Created', NEW u \in Created', Twin(t, u)'
               PROVE  row'[t] = "none" \/ row'[u] = "none"
    BY DEF TwinsOK
  <2>1. CASE t = n \/ u = n BY <1>2, <2>1 DEF Deliver
  <2>2. CASE t \in Created /\ u \in Created
    BY <1>2, <2>2 DEF Deliver, IInv, TwinsOK, Twin
  <2> QED BY <1>2, <2>1, <2>2
<1>7. AppliedOK' BY <1>2, <1>3 DEF Deliver, IInv, AppliedOK, UplinksInOrder
<1>8. AnnouncedOK' BY <1>3, <1>4 DEF Deliver, IInv, AnnouncedOK
<1>9. LockOK' BY <1>2, <1>3 DEF Deliver, IInv, LockOK, AppliedOK
<1>10. LastSeenOK' BY <1>3, <1>4 DEF Deliver, IInv, LastSeenOK
<1> QED BY <1>1, <1>5, <1>6, <1>7, <1>8, <1>9, <1>10 DEF IInv
-----------------------------------------------------------------------------
(* Steps that move one task and perhaps its row, and leave the effects and *)
(* the announcements alone.                                                *)

\* A step of a task that has applied nothing: it moves, and its row with it, as long as
\* step and row match, the lock is respected and no twin has a row.
Moved(t, step, r) ==
  /\ Goto(t, step)
  /\ row' = [row EXCEPT ![t] = r]
  /\ UNCHANGED <<stamp, clock, applied, lastSeen, announced>>
  /\ pc[t] \notin {"announce", "error", "done"}
  /\ row[t] = "none" /\ r # "none" =>
       ~RecordedByTwin(t) /\ \A u \in Created : Twin(t, u) => row[u] # "inserted"
  /\ step \notin {"waiting", "commit", "announce"}
  /\ step \in {"check", "insert"} => r = "none"
  /\ step = "record" <=> r = "inserted"
  /\ step \in {"resolve", "lock", "process", "error"} => r = "recorded"
  /\ step = "process" /\ Uplink(t) => LockIsFree(t)

\* Such a step keeps the invariant.
LEMMA MoveIInv ==
  ASSUME IInv, NEW t \in Created, NEW step \in Step,
         NEW r \in {"none", "inserted", "recorded", "failed"}, Moved(t, step, r)
  PROVE  IInv'
<1> USE DEF Moved
<1>1. TypeOK' BY DEF IInv, TypeOK, Goto
<1>2. t \in Task /\ Created' = Created BY TaskFacts DEF IInv, Goto, Created
<1>3. /\ pc' = [pc EXCEPT ![t] = step] /\ event' = event
      /\ pc'[t] = step /\ row'[t] = r
      /\ \A u \in Task \ {t} : pc'[u] = pc[u] /\ row'[u] = row[u]
  BY <1>2 DEF Goto, IInv, TypeOK
<1>4. t \notin AppliedTasks BY DEF IInv, AppliedOK, AppliedTasks
<1>5. AppliedTasks' = AppliedTasks BY DEF AppliedTasks
<1>6. \A u : /\ KindAt(u)' = KindAt(u)
             /\ DeviceAt(u)' = DeviceAt(u)
             /\ Uplink(u)' = Uplink(u)
  BY <1>3 DEF KindAt, DeviceAt, Uplink
<1>7. RowsOK'
  <2> SUFFICES ASSUME NEW u \in Task PROVE RowMatches(u)' BY DEF RowsOK
  <2>1. CASE u = t BY <1>2, <1>3, <2>1 DEF Step, RowMatches
  <2>2. CASE u # t BY <1>2, <1>3, <1>5, <1>6, <2>2 DEF IInv, RowsOK, RowMatches
  <2> QED BY <2>1, <2>2
<1>8. TwinsOK'
  <2> SUFFICES ASSUME NEW a \in Created, NEW b \in Created, Twin(a, b)
               PROVE  row'[a] = "none" \/ row'[b] = "none"
    BY <1>2, <1>3 DEF TwinsOK, Twin
  <2>1. a \in Task /\ b \in Task BY TaskFacts DEF IInv
  <2>2. ASSUME row[t] = "none", r # "none", NEW u \in Created, Twin(t, u)
        PROVE  row[u] = "none"
    BY <2>2 DEF RecordedByTwin
  <2>3. CASE a = t BY <1>3, <2>1, <2>2, <2>3 DEF IInv, TwinsOK, Twin
  <2>4. CASE b = t BY <1>3, <2>1, <2>2, <2>4 DEF IInv, TwinsOK, Twin
  <2>5. CASE a # t /\ b # t BY <1>3, <2>1, <2>5 DEF IInv, TwinsOK, Twin
  <2> QED BY <2>3, <2>4, <2>5
<1>9. AppliedOK'
  <2>1. \A i \in DOMAIN applied : applied[i] # t /\ applied[i] \in Task
    BY <1>4, TaskFacts DEF AppliedTasks, IInv, AppliedOK
  <2> QED BY <1>2, <1>3, <1>6, <2>1 DEF IInv, AppliedOK, UplinksInOrder
<1>10. AnnouncedOK'
  <2>1. \A i \in DOMAIN announced : announced[i] # t /\ announced[i] \in Task
    BY <1>4, TaskFacts DEF IInv, AnnouncedOK, AppliedOK, AppliedTasks
  <2> QED BY <1>3, <1>5, <1>6, <2>1 DEF IInv, AnnouncedOK
<1>11. LockOK'
  <2> SUFFICES ASSUME NEW a \in Created, pc'[a] \in {"process", "commit"}, Uplink(a)
               PROVE  LockOK!(a)'
    BY <1>2, <1>6 DEF LockOK
  <2>0. a \in Task /\ \A u \in Created : u \in Task BY TaskFacts DEF IInv
  <2>1. CASE a = t BY <1>2, <1>3, <1>6, <2>0, <2>1 DEF LockIsFree
  <2>2. CASE a # t
    <3>1. pc[a] \in {"process", "commit"} /\ pc'[a] = pc[a] BY <1>3, <2>0, <2>2
    <3>2. ASSUME NEW u \in Created \ {a}, Uplink(u), DeviceAt(u) = DeviceAt(a)
          PROVE  pc'[u] \notin {"process", "commit"}
      BY <1>3, <2>0, <3>1, <3>2, <2>2 DEF LockIsFree, IInv, LockOK
    <3> QED BY <1>2, <1>3, <1>6, <3>1, <3>2 DEF IInv, LockOK
  <2> QED BY <2>1, <2>2
<1>12. LastSeenOK' BY <1>5, <1>6 DEF IInv, LastSeenOK
<1> QED BY <1>1, <1>7, <1>8, <1>9, <1>10, <1>11, <1>12 DEF IInv

\* The steps before the second transaction's effects, and every failure that
\* rolls them back, are such moves.
LEMMA MovesIInv ==
  ASSUME IInv, NEW t \in Created,
         \/ Admit(t) \/ CheckExists(t) \/ InsertRow(t) \/ CommitRow(t)
         \/ RecordFails(t) \/ Reject(t) \/ Resolve(t) \/ AcquireLock(t)
         \/ ProcessingFails(t)
  PROVE  IInv'
<1>1. t \in Task /\ row[t] \in {"none", "inserted", "recorded", "processed", "failed"}
  BY TaskFacts DEF IInv, TypeOK
<1>2. row = [row EXCEPT ![t] = row[t]] BY <1>1 DEF IInv, TypeOK
<1>3. RowMatches(t) BY <1>1 DEF IInv, RowsOK
<1>4. CASE Admit(t)
  <2>1. Moved(t, "check", "none") BY <1>2, <1>3, <1>4 DEF Admit, Moved, RowMatches
  <2> QED BY <2>1, MoveIInv DEF Step
<1>5. CASE CheckExists(t)
  <2>1. Moved(t, "done", "none") \/ Moved(t, "insert", "none")
    BY <1>2, <1>3, <1>5 DEF CheckExists, Moved, RowMatches
  <2> QED BY <2>1, MoveIInv DEF Step
<1>6. CASE InsertRow(t)
  <2>1. CASE RecordedByTwin(t)
    <3>1. Moved(t, "done", "none") BY <1>2, <1>3, <1>6, <2>1 DEF InsertRow, Moved, RowMatches
    <3> QED BY <3>1, MoveIInv DEF Step
  <2>2. CASE ~RecordedByTwin(t)
    <3>1. Moved(t, "record", "inserted") BY <1>6, <2>2 DEF InsertRow, Moved
    <3> QED BY <3>1, MoveIInv DEF Step
  <2> QED BY <2>1, <2>2
<1>7. CASE CommitRow(t)
  <2>1. Moved(t, "resolve", "recorded") BY <1>3, <1>7 DEF CommitRow, Moved, RowMatches
  <2> QED BY <2>1, MoveIInv DEF Step
<1>8. CASE RecordFails(t)
  <2>1. Moved(t, "done", "none") \/ Moved(t, "done", "recorded")
    BY <1>3, <1>8 DEF RecordFails, Moved, RowMatches
  <2> QED BY <2>1, MoveIInv DEF Step
<1>9. CASE Reject(t)
  <2>1. Moved(t, "done", "failed") BY <1>3, <1>9 DEF Reject, Moved, RowMatches
  <2> QED BY <2>1, MoveIInv DEF Step
<1>10. CASE Resolve(t)
  <2>1. CASE Uplink(t)
    <3>1. Moved(t, "lock", "recorded")
      BY <1>2, <1>3, <1>10, <2>1 DEF Resolve, Moved, RowMatches
    <3> QED BY <3>1, MoveIInv DEF Step
  <2>2. CASE ~Uplink(t)
    <3>1. Moved(t, "process", "recorded")
      BY <1>2, <1>3, <1>10, <2>2 DEF Resolve, Moved, RowMatches
    <3> QED BY <3>1, MoveIInv DEF Step
  <2> QED BY <2>1, <2>2
<1>11. CASE AcquireLock(t)
  <2>1. Moved(t, "process", "recorded")
    BY <1>2, <1>3, <1>11 DEF AcquireLock, Moved, RowMatches
  <2> QED BY <2>1, MoveIInv DEF Step
<1>12. CASE ProcessingFails(t)
  <2>1. Moved(t, "error", "recorded")
    BY <1>2, <1>3, <1>12 DEF ProcessingFails, Moved, RowMatches
  <2> QED BY <2>1, MoveIInv DEF Step
<1> QED BY <1>4, <1>5, <1>6, <1>7, <1>8, <1>9, <1>10, <1>11, <1>12

-----------------------------------------------------------------------------
(* The steps that stamp, commit, announce or explain.                      *)

\* The holder of the lock stamps its effects later than every committed one.
LEMMA ProcessIInv ==
  ASSUME IInv, NEW t \in Created, Process(t)
  PROVE  IInv'
<1>1. TypeOK'
  <2>1. pc' \in [Task -> Step] /\ event' = event BY DEF IInv, TypeOK, Process, Goto, Step
  <2>2. clock' \in Nat /\ stamp' \in [Task -> Nat]
    <3>1. clock \in Nat /\ stamp \in [Task -> Nat] BY DEF IInv, TypeOK
    <3>2. CASE KindAt(t) = "log" BY <3>1, <3>2 DEF Process
    <3>3. CASE KindAt(t) # "log" BY <3>1, <3>3 DEF Process
    <3> QED BY <3>2, <3>3
  <2> QED BY <2>1, <2>2 DEF IInv, TypeOK, Process
<1>2. t \in Task /\ Created' = Created /\ \A u \in Created : u \in Task
  BY TaskFacts DEF IInv, Process, Goto, Created
<1>3. /\ pc' = [pc EXCEPT ![t] = "commit"] /\ event' = event
      /\ pc'[t] = "commit" /\ row' = row /\ pc[t] = "process" /\ row[t] = "recorded"
      /\ \A u \in Task \ {t} : pc'[u] = pc[u] /\ stamp'[u] = stamp[u]
      /\ UNCHANGED <<applied, announced, lastSeen>>
      /\ clock <= clock' /\ clock \in Nat /\ clock' \in Nat
  BY <1>2 DEF Process, Goto, IInv, TypeOK, RowsOK, RowMatches
<1>4. \A u : /\ KindAt(u)' = KindAt(u)
             /\ DeviceAt(u)' = DeviceAt(u)
             /\ Uplink(u)' = Uplink(u)
  BY <1>3 DEF KindAt, DeviceAt, Uplink
<1>5. KindAt(t) # "log" => clock' = clock + 1 /\ stamp'[t] = clock + 1
  BY <1>2 DEF Process, IInv, TypeOK
<1>6. AppliedTasks' = AppliedTasks /\ t \notin AppliedTasks
  BY <1>3 DEF AppliedTasks, IInv, AppliedOK
<1>7. \A i \in DOMAIN applied : /\ applied[i] # t /\ applied[i] \in Task
                                /\ pc'[applied[i]] = pc[applied[i]]
                                /\ stamp'[applied[i]] = stamp[applied[i]]
  BY <1>2, <1>3, <1>6 DEF AppliedTasks, IInv, AppliedOK
<1>8. RowsOK'
  <2> SUFFICES ASSUME NEW u \in Task PROVE RowMatches(u)' BY DEF RowsOK
  <2>1. CASE u = t BY <1>2, <1>3, <1>4, <1>5, <2>1 DEF RowMatches
  <2>2. CASE u # t BY <1>2, <1>3, <1>4, <1>6, <2>2 DEF IInv, RowsOK, RowMatches, TypeOK
  <2> QED BY <2>1, <2>2
<1>9. TwinsOK' BY <1>2, <1>3 DEF IInv, TwinsOK, Twin
<1>10. AppliedOK'
  <2>1. UplinksInOrder' BY <1>3, <1>4, <1>7 DEF IInv, AppliedOK, UplinksInOrder
  <2> QED BY <1>2, <1>3, <1>4, <1>7, <2>1 DEF IInv, AppliedOK, TypeOK
<1>11. AnnouncedOK'
  <2>1. \A i \in DOMAIN announced : announced[i] # t /\ announced[i] \in Task
    BY <1>2, <1>6 DEF IInv, AnnouncedOK, AppliedOK, AppliedTasks
  <2> QED BY <1>3, <1>4, <1>6, <2>1 DEF IInv, AnnouncedOK
<1>12. LockOK'
  <2> SUFFICES ASSUME NEW a \in Created, pc'[a] \in {"process", "commit"}, Uplink(a)
               PROVE  LockOK!(a)'
    BY <1>2, <1>4 DEF LockOK
  <2>1. pc[a] \in {"process", "commit"} /\ (a # t => pc'[a] = pc[a] /\ stamp'[a] = stamp[a])
    BY <1>2, <1>3
  <2>2. ASSUME NEW u \in Created \ {a}, Uplink(u), DeviceAt(u) = DeviceAt(a)
        PROVE  pc'[u] \notin {"process", "commit"}
    BY <1>2, <1>3, <2>1, <2>2 DEF IInv, LockOK
  <2>3. ASSUME pc'[a] = "commit", NEW i \in DOMAIN applied,
               Uplink(applied[i]), DeviceAt(applied[i]) = DeviceAt(a)
        PROVE  stamp'[applied[i]] < stamp'[a]
    <3>1. CASE a = t
      <4>1. stamp[applied[i]] \in 1 .. clock
        BY <2>3 DEF IInv, AppliedOK, Uplink
      <4> QED BY <1>3, <1>5, <1>7, <3>1, <4>1, <2>3 DEF Uplink
    <3>2. CASE a # t BY <1>7, <2>1, <2>3, <3>2 DEF IInv, LockOK
    <3> QED BY <3>1, <3>2
  <2> QED BY <1>2, <1>3, <1>4, <2>2, <2>3
<1>13. LastSeenOK'
  <2>1. \A u \in AppliedTasks : stamp'[u] = stamp[u] BY <1>7 DEF AppliedTasks
  <2> QED BY <1>3, <1>4, <1>6, <2>1 DEF IInv, LastSeenOK
<1> QED BY <1>1, <1>8, <1>9, <1>10, <1>11, <1>12, <1>13 DEF IInv

\* The effects become visible, with the row that says so.
LEMMA CommitIInv ==
  ASSUME IInv, NEW t \in Created, CommitEffects(t) \/ CommitReplyLost(t)
  PROVE  IInv'
<1>1. t \in Task /\ Created' = Created /\ \A u \in Created : u \in Task
  BY TaskFacts DEF IInv, CommitEffects, CommitReplyLost, Goto, Created
<1>2. PICK step \in {"announce", "done", "error"} :
        /\ pc' = [pc EXCEPT ![t] = step]
        /\ step = "announce" => KindAt(t) = "location"
        /\ step = "error" => "commit_reply" \in Faults
  BY DEF CommitEffects, CommitReplyLost, Goto, AfterCommit
<1>3. /\ pc[t] = "commit" /\ row[t] = "recorded" /\ event' = event
      /\ row' = [row EXCEPT ![t] = "processed"]
      /\ Apply(t) /\ UNCHANGED <<stamp, clock, announced>>
  BY <1>1 DEF CommitEffects, CommitReplyLost, Goto, IInv, RowsOK, RowMatches
<1>4. /\ pc'[t] = step /\ row'[t] = "processed"
      /\ \A u \in Task \ {t} : pc'[u] = pc[u] /\ row'[u] = row[u]
  BY <1>1, <1>2, <1>3 DEF IInv, TypeOK
<1>5. \A u : /\ KindAt(u)' = KindAt(u)
             /\ DeviceAt(u)' = DeviceAt(u)
             /\ Uplink(u)' = Uplink(u)
  BY <1>3 DEF KindAt, DeviceAt, Uplink
<1> DEFINE n == Len(applied) + 1
<1>6. /\ n \in Nat /\ DOMAIN applied = 1 .. n - 1
      /\ DOMAIN applied' = 1 .. n
      /\ applied'[n] = t
      /\ \A i \in DOMAIN applied : applied'[i] = applied[i]
      /\ applied' \in Seq(Task)
  BY <1>1, <1>3 DEF Apply, IInv, TypeOK
<1>7. t \notin AppliedTasks BY <1>3 DEF AppliedTasks, IInv, AppliedOK
<1>8. \A i \in DOMAIN applied : applied[i] # t /\ applied[i] \in Task
  BY <1>1, <1>7 DEF AppliedTasks, IInv, AppliedOK
<1>9. AppliedTasks' = AppliedTasks \cup {t} BY <1>6 DEF AppliedTasks
<1> HIDE DEF n
<1>10. TypeOK'
  <2>1. pc' \in [Task -> Step] BY <1>2 DEF IInv, TypeOK, Step
  <2>2. lastSeen' \in [Device -> Nat]
    BY <1>1, <1>3 DEF Apply, IInv, TypeOK
  <2> QED BY <1>3, <1>6, <2>1, <2>2 DEF IInv, TypeOK
<1>11. RowsOK'
  <2> SUFFICES ASSUME NEW u \in Task PROVE RowMatches(u)' BY DEF RowsOK
  <2>1. CASE u = t BY <1>1, <1>2, <1>4, <1>5, <1>9, <2>1 DEF RowMatches
  <2>2. CASE u # t BY <1>1, <1>3, <1>4, <1>5, <1>9, <2>2 DEF IInv, RowsOK, RowMatches
  <2> QED BY <2>1, <2>2
<1>12. TwinsOK'
  <2> SUFFICES ASSUME NEW a \in Created, NEW b \in Created, Twin(a, b)
               PROVE  row'[a] = "none" \/ row'[b] = "none"
    BY <1>1, <1>3 DEF TwinsOK, Twin
  <2> QED BY <1>1, <1>3, <1>4 DEF IInv, TwinsOK, Twin
<1>13. AppliedOK'
  <2>1. UplinksInOrder'
    <3> SUFFICES ASSUME NEW i \in 1 .. n, NEW j \in 1 .. n, i < j,
                        Uplink(applied'[i]), Uplink(applied'[j]),
                        DeviceAt(applied'[i]) = DeviceAt(applied'[j])
                 PROVE  stamp[applied'[i]] < stamp[applied'[j]]
      BY <1>3, <1>5, <1>6 DEF UplinksInOrder
    <3>1. i \in DOMAIN applied BY <1>6
    <3>2. CASE j = n BY <1>3, <1>6, <3>1, <3>2 DEF IInv, LockOK
    <3>3. CASE j # n
      <4>1. j \in DOMAIN applied BY <1>6, <3>3
      <4> QED BY <1>6, <3>1, <4>1 DEF IInv, AppliedOK, UplinksInOrder
    <3> QED BY <3>2, <3>3
  <2>2. ASSUME NEW i \in 1 .. n, NEW j \in 1 .. n, i # j
        PROVE  applied'[i] # applied'[j]
    <3>1. CASE i = n \/ j = n BY <1>6, <1>8, <2>2, <3>1
    <3>2. CASE i # n /\ j # n
      <4>1. i \in DOMAIN applied /\ j \in DOMAIN applied BY <1>6, <3>2
      <4> QED BY <1>6, <2>2, <4>1 DEF IInv, AppliedOK
    <3> QED BY <3>1, <3>2
  <2>3. ASSUME NEW i \in 1 .. n
        PROVE  /\ applied'[i] \in Created
               /\ pc'[applied'[i]] \in {"announce", "error", "done"}
               /\ row'[applied'[i]] \in {"processed", "failed"}
               /\ KindAt(applied'[i]) # "log" => stamp[applied'[i]] \in 1 .. clock
               /\ "commit_reply" \notin Faults => /\ row'[applied'[i]] = "processed"
                                                  /\ pc'[applied'[i]] # "error"
    <3>1. CASE i = n BY <1>1, <1>2, <1>3, <1>4, <1>6, <3>1 DEF IInv, RowsOK, RowMatches
    <3>2. CASE i # n
      <4>1. i \in DOMAIN applied BY <1>6, <3>2
      <4> QED BY <1>4, <1>6, <1>8, <4>1 DEF IInv, AppliedOK
    <3> QED BY <3>1, <3>2
  <2> QED BY <1>1, <1>3, <1>5, <1>6, <2>1, <2>2, <2>3 DEF AppliedOK
<1>14. AnnouncedOK'
  <2>1. \A i \in DOMAIN announced : announced[i] # t /\ announced[i] \in Task
    BY <1>1, <1>7 DEF IInv, AnnouncedOK, AppliedOK, AppliedTasks
  <2> QED BY <1>3, <1>4, <1>5, <1>9, <2>1 DEF IInv, AnnouncedOK
<1>15. LockOK'
  <2> SUFFICES ASSUME NEW a \in Created, pc'[a] \in {"process", "commit"}, Uplink(a)
               PROVE  LockOK!(a)'
    BY <1>1, <1>5 DEF LockOK
  <2>1. a # t /\ pc[a] = pc'[a] BY <1>1, <1>2, <1>4
  <2>2. ASSUME NEW u \in Created \ {a}, Uplink(u), DeviceAt(u) = DeviceAt(a)
        PROVE  pc'[u] \notin {"process", "commit"}
    BY <1>1, <1>2, <1>4, <2>1, <2>2 DEF IInv, LockOK
  <2>3. ASSUME pc'[a] = "commit", NEW i \in 1 .. n,
               Uplink(applied'[i]), DeviceAt(applied'[i]) = DeviceAt(a)
        PROVE  stamp[applied'[i]] < stamp[a]
    <3>1. CASE i = n BY <1>3, <1>6, <2>1, <2>3, <3>1 DEF IInv, LockOK
    <3>2. CASE i # n
      <4>1. i \in DOMAIN applied BY <1>6, <3>2
      <4> QED BY <1>6, <2>1, <2>3, <4>1 DEF IInv, LockOK
    <3> QED BY <3>1, <3>2
  <2> QED BY <1>1, <1>3, <1>5, <1>6, <2>2, <2>3
<1>16. LastSeenOK'
  <2> SUFFICES ASSUME NEW d \in Device, lastSeen'[d] # 0
               PROVE  \E u \in AppliedTasks \cup {t} : /\ DeviceAt(u) = d
                                                       /\ KindAt(u) # "log"
                                                       /\ stamp[u] = lastSeen'[d]
    BY <1>3, <1>5, <1>9 DEF LastSeenOK
  <2>1. CASE KindAt(t) # "log" /\ DeviceAt(t) = d
    BY <1>3, <2>1 DEF Apply, IInv, TypeOK
  <2>2. CASE KindAt(t) = "log" \/ DeviceAt(t) # d
    <3>1. lastSeen'[d] = lastSeen[d] BY <1>3, <2>2 DEF Apply, IInv, TypeOK
    <3> QED BY <3>1 DEF IInv, LastSeenOK
  <2> QED BY <2>1, <2>2
<1> QED BY <1>10, <1>11, <1>12, <1>13, <1>14, <1>15, <1>16 DEF IInv

\* The error is saved, or not; a task whose commit succeeded without a reply
\* keeps its effects.
LEMMA ExplainIInv ==
  ASSUME IInv, NEW t \in Created, MarkError(t) \/ MarkErrorFails(t) \/ StaySilent(t)
  PROVE  IInv'
<1>1. t \in Task /\ Created' = Created /\ \A u \in Created : u \in Task
  BY TaskFacts DEF IInv, MarkError, MarkErrorFails, StaySilent, Goto, Created
<1>2. /\ pc' = [pc EXCEPT ![t] = "done"] /\ event' = event
      /\ UNCHANGED <<stamp, clock, applied, lastSeen, announced>>
      /\ pc[t] \in {"error", "announce"}
  BY DEF MarkError, MarkErrorFails, StaySilent, Goto
<1>3. PICK r \in {"recorded", "processed", "failed"} :
        /\ row' = [row EXCEPT ![t] = r]
        /\ r = "processed" => t \in AppliedTasks
        /\ pc[t] = "announce" => r = "processed"
        /\ t \in AppliedTasks => r \in {"processed", "failed"}
  <2>1. RowMatches(t) BY <1>1 DEF IInv, RowsOK
  <2>2. row = [row EXCEPT ![t] = row[t]] BY <1>1 DEF IInv, TypeOK
  <2>3. t \in AppliedTasks => row[t] \in {"processed", "failed"}
    BY DEF IInv, AppliedOK, AppliedTasks
  <2>4. CASE MarkError(t)
    BY <2>4 DEF MarkError
  <2>5. CASE MarkErrorFails(t) \/ StaySilent(t)
    <3>1. row' = [row EXCEPT ![t] = row[t]] BY <2>2, <2>5 DEF MarkErrorFails, StaySilent
    <3>2. row[t] \in {"recorded", "processed", "failed"}
      BY <1>2, <2>1 DEF RowMatches
    <3> QED BY <2>1, <2>3, <3>1, <3>2 DEF RowMatches
  <2> QED BY <2>4, <2>5
<1>4. /\ pc'[t] = "done" /\ row'[t] = r
      /\ \A u \in Task \ {t} : pc'[u] = pc[u] /\ row'[u] = row[u]
  BY <1>1, <1>2, <1>3 DEF IInv, TypeOK
<1>5. \A u : /\ KindAt(u)' = KindAt(u)
             /\ DeviceAt(u)' = DeviceAt(u)
             /\ Uplink(u)' = Uplink(u)
  BY <1>2 DEF KindAt, DeviceAt, Uplink
<1>6. AppliedTasks' = AppliedTasks BY <1>2 DEF AppliedTasks
<1>7. TypeOK'
  <2>1. pc' \in [Task -> Step] BY <1>2 DEF IInv, TypeOK, Step
  <2>2. row' \in [Task -> {"none", "inserted", "recorded", "processed", "failed"}]
    BY <1>3 DEF IInv, TypeOK
  <2> QED BY <1>2, <2>1, <2>2 DEF IInv, TypeOK
<1>8. RowsOK'
  <2> SUFFICES ASSUME NEW u \in Task PROVE RowMatches(u)' BY DEF RowsOK
  <2>1. CASE u = t BY <1>1, <1>3, <1>4, <1>6, <2>1 DEF RowMatches
  <2>2. CASE u # t BY <1>1, <1>2, <1>4, <1>5, <1>6, <2>2 DEF IInv, RowsOK, RowMatches
  <2> QED BY <2>1, <2>2
<1>9. TwinsOK'
  <2>1. row[t] # "none" BY <1>1, <1>2 DEF IInv, RowsOK, RowMatches
  <2> SUFFICES ASSUME NEW a \in Created, NEW b \in Created, Twin(a, b)
               PROVE  row'[a] = "none" \/ row'[b] = "none"
    BY <1>1, <1>2 DEF TwinsOK, Twin
  <2> QED BY <1>1, <1>4, <2>1 DEF IInv, TwinsOK, Twin
<1>10. AppliedOK'
  <2>1. \A i \in DOMAIN applied : applied[i] \in Task /\ applied[i] \in AppliedTasks
    BY <1>1 DEF IInv, AppliedOK, AppliedTasks
  <2>2. "commit_reply" \notin Faults /\ t \in AppliedTasks => r = "processed"
    <3>1. SUFFICES ASSUME "commit_reply" \notin Faults, NEW i \in DOMAIN applied, applied[i] = t
                   PROVE  r = "processed"
      BY DEF AppliedTasks
    <3> QED BY <1>2, <1>3, <3>1 DEF IInv, AppliedOK
  <2>3. UplinksInOrder' BY <1>2, <1>5 DEF IInv, AppliedOK, UplinksInOrder
  <2> QED BY <1>1, <1>2, <1>3, <1>4, <1>5, <2>1, <2>2, <2>3 DEF IInv, AppliedOK
<1>11. AnnouncedOK'
  <2>1. \A i \in DOMAIN announced : announced[i] \in Task
    BY <1>1 DEF IInv, AnnouncedOK, AppliedOK, AppliedTasks
  <2> QED BY <1>2, <1>4, <1>5, <1>6, <2>1 DEF IInv, AnnouncedOK
<1>12. LockOK'
  <2> SUFFICES ASSUME NEW a \in Created, pc'[a] \in {"process", "commit"}, Uplink(a)
               PROVE  LockOK!(a)'
    BY <1>1, <1>5 DEF LockOK
  <2>1. a # t /\ pc[a] = pc'[a] BY <1>1, <1>4
  <2>2. ASSUME NEW u \in Created \ {a}, Uplink(u), DeviceAt(u) = DeviceAt(a)
        PROVE  pc'[u] \notin {"process", "commit"}
    BY <1>1, <1>4, <2>1, <2>2 DEF IInv, LockOK
  <2> QED BY <1>1, <1>2, <1>5, <2>1, <2>2 DEF IInv, LockOK
<1>13. LastSeenOK' BY <1>2, <1>5, <1>6 DEF IInv, LastSeenOK
<1> QED BY <1>7, <1>8, <1>9, <1>10, <1>11, <1>12, <1>13 DEF IInv

\* A committed location is announced.
LEMMA AnnounceIInv ==
  ASSUME IInv, NEW t \in Created, Announce(t)
  PROVE  IInv'
<1>1. t \in Task /\ Created' = Created /\ \A u \in Created : u \in Task
  BY TaskFacts DEF IInv, Announce, Goto, Created
<1>2. /\ pc' = [pc EXCEPT ![t] = "done"] /\ event' = event /\ pc[t] = "announce"
      /\ announced' = Append(announced, t)
      /\ UNCHANGED <<row, stamp, clock, applied, lastSeen>>
  BY DEF Announce, IsAnnouncer, Goto
<1>3. pc'[t] = "done" /\ \A u \in Task \ {t} : pc'[u] = pc[u]
  BY <1>1, <1>2 DEF IInv, TypeOK
<1>4. \A u : /\ KindAt(u)' = KindAt(u)
             /\ DeviceAt(u)' = DeviceAt(u)
             /\ Uplink(u)' = Uplink(u)
  BY <1>2 DEF KindAt, DeviceAt, Uplink
<1>5. AppliedTasks' = AppliedTasks BY <1>2 DEF AppliedTasks
<1>6. row[t] = "processed" /\ t \in AppliedTasks /\ KindAt(t) = "location"
  BY <1>1, <1>2 DEF IInv, RowsOK, RowMatches
<1>7. TypeOK'
  <2>1. pc' \in [Task -> Step] BY <1>2 DEF IInv, TypeOK, Step
  <2>2. announced' \in Seq(Task) BY <1>1, <1>2 DEF IInv, TypeOK
  <2> QED BY <1>2, <2>1, <2>2 DEF IInv, TypeOK
<1>8. RowsOK'
  <2> SUFFICES ASSUME NEW u \in Task PROVE RowMatches(u)' BY DEF RowsOK
  <2>1. CASE u = t BY <1>1, <1>2, <1>3, <1>5, <1>6, <2>1 DEF RowMatches
  <2>2. CASE u # t BY <1>1, <1>2, <1>3, <1>4, <1>5, <2>2 DEF IInv, RowsOK, RowMatches
  <2> QED BY <2>1, <2>2
<1>9. TwinsOK' BY <1>1, <1>2 DEF IInv, TwinsOK, Twin
<1>10. AppliedOK'
  <2>1. \A i \in DOMAIN applied : applied[i] \in Task
    BY <1>1 DEF IInv, AppliedOK
  <2>2. UplinksInOrder' BY <1>2, <1>4 DEF IInv, AppliedOK, UplinksInOrder
  <2> QED BY <1>1, <1>2, <1>3, <1>4, <2>1, <2>2 DEF IInv, AppliedOK
<1>11. AnnouncedOK'
  <2> DEFINE n == Len(announced) + 1
  <2>1. /\ DOMAIN announced = 1 .. n - 1 /\ DOMAIN announced' = 1 .. n /\ n \in Nat
        /\ announced'[n] = t /\ \A i \in DOMAIN announced : announced'[i] = announced[i]
    BY <1>1, <1>2 DEF IInv, TypeOK
  <2>2. \A i \in DOMAIN announced : announced[i] # t /\ announced[i] \in Task
    BY <1>1, <1>2 DEF IInv, AnnouncedOK, AppliedOK, AppliedTasks
  <2> HIDE DEF n
  <2>3. ASSUME NEW i \in 1 .. n
        PROVE  /\ announced'[i] \in AppliedTasks
               /\ pc'[announced'[i]] = "done"
               /\ KindAt(announced'[i]) = "location"
    <3>1. CASE i = n BY <1>3, <1>6, <2>1, <3>1
    <3>2. CASE i # n
      <4>1. i \in DOMAIN announced BY <2>1, <3>2
      <4> QED BY <1>3, <2>1, <2>2, <4>1 DEF IInv, AnnouncedOK
    <3> QED BY <3>1, <3>2
  <2>4. ASSUME NEW i \in 1 .. n, NEW j \in 1 .. n, i # j
        PROVE  announced'[i] # announced'[j]
    <3>1. CASE i = n \/ j = n BY <2>1, <2>2, <2>4, <3>1
    <3>2. CASE i # n /\ j # n
      <4>1. i \in DOMAIN announced /\ j \in DOMAIN announced BY <2>1, <3>2
      <4> QED BY <2>1, <2>4, <4>1 DEF IInv, AnnouncedOK
    <3> QED BY <3>1, <3>2
  <2> QED BY <1>4, <1>5, <2>1, <2>3, <2>4 DEF AnnouncedOK
<1>12. LockOK'
  <2> SUFFICES ASSUME NEW a \in Created, pc'[a] \in {"process", "commit"}, Uplink(a)
               PROVE  LockOK!(a)'
    BY <1>1, <1>4 DEF LockOK
  <2>1. a # t /\ pc[a] = pc'[a] BY <1>1, <1>3
  <2>2. ASSUME NEW u \in Created \ {a}, Uplink(u), DeviceAt(u) = DeviceAt(a)
        PROVE  pc'[u] \notin {"process", "commit"}
    BY <1>1, <1>3, <2>1, <2>2 DEF IInv, LockOK
  <2> QED BY <1>1, <1>2, <1>4, <2>1, <2>2 DEF IInv, LockOK
<1>13. LastSeenOK' BY <1>2, <1>4, <1>5 DEF IInv, LastSeenOK
<1> QED BY <1>7, <1>8, <1>9, <1>10, <1>11, <1>12, <1>13 DEF IInv

\* Every task is gone, and every uncommitted row with it.
LEMMA CrashIInv ==
  ASSUME IInv, Crash
  PROVE  IInv'
<1>1. /\ \A t \in Created : t \in Task
      /\ Created' = Created /\ event' = event
      /\ UNCHANGED <<stamp, clock, applied, lastSeen, announced>>
  BY TaskFacts DEF IInv, Crash, Created
<1>2. \A t \in Task : /\ t \in Created => pc'[t] = "done"
                      /\ t \notin Created => pc'[t] = pc[t]
                      /\ row'[t] = IF row[t] = "inserted" THEN "none" ELSE row[t]
  BY DEF Crash
<1>3. \A u : /\ KindAt(u)' = KindAt(u)
             /\ DeviceAt(u)' = DeviceAt(u)
             /\ Uplink(u)' = Uplink(u)
  BY <1>1 DEF KindAt, DeviceAt, Uplink
<1>4. AppliedTasks' = AppliedTasks BY <1>1 DEF AppliedTasks
<1>5. TypeOK'
  <2>1. pc' \in [Task -> Step] BY DEF IInv, TypeOK, Crash, Step
  <2>2. row' \in [Task -> {"none", "inserted", "recorded", "processed", "failed"}]
    BY DEF IInv, TypeOK, Crash
  <2> QED BY <1>1, <2>1, <2>2 DEF IInv, TypeOK
<1>6. RowsOK'
  <2> SUFFICES ASSUME NEW u \in Task PROVE RowMatches(u)' BY DEF RowsOK
  <2>1. CASE u \in Created BY <1>1, <1>2, <1>4, <2>1 DEF IInv, RowsOK, RowMatches
  <2>2. CASE u \notin Created BY <1>1, <1>2, <1>4, <2>2 DEF IInv, RowsOK, RowMatches
  <2> QED BY <2>1, <2>2
<1>7. TwinsOK' BY <1>1, <1>2 DEF IInv, TwinsOK, Twin
<1>8. AppliedOK'
  <2>1. \A i \in DOMAIN applied : applied[i] \in Task BY <1>1 DEF IInv, AppliedOK
  <2>2. UplinksInOrder' BY <1>1, <1>3 DEF IInv, AppliedOK, UplinksInOrder
  <2> QED BY <1>1, <1>2, <1>3, <2>1, <2>2 DEF IInv, AppliedOK
<1>9. AnnouncedOK'
  <2>1. \A i \in DOMAIN announced : announced[i] \in Created
    BY DEF IInv, AnnouncedOK, AppliedOK, AppliedTasks
  <2> QED BY <1>1, <1>2, <1>3, <1>4, <2>1 DEF IInv, AnnouncedOK
<1>10. LockOK' BY <1>1, <1>2 DEF LockOK
<1>11. LastSeenOK' BY <1>1, <1>3, <1>4 DEF IInv, LastSeenOK
<1> QED BY <1>5, <1>6, <1>7, <1>8, <1>9, <1>10, <1>11 DEF IInv

\* Every step keeps the invariant.
LEMMA NextIInv == IInv /\ [Next]_vars => IInv'
<1> SUFFICES ASSUME IInv, [Next]_vars PROVE IInv' OBVIOUS
<1>1. CASE \E e \in Event : Deliver(e) BY <1>1, DeliverIInv
<1>2. ASSUME NEW t \in Created, TaskStep(t) \/ Fails(t)
      PROVE  IInv'
  BY <1>2, MovesIInv, ProcessIInv, CommitIInv, ExplainIInv, AnnounceIInv
     DEF TaskStep, Fails
<1>3. CASE Crash BY <1>3, CrashIInv
<1>4. CASE UNCHANGED vars
  BY <1>4 DEF vars, IInv, TypeOK, RowsOK, RowMatches, TwinsOK, Twin, AppliedOK,
              UplinksInOrder, AnnouncedOK, LockOK, LastSeenOK, AppliedTasks,
              Created, KindAt, DeviceAt, Uplink
<1> QED BY <1>1, <1>2, <1>3, <1>4 DEF Next

\* The inductive invariant holds in every reachable state.
THEOREM Invariance == Spec => []IInv
BY InitIInv, NextIInv, PTL DEF Spec

\* Every variable keeps its type.
THEOREM TypeCorrect == Spec => []TypeOK
<1>1. IInv => TypeOK BY DEF IInv
<1> QED BY <1>1, Invariance, PTL

\* An event with a deduplication id is applied at most once (the unique index
\* and the check before it, across crashes and lost replies).
THEOREM ApplyOnce == Spec => []AppliedAtMostOnce
<1>1. IInv => AppliedAtMostOnce
  <2> SUFFICES ASSUME IInv, NEW i \in DOMAIN applied, NEW j \in DOMAIN applied, i # j,
                      event[applied[i]] = event[applied[j]]
               PROVE  event[applied[i]] \in Anonymous /\ applied[i] # applied[j]
    BY DEF AppliedAtMostOnce
  <2>1. /\ applied[i] \in Created /\ applied[j] \in Created
        /\ applied[i] # applied[j]
        /\ row[applied[i]] # "none" /\ row[applied[j]] # "none"
    BY DEF IInv, AppliedOK
  <2> QED BY <2>1 DEF IInv, TwinsOK, Twin
<1> QED BY <1>1, Invariance, PTL

\* A processed row has its effects, and effects without it are those of a
\* commit whose reply was lost.
THEOREM ProcessedIsApplied == Spec => []ProcessedMeansApplied
<1>1. IInv => ProcessedMeansApplied
  <2> SUFFICES ASSUME IInv, NEW t \in Created
               PROVE  ProcessedMeansApplied!(t)
    BY DEF ProcessedMeansApplied
  <2>1. row[t] = "processed" => t \in AppliedTasks
    BY TaskFacts DEF IInv, RowsOK, RowMatches
  <2>2. t \in AppliedTasks /\ "commit_reply" \notin Faults => row[t] = "processed"
    BY DEF IInv, AppliedOK, AppliedTasks
  <2> QED BY <2>1, <2>2
<1> QED BY <1>1, Invariance, PTL

\* Only committed locations are announced, and each event once.
THEOREM AnnounceOnce == Spec => []AnnouncedWereCommitted
<1>1. IInv => AnnouncedWereCommitted
  <2> SUFFICES ASSUME IInv PROVE AnnouncedWereCommitted OBVIOUS
  <2>1. AnnouncedTasks \subseteq {t \in AppliedTasks : KindAt(t) = "location"}
    BY DEF IInv, AnnouncedOK, AnnouncedTasks
  <2>2. ASSUME NEW i \in DOMAIN announced, NEW j \in DOMAIN announced, i # j,
               event[announced[i]] = event[announced[j]]
        PROVE  event[announced[i]] \in Anonymous /\ announced[i] # announced[j]
    <3>1. announced[i] # announced[j] BY <2>2 DEF IInv, AnnouncedOK
    <3>2. \A t \in AppliedTasks : t \in Created /\ row[t] # "none"
      BY DEF IInv, AppliedOK, AppliedTasks
    <3>3. announced[i] \in AppliedTasks /\ announced[j] \in AppliedTasks
      BY DEF IInv, AnnouncedOK
    <3> QED BY <2>2, <3>1, <3>2, <3>3 DEF IInv, TwinsOK, Twin
  <2> QED BY <2>1, <2>2 DEF AnnouncedWereCommitted
<1> QED BY <1>1, Invariance, PTL

\* The advisory lock keeps the uplinks of a device in the order of their times.
THEOREM UplinkOrder == Spec => []UplinksInOrder
<1>1. IInv => UplinksInOrder BY DEF IInv, AppliedOK
<1> QED BY <1>1, Invariance, PTL

\* Two uplinks never move last_seen_at back between them.
THEOREM LastSeenOrder == Spec => LastSeenGoesBackOnlyByJoin
<1> DEFINE A ==
      \A d \in Device : lastSeen'[d] < lastSeen[d] =>
         \E t, u \in Created : /\ DeviceAt(t) = d /\ pc[t] = "commit"
                               /\ DeviceAt(u) = d /\ stamp[u] = lastSeen[d]
                               /\ "join" \in {KindAt(t), KindAt(u)}
<1>1. ASSUME IInv, Next, NEW d \in Device, lastSeen'[d] < lastSeen[d]
      PROVE  \E t, u \in Created : /\ DeviceAt(t) = d /\ pc[t] = "commit"
                                   /\ DeviceAt(u) = d /\ stamp[u] = lastSeen[d]
                                   /\ "join" \in {KindAt(t), KindAt(u)}
  <2>1. lastSeen[d] \in Nat /\ (lastSeen' = lastSeen => FALSE)
    BY <1>1 DEF IInv, TypeOK
  <2>2. PICK t \in Created : CommitEffects(t) \/ CommitReplyLost(t)
    BY <1>1, <2>1 DEF Next, Deliver, Crash, TaskStep, Fails, Admit, CheckExists,
         InsertRow, CommitRow, Resolve, AcquireLock, Process, MarkError, Announce,
         RecordFails, Reject, ProcessingFails, MarkErrorFails, StaySilent
  <2>3. pc[t] = "commit" /\ Apply(t) BY <2>2 DEF CommitEffects, CommitReplyLost
  <2>4. KindAt(t) # "log" /\ DeviceAt(t) = d /\ lastSeen'[d] = stamp[t]
    BY <1>1, <2>1, <2>3 DEF Apply, IInv, TypeOK
  <2>5. stamp[t] \in Nat /\ KindAt(t) \in Kind
    BY <1>1, TaskFacts DEF IInv, TypeOK
  <2>6. lastSeen[d] # 0 BY <1>1, <2>1, <2>4, <2>5
  <2>7. PICK u \in AppliedTasks : /\ DeviceAt(u) = d /\ KindAt(u) # "log"
                                  /\ stamp[u] = lastSeen[d]
    BY <1>1, <2>6 DEF IInv, LastSeenOK
  <2>8. PICK i \in DOMAIN applied : applied[i] = u BY DEF AppliedTasks
  <2>9. u \in Created BY <1>1, <2>8 DEF IInv, AppliedOK
  <2>10. KindAt(u) \in Kind BY <1>1, <2>9, TaskFacts DEF IInv
  <2>11. CASE Uplink(t) /\ Uplink(u)
    <3>1. stamp[u] < stamp[t]
      BY <1>1, <2>3, <2>4, <2>7, <2>8, <2>11 DEF IInv, LockOK
    <3> QED BY <1>1, <2>1, <2>4, <2>5, <2>7, <3>1
  <2>12. CASE "join" \in {KindAt(t), KindAt(u)} BY <2>3, <2>4, <2>7, <2>9, <2>12
  <2> QED BY <2>4, <2>5, <2>7, <2>10, <2>11, <2>12 DEF Uplink, Kind
<1>2. IInv /\ [Next]_vars => [A]_vars BY <1>1
<1> QED BY <1>2, Invariance, PTL DEF Spec, LastSeenGoesBackOnlyByJoin
-----------------------------------------------------------------------------
(* An event that was recorded is not forgotten while no process dies and the *)
(* database answers.                                                        *)

Dependable == Faults \cap {"crash", "database", "commit_reply"} = {}

AtWork ==
  Dependable =>
    \A t \in Task : row[t] = "recorded" =>
      pc[t] \in {"resolve", "lock", "process", "commit", "error"}

LEMMA NextAtWork == IInv /\ AtWork /\ [Next]_vars => AtWork'
<1> SUFFICES ASSUME IInv, AtWork, Dependable, [Next]_vars,
                    NEW t \in Task, row'[t] = "recorded"
             PROVE  pc'[t] \in {"resolve", "lock", "process", "commit", "error"}
  BY DEF AtWork, Dependable
<1> USE DEF IInv, TypeOK, AtWork, Dependable
<1>1. CASE \E e \in Event : Deliver(e) BY <1>1 DEF Deliver
<1>2. ASSUME NEW u \in Created, TaskStep(u)
      PROVE  pc'[t] \in {"resolve", "lock", "process", "commit", "error"}
  <2>1. u \in Task BY TaskFacts
  <2>2. CASE Admit(u) \/ CheckExists(u) \/ InsertRow(u) \/ CommitRow(u)
    BY <2>1, <2>2 DEF Admit, CheckExists, InsertRow, CommitRow, Goto, RowsOK, RowMatches
  <2>3. CASE Resolve(u) \/ AcquireLock(u) \/ Process(u)
    BY <2>1, <2>3 DEF Resolve, AcquireLock, Process, Goto
  <2>4. CASE CommitEffects(u) \/ MarkError(u) \/ Announce(u)
    BY <2>1, <2>4 DEF CommitEffects, MarkError, Announce, IsAnnouncer, Goto, RowsOK, RowMatches
  <2> QED BY <1>2, <2>2, <2>3, <2>4 DEF TaskStep
<1>3. ASSUME NEW u \in Created, Fails(u)
      PROVE  pc'[t] \in {"resolve", "lock", "process", "commit", "error"}
  <2>1. u \in Task BY TaskFacts
  <2>2. CASE RecordFails(u) \/ MarkErrorFails(u) \/ CommitReplyLost(u)
    BY <2>2 DEF RecordFails, MarkErrorFails, CommitReplyLost
  <2>3. CASE Reject(u) \/ ProcessingFails(u) \/ StaySilent(u)
    BY <2>1, <2>3 DEF Reject, ProcessingFails, StaySilent, Goto, RowsOK, RowMatches
  <2> QED BY <1>3, <2>2, <2>3 DEF Fails
<1>4. CASE Crash BY <1>4 DEF Crash
<1>5. CASE UNCHANGED vars BY <1>5 DEF vars
<1> QED BY <1>1, <1>2, <1>3, <1>4, <1>5 DEF Next

\* Unless the process or the database fails, every recorded event has a task
\* at work on it until it is processed or explained (handle_event).
THEOREM NothingAbandoned == Spec => [](Dependable => NoAbandonedRow)
<1>1. Init => AtWork BY DEF Init, AtWork
<1>2. IInv /\ AtWork => (Dependable => NoAbandonedRow)
  BY TaskFacts DEF IInv, AtWork, NoAbandonedRow, Running
<1> QED BY <1>1, <1>2, NextAtWork, Invariance, PTL DEF Spec
=============================================================================
