------------------------ MODULE GeofenceAlarms_proofs ------------------------
(***************************************************************************)
(* Proofs about GeofenceAlarms, for every set of devices, assets, fences   *)
(* and tasks and any number of uplinks and changes.  The inductive         *)
(* invariant says that a row has one holder (Exclusive), that what a holder*)
(* is about to commit follows from the committed status (SaysFollow), and  *)
(* that tasks hold and look at pairs only while they evaluate (Placed).    *)
(***************************************************************************)
EXTENDS GeofenceAlarms, TLAPS

Placed ==
  \A t \in Task :
    /\ step[t] \in {"idle", "queued"} => draft[t] = NoDraft /\ todo[t] = {}
    /\ step[t] = "lock" => at[t] \in Fence /\ asset[t] \in Asset
    /\ todo[t] # {} => asset[t] \in Asset

Exclusive ==
  \A t, u \in Task : \A p \in Pair : HeldBy(t, p) /\ HeldBy(u, p) => t = u

SaysFollow ==
  \A t \in Task : \A p \in Pair :
    HeldBy(t, p) => says[t][p[1]] = Transition(status[p], draft[t][p[1]])

\* The log of one pair tells its status, and alternates.
Last(lg) == IF lg = <<>> THEN "none" ELSE lg[Len(lg)]

Tells(s, lg) ==
  /\ s = "OUTSIDE" <=> Last(lg) = "EXITED"
  /\ s = "NEAR_LIMIT" => Last(lg) \in {"NEAR_LIMIT", "RETURNED", "GPS_UNCERTAIN"}
  /\ s = "GPS_UNCERTAIN" => Last(lg) = "GPS_UNCERTAIN"

Alternates(lg) ==
  \A i \in DOMAIN lg :
    /\ lg[i] = "EXITED" => i = 1 \/ lg[i - 1] # "EXITED"
    /\ lg[i] = "RETURNED" => i > 1 /\ lg[i - 1] = "EXITED"

LogsOK == \A p \in Pair : Tells(status[p], log[p]) /\ Alternates(log[p])

IInv == TypeOK /\ Placed /\ Exclusive /\ SaysFollow /\ LogsOK

-----------------------------------------------------------------------------
(* Transitions and logs.                                                   *)

LEMMA JudgementType == \A b \in BOOLEAN : Judgements(b) \subseteq Status
  BY DEF Judgements, Status

LEMMA TransitionType ==
  ASSUME NEW old \in Status \cup {"NONE"}, NEW new \in Status
  PROVE  Transition(old, new) \in EventType \cup {"none"}
  BY DEF Transition, EventType, Status

\* Appending the event of a transition keeps a log telling and alternating.
LEMMA LogStep ==
  ASSUME NEW lg \in Seq(EventType),
         NEW old \in Status \cup {"NONE"}, NEW new \in Status,
         Tells(old, lg), Alternates(lg),
         NEW e, e = Transition(old, new)
  PROVE  LET after == IF e # "none" THEN Append(lg, e) ELSE lg IN
         /\ after \in Seq(EventType)
         /\ Tells(new, after)
         /\ Alternates(after)
<1>1. CASE e = "none"
  <2>1. \/ old = new
        \/ new = "SAFE" /\ old # "OUTSIDE"
    BY <1>1 DEF Transition, Status
  <2>2. Tells(new, lg) BY <2>1 DEF Tells
  <2> QED BY <1>1, <2>2
<1>2. CASE e # "none"
  <2> DEFINE after == Append(lg, e)
  <2>1. /\ e \in EventType
        /\ e = "EXITED" => new = "OUTSIDE" /\ old # "OUTSIDE"
        /\ e = "RETURNED" => old = "OUTSIDE" /\ new # "OUTSIDE" /\ new # "GPS_UNCERTAIN"
        /\ new = "OUTSIDE" => e = "EXITED"
        /\ new = "GPS_UNCERTAIN" => e = "GPS_UNCERTAIN"
        /\ new = "NEAR_LIMIT" => e \in {"NEAR_LIMIT", "RETURNED"}
    BY <1>2, TransitionType DEF Transition, Status
  <2>2. /\ after \in Seq(EventType)
        /\ Len(after) = Len(lg) + 1
        /\ after[Len(lg) + 1] = e
        /\ \A i \in 1 .. Len(lg) : after[i] = lg[i]
        /\ DOMAIN after = 1 .. Len(lg) + 1
        /\ DOMAIN lg = 1 .. Len(lg) /\ Len(lg) \in Nat
        /\ after # <<>>
    BY <2>1
  <2>3. Last(after) = e BY <2>2 DEF Last
  <2>4. Tells(new, after) BY <2>1, <2>3 DEF Tells, Status, EventType
  <2>5. Last(lg) = "EXITED" => Len(lg) >= 1 /\ lg[Len(lg)] = "EXITED"
    <3>1. CASE lg = <<>> BY <3>1 DEF Last
    <3>2. CASE lg # <<>> BY <3>2, <2>2 DEF Last
    <3> QED BY <3>1, <3>2
  <2>6. lg # <<>> /\ lg[Len(lg)] = "EXITED" => Last(lg) = "EXITED" BY DEF Last
  <2>7. Len(lg) >= 1 => lg # <<>> BY <2>2
  <2>8. Alternates(after)
    <3> SUFFICES ASSUME NEW i \in DOMAIN after
        PROVE /\ after[i] = "EXITED" => i = 1 \/ after[i - 1] # "EXITED"
              /\ after[i] = "RETURNED" => i > 1 /\ after[i - 1] = "EXITED"
      BY DEF Alternates
    <3> HIDE DEF after
    <3>1. CASE i \in 1 .. Len(lg)
      <4>1. after[i] = lg[i] /\ (i > 1 => after[i - 1] = lg[i - 1])
        BY <3>1, <2>2
      <4> QED BY <4>1, <3>1, <2>2 DEF Alternates
    <3>2. CASE i = Len(lg) + 1
      <4>1. after[i] = e /\ i - 1 = Len(lg) /\ (Len(lg) >= 1 => after[i - 1] = lg[Len(lg)])
        BY <3>2, <2>2
      <4>2. e = "EXITED" => Last(lg) # "EXITED" BY <2>1 DEF Tells
      <4>3. e = "RETURNED" => Last(lg) = "EXITED" BY <2>1 DEF Tells
      <4>4. Len(lg) = 0 \/ Len(lg) >= 1 BY <2>2
      <4> QED BY <4>1, <4>2, <4>3, <4>4, <2>2, <2>5, <2>6, <2>7, <3>2
    <3> QED BY <3>1, <3>2, <2>2
  <2> QED BY <1>2, <2>2, <2>4, <2>8
<1> QED BY <1>1, <1>2

-----------------------------------------------------------------------------
(* The invariant holds at first and every step keeps it.                   *)

LEMMA InitIInv == Init => IInv
<1> SUFFICES ASSUME Init PROVE IInv OBVIOUS
<1>1. TypeOK
  BY ConstantsOK DEF Init, TypeOK, Status, EventType, NoDraft, NoEvents, Idle
<1>2. Placed BY DEF Init, Placed
<1>3. \A t \in Task, p \in Pair : ~HeldBy(t, p)
  BY DEF Init, HeldBy, NoDraft, Pair
<1>4. Exclusive /\ SaysFollow BY <1>3 DEF Exclusive, SaysFollow
<1>5. LogsOK BY DEF Init, LogsOK, Tells, Alternates, Last
<1> QED BY <1>1, <1>2, <1>4, <1>5 DEF IInv

\* Users change neither rows nor evaluations, but for the state they delete.
LEMMA UserStep == IInv /\ User => IInv'
<1> SUFFICES ASSUME IInv, User PROVE IInv' OBVIOUS
<1> USE DEF IInv
<1>1. evaluations' = evaluations
  BY DEF User, Move, Assign, BeginUnassign, FinishUnassign, SetFenceActive, DeleteFence
<1>2. Placed' BY <1>1 DEF Placed, evaluations
<1>3. \A t \in Task, p \in Pair : HeldBy(t, p)' <=> HeldBy(t, p)
  BY <1>1 DEF HeldBy, evaluations
<1>4. Exclusive' BY <1>3 DEF Exclusive
<1>5. ASSUME rows' = rows PROVE SaysFollow' /\ LogsOK'
  BY <1>1, <1>3, <1>5 DEF SaysFollow, LogsOK, rows, evaluations
<1>6. CASE User /\ ~FinishUnassign
  <2>1. rows' = rows
    BY <1>6 DEF User, Move, Assign, BeginUnassign, SetFenceActive, DeleteFence
  <2>2. /\ status' = status /\ log' = log /\ received' = received /\ step' = step
        /\ device' = device /\ asset' = asset /\ blurred' = blurred /\ todo' = todo
        /\ at' = at /\ draft' = draft /\ says' = says
    BY <2>1, <1>1 DEF rows, evaluations
  <2>3. ASSUME NEW d \in Device, NEW a \in Asset \cup {NoAsset}, Move(d, a) PROVE TypeOK'
    BY <2>2, <2>3 DEF Move, Change, TypeOK
  <2>4. ASSUME NEW p \in Pair, Assign(p) PROVE TypeOK'
    BY <2>2, <2>4 DEF Assign, Change, TypeOK
  <2>5. ASSUME NEW p \in Pair, BeginUnassign(p) PROVE TypeOK'
    <3>1. leaving' \in [pair : Pair \cup {<<NoFence, NoAsset>>}, drop : BOOLEAN]
      BY <2>5 DEF BeginUnassign, Effective
    <3>2. carries' = carries /\ member' = member /\ fence' = fence /\ changes' = changes + 1
      BY <2>5 DEF BeginUnassign, Change
    <3> QED BY <3>1, <3>2, <2>2 DEF TypeOK
  <2>6. ASSUME NEW f \in Fence, SetFenceActive(f) PROVE TypeOK'
    BY <2>2, <2>6 DEF SetFenceActive, Change, TypeOK
  <2>7. ASSUME NEW f \in Fence, DeleteFence(f) PROVE TypeOK'
    BY <2>2, <2>7 DEF DeleteFence, Change, TypeOK
  <2>8. TypeOK' BY <2>3, <2>4, <2>5, <2>6, <2>7, <1>6 DEF User
  <2> QED BY <2>1, <2>8, <1>2, <1>4, <1>5
<1>7. CASE FinishUnassign
  <2> DEFINE q == leaving.pair
  <2>1. TypeOK'
    <3>1. leaving' \in [pair : Pair \cup {<<NoFence, NoAsset>>}, drop : BOOLEAN]
      BY <1>7 DEF FinishUnassign, Idle
    <3>2. member' \subseteq Pair BY <1>7 DEF FinishUnassign, TypeOK
    <3>3. \/ status' = status /\ log' = log
          \/ status' = [status EXCEPT ![q] = "NONE"] /\ log' = [log EXCEPT ![q] = <<>>]
      BY <1>7 DEF FinishUnassign, rows
    <3>4. <<>> \in Seq(EventType) OBVIOUS
    <3> HIDE DEF q
    <3>5. status' \in [Pair -> Status \cup {"NONE"}] BY <3>3 DEF TypeOK
    <3>6. log' \in [Pair -> Seq(EventType)] BY <3>3, <3>4 DEF TypeOK
    <3>7. carries' = carries /\ fence' = fence /\ changes' = changes
      BY <1>7 DEF FinishUnassign
    <3> QED BY <3>1, <3>2, <3>5, <3>6, <3>7, <1>1 DEF TypeOK, evaluations
  <2>2. CASE ~leaving.drop
    <3>1. rows' = rows BY <1>7, <2>2 DEF FinishUnassign
    <3> QED BY <3>1, <2>1, <1>2, <1>4, <1>5
  <2>3. CASE leaving.drop
    <3>1. /\ \A t \in Task : ~HeldBy(t, q)
          /\ status' = [status EXCEPT ![q] = "NONE"]
          /\ log' = [log EXCEPT ![q] = <<>>]
      BY <1>7, <2>3 DEF FinishUnassign
    <3> HIDE DEF q
    <3>2. \A p \in Pair : p # q => status'[p] = status[p] /\ log'[p] = log[p]
      BY <3>1 DEF TypeOK
    <3>3. q \in Pair => status'[q] = "NONE" /\ log'[q] = <<>>
      BY <3>1 DEF TypeOK
    <3>4. SaysFollow' BY <3>1, <3>2, <1>1, <1>3 DEF SaysFollow, evaluations
    <3>5. LogsOK' BY <3>2, <3>3 DEF LogsOK, Tells, Alternates, Last
    <3> QED BY <2>1, <3>4, <3>5, <1>2, <1>4
  <2> QED BY <2>2, <2>3
<1> QED BY <1>6, <1>7

\* A task that holds nothing yet or moves between statements changes no row.
LEMMA WaitingStep ==
  ASSUME IInv, NEW t \in Task,
         (\E d \in Device : Receive(t, d)) \/ Begin(t) \/ (\E f \in Fence : FindState(t, f))
  PROVE  IInv'
<1> USE DEF IInv
<1>1. /\ draft' = draft /\ says' = says /\ status' = status /\ log' = log
      /\ users' = users
  BY DEF Receive, Begin, FindState, rows
<1>2. TypeOK'
  <2>1. CASE \E d \in Device : Receive(t, d)
    BY <2>1, <1>1 DEF Receive, TypeOK, users, rows
  <2>2. CASE Begin(t)
    <3>1. todo' \in [Task -> SUBSET Fence] BY <2>2 DEF Begin, TypeOK
    <3>2. blurred' \in [Task -> BOOLEAN] BY <2>2 DEF Begin, TypeOK
    <3>3. step' \in [Task -> {"idle", "queued", "probe", "lock"}] BY <2>2 DEF Begin, TypeOK
    <3> QED BY <3>1, <3>2, <3>3, <2>2, <1>1 DEF Begin, TypeOK, users, rows
  <2>3. CASE \E f \in Fence : FindState(t, f)
    BY <2>3, <1>1 DEF FindState, TypeOK, users, rows
  <2> QED BY <2>1, <2>2, <2>3
<1>3. Placed'
  <2>1. CASE \E d \in Device : Receive(t, d)
    BY <2>1 DEF Receive, TypeOK, Placed
  <2>2. CASE Begin(t)
    <3>1. \A u \in Task \ {t} : step'[u] = step[u] /\ todo'[u] = todo[u]
      BY <2>2 DEF Begin, TypeOK
    <3>2. step'[t] = "probe" BY <2>2 DEF Begin, TypeOK
    <3>3. todo'[t] # {} => asset[t] \in Asset BY <2>2 DEF Begin, TypeOK
    <3>4. asset' = asset /\ at' = at /\ draft' = draft BY <2>2 DEF Begin
    <3> QED BY <3>1, <3>2, <3>3, <3>4 DEF Placed
  <2>3. CASE \E f \in Fence : FindState(t, f)
    BY <2>3 DEF FindState, TypeOK, Placed
  <2> QED BY <2>1, <2>2, <2>3
<1>4. ASSUME NEW u \in Task, NEW p \in Pair PROVE HeldBy(u, p)' <=> HeldBy(u, p)
  <2>1. CASE \E d \in Device : Receive(t, d)
    <3>1. u # t => asset'[u] = asset[u] BY <2>1 DEF Receive, TypeOK
    <3>2. draft[t] = NoDraft BY <2>1 DEF Receive, Placed
    <3>3. p[1] \in Fence BY DEF Pair
    <3> QED BY <3>1, <3>2, <3>3, <1>1 DEF HeldBy, NoDraft
  <2>2. CASE Begin(t) BY <2>2, <1>1 DEF Begin, HeldBy
  <2>3. CASE \E f \in Fence : FindState(t, f) BY <2>3, <1>1 DEF FindState, HeldBy
  <2> QED BY <2>1, <2>2, <2>3
<1>5. Exclusive' BY <1>4 DEF Exclusive
<1>6. SaysFollow' BY <1>1, <1>4 DEF SaysFollow
<1>7. LogsOK' BY <1>1 DEF LogsOK
<1> QED BY <1>2, <1>3, <1>5, <1>6, <1>7

\* Task t drafts a status for a fence whose row nobody else holds.
Takes(t, f) ==
  /\ t \in Task /\ f \in Fence /\ asset[t] \in Asset
  /\ \A u \in Task \ {t} : ~HeldBy(u, <<f, asset[t]>>)
  /\ Decide(t, f, status[<<f, asset[t]>>])
  /\ todo' = [todo EXCEPT ![t] = @ \ {f}]
  /\ step[t] \in {"probe", "lock"} /\ step' = [step EXCEPT ![t] = "probe"]
  /\ at' \in [Task -> Fence \cup {NoFence}]
  /\ \A u \in Task \ {t} : at'[u] = at[u]
  /\ UNCHANGED <<users, rows, received, device, asset, blurred>>

LEMMA TakeStep ==
  ASSUME IInv, NEW t \in Task, NEW f \in Fence, Takes(t, f)
  PROVE  IInv'
<1> USE DEF IInv
<1> DEFINE q == <<f, asset[t]>>
<1>1. q \in Pair /\ q[1] = f /\ q[2] = asset[t] /\ status[q] \in Status \cup {"NONE"}
  BY DEF Takes, Pair, TypeOK
<1>2. PICK new \in Judgements(blurred[t]) :
        /\ draft' = [draft EXCEPT ![t][f] = new]
        /\ says' = [says EXCEPT ![t][f] = Transition(status[q], new)]
  BY DEF Takes, Decide
<1>3. new \in Status BY JudgementType DEF TypeOK
<1>4. /\ status' = status /\ log' = log /\ asset' = asset /\ users' = users
      /\ received' = received /\ device' = device /\ blurred' = blurred
  BY DEF Takes, rows
<1> HIDE DEF q
<1>5. Transition(status[q], new) \in EventType \cup {"none"}
  BY <1>1, <1>3, TransitionType
<1>6. TypeOK'
  <2>1. draft' \in [Task -> [Fence -> Status \cup {"NONE"}]] BY <1>2, <1>3 DEF TypeOK
  <2>2. says' \in [Task -> [Fence -> EventType \cup {"none"}]] BY <1>2, <1>5 DEF TypeOK
  <2>3. todo' \in [Task -> SUBSET Fence] BY DEF Takes, TypeOK
  <2>4. step' \in [Task -> {"idle", "queued", "probe", "lock"}] BY DEF Takes, TypeOK
  <2>5. at' \in [Task -> Fence \cup {NoFence}] BY DEF Takes
  <2> QED BY <2>1, <2>2, <2>3, <2>4, <2>5, <1>4 DEF TypeOK, users
<1>7. \A u \in Task \ {t} : draft'[u] = draft[u] /\ says'[u] = says[u]
  BY <1>2 DEF TypeOK
<1>8. \A g \in Fence \ {f} : draft'[t][g] = draft[t][g] /\ says'[t][g] = says[t][g]
  BY <1>2 DEF TypeOK
<1>9. draft'[t][f] = new /\ says'[t][f] = Transition(status[q], new)
  BY <1>2 DEF TypeOK
<1>10. Placed'
  <2>1. \A u \in Task \ {t} : step'[u] = step[u] /\ todo'[u] = todo[u] /\ at'[u] = at[u]
    BY DEF Takes, TypeOK
  <2>2. step'[t] = "probe" /\ asset[t] \in Asset BY DEF Takes, TypeOK
  <2> QED BY <2>1, <2>2, <1>4, <1>7 DEF Placed
<1>11. \A u \in Task, p \in Pair : ~(u = t /\ p = q) => (HeldBy(u, p)' <=> HeldBy(u, p))
  <2> SUFFICES ASSUME NEW u \in Task, NEW p \in Pair, ~(u = t /\ p = q)
      PROVE HeldBy(u, p)' <=> HeldBy(u, p)
    OBVIOUS
  <2>1. CASE u # t BY <2>1, <1>4, <1>7 DEF HeldBy
  <2>2. CASE u = t /\ p[1] # f
    <3>1. p[1] \in Fence \ {f} BY <2>2 DEF Pair
    <3> QED BY <2>2, <3>1, <1>4, <1>8 DEF HeldBy
  <2>3. CASE u = t /\ p[1] = f
    <3>1. p[2] # asset[t] BY <2>3 DEF Pair, q
    <3> QED BY <2>3, <3>1, <1>4 DEF HeldBy
  <2> QED BY <2>1, <2>2, <2>3
<1>12. \A u \in Task \ {t} : ~HeldBy(u, q) BY DEF Takes, q
<1>13. Exclusive' BY <1>11, <1>12, <1>1 DEF Exclusive
<1>14. SaysFollow'
  <2> SUFFICES ASSUME NEW u \in Task, NEW p \in Pair, HeldBy(u, p)'
      PROVE says'[u][p[1]] = Transition(status[p], draft'[u][p[1]])
    BY <1>4 DEF SaysFollow
  <2>1. CASE u # t
    BY <2>1, <1>7, <1>11 DEF SaysFollow
  <2>2. CASE u = t /\ p = q
    BY <2>2, <1>1, <1>9
  <2>3. CASE u = t /\ p # q
    <3>1. p[2] = asset[t] BY <2>3, <1>4 DEF HeldBy
    <3>2. p[1] \in Fence \ {f} BY <2>3, <3>1 DEF Pair, q
    <3>3. HeldBy(t, p) BY <2>3, <1>11
    <3> QED BY <3>2, <3>3, <2>3, <1>8 DEF SaysFollow
  <2> QED BY <2>1, <2>2, <2>3
<1>15. LogsOK' BY <1>4 DEF LogsOK
<1> QED BY <1>6, <1>10, <1>13, <1>14, <1>15

\* The end of an evaluation: nothing is held any more by its task.
LEMMA ReleaseStep ==
  ASSUME IInv, NEW t \in Task, Release(t)
  PROVE  /\ TypeOK' = (status \in [Pair -> Status \cup {"NONE"}]
                       /\ log \in [Pair -> Seq(EventType)])'
         /\ Placed' /\ Exclusive'
         /\ \A u \in Task, p \in Pair : HeldBy(u, p)' => u # t /\ HeldBy(u, p)
         /\ \A u \in Task \ {t} : draft'[u] = draft[u] /\ says'[u] = says[u]
<1> USE DEF IInv
<1>1. TypeOK' = (status \in [Pair -> Status \cup {"NONE"}]
                 /\ log \in [Pair -> Seq(EventType)])'
  <2>1. draft' \in [Task -> [Fence -> Status \cup {"NONE"}]]
    BY DEF Release, NoDraft, TypeOK
  <2>2. says' \in [Task -> [Fence -> EventType \cup {"none"}]]
    BY DEF Release, NoEvents, TypeOK
  <2>3. /\ step' \in [Task -> {"idle", "queued", "probe", "lock"}]
        /\ device' \in [Task -> Device \cup {NoDevice}]
        /\ asset' \in [Task -> Asset \cup {NoAsset}]
        /\ blurred' \in [Task -> BOOLEAN]
        /\ todo' \in [Task -> SUBSET Fence]
        /\ at' \in [Task -> Fence \cup {NoFence}]
    BY DEF Release, TypeOK
  <2>4. users' = users /\ received' = received BY DEF Release
  <2> QED BY <2>1, <2>2, <2>3, <2>4 DEF TypeOK, users
<1>2. \A u \in Task \ {t} : /\ draft'[u] = draft[u] /\ says'[u] = says[u]
                           /\ asset'[u] = asset[u] /\ step'[u] = step[u]
                           /\ todo'[u] = todo[u] /\ at'[u] = at[u]
  BY DEF Release, TypeOK
<1>3. draft'[t] = NoDraft /\ todo'[t] = {} /\ step'[t] = "idle"
  BY DEF Release, TypeOK
<1>4. \A u \in Task, p \in Pair : HeldBy(u, p)' => u # t /\ HeldBy(u, p)
  BY <1>2, <1>3 DEF HeldBy, NoDraft, Pair
<1>5. Placed' BY <1>2, <1>3 DEF Placed
<1>6. Exclusive' BY <1>4 DEF Exclusive
<1> QED BY <1>1, <1>2, <1>4, <1>5, <1>6

\* A rolled back evaluation leaves the rows alone.
LEMMA RollbackStep ==
  ASSUME IInv, NEW t \in Task, Release(t), rows' = rows
  PROVE  IInv'
<1>1. status' = status /\ log' = log BY DEF rows
<1>2. TypeOK' BY <1>1, ReleaseStep DEF IInv, TypeOK
<1>3. SaysFollow' BY <1>1, ReleaseStep DEF IInv, SaysFollow
<1>4. LogsOK' BY <1>1 DEF IInv, LogsOK
<1> QED BY <1>2, <1>3, <1>4, ReleaseStep DEF IInv

\* A commit moves each held pair along its transition.
LEMMA CommitStep ==
  ASSUME IInv, NEW t \in Task, Commit(t)
  PROVE  IInv'
<1> USE DEF IInv
<1>1. Release(t) BY DEF Commit
<1>2. ASSUME NEW p \in Pair, ~HeldBy(t, p)
      PROVE  status'[p] = status[p] /\ log'[p] = log[p]
  BY <1>2 DEF Commit
<1>3. ASSUME NEW p \in Pair, HeldBy(t, p)
      PROVE  /\ status'[p] \in Status
             /\ log'[p] \in Seq(EventType)
             /\ Tells(status'[p], log'[p]) /\ Alternates(log'[p])
  <2> DEFINE new == draft[t][p[1]]
             e == says[t][p[1]]
  <2>1. status'[p] = new BY <1>3 DEF Commit
  <2>2. log'[p] = IF e # "none" THEN Append(log[p], e) ELSE log[p]
    BY <1>3 DEF Commit
  <2>3. p[1] \in Fence BY DEF Pair
  <2>4. new \in Status BY <1>3, <2>3 DEF HeldBy, TypeOK
  <2>5. e = Transition(status[p], new) BY <1>3 DEF SaysFollow
  <2>6. status[p] \in Status \cup {"NONE"} /\ log[p] \in Seq(EventType) BY DEF TypeOK
  <2>7. Tells(status[p], log[p]) /\ Alternates(log[p]) BY DEF LogsOK
  <2> HIDE DEF new, e
  <2> QED BY <2>1, <2>2, <2>4, <2>5, <2>6, <2>7, LogStep
<1>4. \A p \in Pair : status'[p] \in Status \cup {"NONE"} /\ log'[p] \in Seq(EventType)
  BY <1>2, <1>3 DEF TypeOK
<1>5. DOMAIN status' = Pair /\ DOMAIN log' = Pair
      /\ status' = [p \in Pair |-> status'[p]] /\ log' = [p \in Pair |-> log'[p]]
  BY DEF Commit
<1>6. TypeOK' BY <1>1, <1>4, <1>5, ReleaseStep
<1>7. LogsOK'
  <2> SUFFICES ASSUME NEW p \in Pair PROVE Tells(status'[p], log'[p]) /\ Alternates(log'[p])
    BY DEF LogsOK
  <2> QED BY <1>2, <1>3 DEF LogsOK
<1>8. SaysFollow'
  <2> SUFFICES ASSUME NEW u \in Task, NEW p \in Pair, HeldBy(u, p)'
      PROVE says'[u][p[1]] = Transition(status'[p], draft'[u][p[1]])
    BY DEF SaysFollow
  <2>1. u # t /\ HeldBy(u, p) /\ draft'[u] = draft[u] /\ says'[u] = says[u]
    BY <1>1, ReleaseStep
  <2>2. ~HeldBy(t, p) BY <2>1 DEF Exclusive
  <2> QED BY <2>1, <2>2, <1>2 DEF SaysFollow
<1> QED BY <1>1, <1>6, <1>7, <1>8, ReleaseStep

\* The named facts are inductive.
LEMMA NextIInv == IInv /\ [Next]_vars => IInv'
<1> SUFFICES ASSUME IInv, [Next]_vars PROVE IInv' OBVIOUS
<1>1. CASE User BY <1>1, UserStep
<1>2. ASSUME NEW t \in Task, NEW d \in Device, Receive(t, d) PROVE IInv'
  BY <1>2, WaitingStep
<1>3. ASSUME NEW t \in Task, EvaluationStep(t) \/ Fail(t) PROVE IInv'
  <2>1. CASE Begin(t) BY <2>1, WaitingStep
  <2>2. ASSUME NEW f \in Fence, FindState(t, f) PROVE IInv' BY <2>2, WaitingStep
  <2>3. ASSUME NEW f \in Fence, InsertState(t, f) PROVE IInv'
    <3>1. asset[t] \in Asset BY <2>3 DEF InsertState, IInv, Placed
    <3>2. step' = [step EXCEPT ![t] = "probe"] BY <2>3 DEF InsertState, IInv, TypeOK
    <3>3. Takes(t, f) BY <3>1, <3>2, <2>3 DEF InsertState, Takes, IInv, TypeOK
    <3> QED BY <3>3, TakeStep
  <2>4. CASE LockState(t)
    <3>1. at[t] \in Fence /\ asset[t] \in Asset BY <2>4 DEF LockState, IInv, Placed
    <3>2. /\ at' \in [Task -> Fence \cup {NoFence}]
          /\ \A u \in Task \ {t} : at'[u] = at[u]
      BY <2>4 DEF LockState, IInv, TypeOK
    <3>3. Takes(t, at[t]) BY <3>1, <3>2, <2>4 DEF LockState, IsFree, Takes
    <3> QED BY <3>1, <3>3, TakeStep
  <2>5. CASE Commit(t) BY <2>5, CommitStep
  <2>6. CASE StateVanished(t) \/ DeadlockVictim(t) \/ Fail(t)
    <3>1. Release(t) /\ rows' = rows
      BY <2>6 DEF StateVanished, DeadlockVictim, Fail, rows
    <3> QED BY <3>1, RollbackStep
  <2> QED BY <1>3, <2>1, <2>2, <2>3, <2>4, <2>5, <2>6 DEF EvaluationStep
<1>4. CASE UNCHANGED vars
  <2>1. \A u \in Task, p \in Pair : HeldBy(u, p)' <=> HeldBy(u, p)
    BY <1>4 DEF vars, evaluations, HeldBy
  <2> QED BY <1>4, <2>1 DEF vars, users, rows, evaluations, IInv, TypeOK, Placed,
                            Exclusive, SaysFollow, LogsOK
<1> QED BY <1>1, <1>2, <1>3, <1>4 DEF Next

THEOREM Invariance == Spec => []IInv
  BY InitIInv, NextIInv, PTL DEF Spec

-----------------------------------------------------------------------------
(* What follows.                                                           *)

LEMMA LogsTell == IInv => StatusMatchesLog /\ AlarmsAlternate
<1> SUFFICES ASSUME IInv PROVE StatusMatchesLog /\ AlarmsAlternate OBVIOUS
<1>1. \A p \in Pair : LastEvent(p) = Last(log[p]) BY DEF LastEvent, Last
<1>2. StatusMatchesLog BY <1>1 DEF IInv, LogsOK, Tells, StatusMatchesLog
<1>3. AlarmsAlternate BY DEF IInv, LogsOK, Alternates, AlarmsAlternate
<1> QED BY <1>2, <1>3

\* Every variable keeps its type.
THEOREM TypeCorrect == Spec => []TypeOK
<1>1. IInv => TypeOK BY DEF IInv
<1> QED BY Invariance, <1>1, PTL

\* A stored status and the events announced for its pair agree, whatever the
\* interleaving of evaluations, reassignments, removals and failures.
THEOREM StatusAndEvents == Spec => []StatusMatchesLog
<1>1. IInv => StatusMatchesLog BY LogsTell
<1> QED BY Invariance, <1>1, PTL

\* Exits and returns are announced once each and in turn.
THEOREM Alternation == Spec => []AlarmsAlternate
<1>1. IInv => AlarmsAlternate BY LogsTell
<1> QED BY Invariance, <1>1, PTL

\* A row of geofence_asset_states has at most one uncommitted writer.
THEOREM OneWriter == Spec => []Exclusive
<1>1. IInv => Exclusive BY DEF IInv
<1> QED BY Invariance, <1>1, PTL
=============================================================================
