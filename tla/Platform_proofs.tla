---------------------------- MODULE Platform_proofs ----------------------------
(***************************************************************************)
(* Proofs about the components that share no state with others: access     *)
(* control, the provisioning of devices, the sampling and the continuity   *)
(* of series, the binary protocol of devices and the device simulator.     *)
(* Each theorem is about the specification of one.                         *)
(***************************************************************************)
EXTENDS AccessControl, Provisioning, TemporalSampling, TemporalAnalytics, DeviceProtocol,
        DeviceSimulator, SequenceTheorems, FiniteSetTheorems, TLAPS

-----------------------------------------------------------------------------
(* AccessControl.  The inductive invariant says what a request has         *)
(* established of its pair at each point (AccessRequestOK) and that rows   *)
(* differ in their pairs (RowsOK): the rows only grow, so what was         *)
(* established stays.                                                      *)
Assigns == {"user_role", "service_role"}

AccessRequest ==
  [at : {"idle", "create", "first", "second", "select", "write", "answered"},
   kind : {"role", "service", "user_role", "service_role", None},
   subject : Users \cup Services \cup {None}, object : Roles \cup Services \cup {None},
   found : Nat, answer : {0, 201, 404, 409, 500}]

AccessTypes ==
  /\ request \in [Requests -> AccessRequest]
  /\ roles \subseteq Roles /\ services \subseteq Services /\ inactive \subseteq Users
  /\ nextId \in Nat \ {0}
  /\ \A entry \in assignments : entry.id \in 1 .. nextId - 1

HasRow(q) ==
  \E entry \in assignments : entry.kind = q.kind /\ entry.subject = q.subject /\ entry.object = q.object

AccessRequestOK(q) ==
  /\ q.at = "create" => q.kind \in {"role", "service"} /\ q.object \in Roles \cup Services
  /\ q.at = "create" /\ q.kind = "role" => q.object \in Roles
  /\ q.at = "create" /\ q.kind = "service" => q.object \in Services
  /\ q.at \in {"first", "second", "select", "write"} => q.kind \in Assigns /\ q.object \in Roles
  /\ q.at \in {"select", "write"} /\ q.kind = "service_role" => q.subject \in services
  /\ q.found # 0 => q.at \in {"write", "answered"} /\ HasRow(q)
  /\ q.answer \in {201, 409} /\ q.kind \in Assigns => HasRow(q) /\ q.object \in Roles
  /\ q.answer \in {201, 409} /\ q.kind = "service_role" => q.subject \in services
  /\ q.answer # 0 => q.at = "answered"
  /\ q.answer # 500

RowsOK ==
  \A a, b \in assignments :
    a.kind = b.kind /\ a.subject = b.subject /\ a.object = b.object => a = b

AccessInv == AccessTypes /\ RowsOK /\ \A r \in Requests : AccessRequestOK(request[r])

-----------------------------------------------------------------------------
(* Rows with one pair are one entry at most: the select never finds two.     *)
LEMMA OneRowFound ==
  ASSUME RowsOK, NEW kind, NEW subject, NEW object
  PROVE  ~(Cardinality(RowsOf(kind, subject, object)) > 1)
<1> DEFINE R == RowsOf(kind, subject, object)
<1>1. CASE R = {}
  BY <1>1, FS_EmptySet
<1>2. CASE R # {}
  <2>1. PICK entry \in R : TRUE
    BY <1>2
  <2>2. R = {entry}
    BY <2>1 DEF RowsOf, RowsOK
  <2>3. Cardinality(R) = 1
    BY <2>2, FS_Singleton
  <2> QED BY <2>3
<1> QED BY <1>1, <1>2

LEMMA AccessInitInv == AccessInit => AccessInv
<1> SUFFICES ASSUME AccessInit PROVE AccessInv
  OBVIOUS
<1>1. AccessTypes
  BY SeededAreNames DEF AccessInit, AccessTypes, AccessRequest, NoRequest
<1>2. RowsOK /\ \A r \in Requests : AccessRequestOK(request[r])
  BY DEF AccessInit, RowsOK, AccessRequestOK, NoRequest, Assigns
<1> QED BY <1>1, <1>2 DEF AccessInv

LEMMA AccessNextInv == AccessInv /\ [AccessNext]_accessVars => AccessInv'
<1> SUFFICES ASSUME AccessInv, [AccessNext]_accessVars PROVE AccessInv'
  OBVIOUS
<1> USE DEF AccessInv
<1>1. ASSUME NEW r \in Requests, Ask(r) PROVE AccessInv'
  <2>1. PICK pair \in ({"role"} \X {None} \X Roles) \cup ({"service"} \X {None} \X Services)
                        \cup ({"user_role"} \X Users \X Roles) \cup ({"service_role"} \X Services \X Roles) :
          request' = [request EXCEPT ![r] =
            [at |-> IF pair[1] \in {"role", "service"} THEN "create" ELSE "first",
             kind |-> pair[1], subject |-> pair[2], object |-> pair[3], found |-> 0, answer |-> 0]]
    BY <1>1 DEF Ask
  <2> DEFINE new == [at |-> IF pair[1] \in {"role", "service"} THEN "create" ELSE "first",
                     kind |-> pair[1], subject |-> pair[2], object |-> pair[3],
                     found |-> 0, answer |-> 0]
  <2>2. /\ pair[1] \in {"role", "service", "user_role", "service_role"}
        /\ pair[2] \in Users \cup Services \cup {None} /\ pair[3] \in Roles \cup Services
        /\ pair[1] # "service" => pair[3] \in Roles
        /\ pair[1] = "service" => pair[3] \in Services
    <3>1. CASE pair \in {"role"} \X {None} \X Roles
      BY <3>1
    <3>2. CASE pair \in {"service"} \X {None} \X Services
      BY <3>2
    <3>3. CASE pair \in {"user_role"} \X Users \X Roles
      BY <3>3
    <3>4. CASE pair \in {"service_role"} \X Services \X Roles
      BY <3>4
    <3> QED BY <3>1, <3>2, <3>3, <3>4
  <2>3. request' = [request EXCEPT ![r] = new]
    BY <2>1
  <2>4. new \in AccessRequest /\ UNCHANGED <<roles, services, inactive, assignments, nextId>>
    BY <1>1, <2>2 DEF AccessRequest, Ask
  <2>5. AccessTypes'
    BY <2>3, <2>4 DEF AccessTypes
  <2>6. RowsOK'
    BY <2>4 DEF RowsOK
  <2>7. request'[r] = new /\ \A p \in Requests \ {r} : request'[p] = request[p]
    BY <2>3 DEF AccessTypes
  <2>8. AccessRequestOK(request[r])'
    BY <2>2, <2>7 DEF AccessRequestOK, Assigns
  <2>9. \A p \in Requests \ {r} : AccessRequestOK(request[p])'
    BY <2>4, <2>7 DEF AccessRequestOK, HasRow
  <2> QED BY <2>5, <2>6, <2>8, <2>9
<1>2. ASSUME NEW r \in Requests, Create(r) PROVE AccessInv'
  <2> USE <1>2 DEF Create, Reply
  <2>1. AccessTypes'
    BY DEF AccessTypes, AccessRequest, AccessRequestOK
  <2>2. RowsOK'
    BY DEF RowsOK
  <2>3. \A p \in Requests : AccessRequestOK(request[p])'
    BY DEF AccessTypes, AccessRequestOK, HasRow, AccessRequest, Assigns
  <2> QED BY <2>1, <2>2, <2>3
<1>3. ASSUME NEW r \in Requests, CheckFirst(r) \/ CheckSecond(r) PROVE AccessInv'
  <2> USE <1>3 DEF CheckFirst, CheckSecond, Reply, Step
  <2>1. AccessTypes'
    BY DEF AccessTypes, AccessRequest
  <2>2. RowsOK'
    BY DEF RowsOK
  <2>3. \A p \in Requests : AccessRequestOK(request[p])'
    BY DEF AccessTypes, AccessRequestOK, HasRow, AccessRequest, Assigns, SecondThere, RoleThere
  <2> QED BY <2>1, <2>2, <2>3
<1>4. ASSUME NEW r \in Requests, SelectAssignment(r) PROVE AccessInv'
  <2> DEFINE q == request[r]
             rows == RowsOf(q.kind, q.subject, q.object)
  <2>0. ~(Cardinality(rows) > 1)
    BY OneRowFound
  <2>1. /\ q.at = "select"
        /\ \/ rows = {} /\ Step(r, "write")
           \/ \E entry \in rows : request' = [request EXCEPT ![r].at = "write", ![r].found = entry.id]
        /\ UNCHANGED <<roles, services, inactive, assignments, nextId>>
    BY <1>4, <2>0 DEF SelectAssignment
  <2>2. AccessTypes'
    BY <2>1 DEF AccessTypes, AccessRequest, Step, RowsOf
  <2>3. RowsOK'
    BY <2>1 DEF RowsOK
  <2>4. rows # {} => HasRow(q)
    BY DEF RowsOf, HasRow
  <2>4a. q.at # "answered" /\ (q.at = "select" => q.found = 0)
    BY <2>1 DEF AccessRequestOK
  <2>5. \A p \in Requests : AccessRequestOK(request[p])'
    <3>1. /\ request'[r].at = "write" /\ request'[r].answer = q.answer /\ request'[r].kind = q.kind
          /\ request'[r].subject = q.subject /\ request'[r].object = q.object
          /\ request'[r].found # 0 => HasRow(q)
          /\ \A p \in Requests \ {r} : request'[p] = request[p]
      <4>1. CASE rows = {} /\ Step(r, "write")
        <5>1. request'[r] = [q EXCEPT !.at = "write"] /\ \A p \in Requests \ {r} : request'[p] = request[p]
          BY <4>1 DEF Step, AccessTypes, AccessRequest
        <5> QED BY <2>1, <2>4a, <5>1 DEF AccessTypes, AccessRequest
      <4>2. CASE \E entry \in rows : request' = [request EXCEPT ![r].at = "write", ![r].found = entry.id]
        <5>1. PICK entry \in rows : request' = [request EXCEPT ![r].at = "write", ![r].found = entry.id]
          BY <4>2
        <5>2. request'[r] = [q EXCEPT !.at = "write", !.found = entry.id]
              /\ \A p \in Requests \ {r} : request'[p] = request[p]
          BY <5>1 DEF AccessTypes, AccessRequest
        <5> QED BY <2>4, <5>1, <5>2 DEF AccessTypes, AccessRequest
      <4> QED BY <2>1, <4>1, <4>2
    <3>2. AccessRequestOK(q)
      OBVIOUS
    <3>3. AccessRequestOK(request[r])'
      BY <2>1, <3>1, <3>2 DEF AccessRequestOK, HasRow
    <3>4. \A p \in Requests \ {r} : AccessRequestOK(request[p])'
      BY <2>1, <3>1 DEF AccessRequestOK, HasRow
    <3> QED BY <3>3, <3>4
  <2> QED BY <2>2, <2>3, <2>5
<1>5. ASSUME NEW r \in Requests, Write(r) PROVE AccessInv'
  <2> DEFINE q == request[r]
             entry == [id |-> nextId, kind |-> q.kind, subject |-> q.subject, object |-> q.object]
  <2>1. /\ q.at = "write" /\ UNCHANGED <<roles, services, inactive>>
        /\ request' = [request EXCEPT ![r].at = "answered", ![r].answer = request'[r].answer]
        /\ request'[r].answer \in {201, 409}
    BY <1>5 DEF Write, Reply, AccessTypes, AccessRequest
  <2>2. CASE UNCHANGED <<assignments, nextId>> /\ HasRow(q)
    <3>1. AccessTypes'
      BY <2>1, <2>2 DEF AccessTypes, AccessRequest
    <3>2. RowsOK'
      BY <2>2 DEF RowsOK
    <3>3. \A p \in Requests : AccessRequestOK(request[p])'
      BY <2>1, <2>2 DEF AccessTypes, AccessRequestOK, HasRow, AccessRequest, Assigns
    <3> QED BY <3>1, <3>2, <3>3
  <2>3. CASE /\ assignments' = assignments \cup {entry} /\ nextId' = nextId + 1
             /\ ~Taken(q)
    <3>1. AccessTypes'
      BY <2>1, <2>3 DEF AccessTypes, AccessRequest
    <3>2. RowsOK'
      BY <2>1, <2>3 DEF RowsOK, Taken, RowsOf
    <3>3. \A p \in Requests : /\ request'[p].kind = request[p].kind
                              /\ request'[p].subject = request[p].subject
                              /\ request'[p].object = request[p].object
      BY <2>1 DEF AccessTypes, AccessRequest
    <3>4. \A p \in Requests : HasRow(request[p]) => HasRow(request[p])'
      BY <2>3, <3>3 DEF HasRow
    <3>5. entry \in assignments' /\ entry.kind = request'[r].kind
          /\ entry.subject = request'[r].subject /\ entry.object = request'[r].object
      BY <2>3, <3>3
    <3>6. HasRow(request[r])'
      BY <3>5 DEF HasRow
    <3>7. \A p \in Requests : AccessRequestOK(request[p])'
      BY <2>1, <3>4, <3>6 DEF AccessTypes, AccessRequestOK, AccessRequest, Assigns
    <3> QED BY <3>1, <3>2, <3>7
  <2>4. \/ UNCHANGED <<assignments, nextId>> /\ HasRow(q)
        \/ /\ assignments' = assignments \cup {entry} /\ nextId' = nextId + 1
           /\ ~Taken(q)
    BY <1>5 DEF Write, Taken, RowsOf, HasRow, AccessRequestOK
  <2> QED BY <2>2, <2>3, <2>4
<1>6. ASSUME NEW u \in Users, ToggleUser(u) PROVE AccessInv'
  BY <1>6 DEF ToggleUser, AccessTypes, RowsOK, AccessRequestOK, HasRow
<1>7. CASE UNCHANGED accessVars
  BY <1>7 DEF accessVars, AccessTypes, RowsOK, AccessRequestOK, HasRow
<1> QED BY <1>1, <1>2, <1>3, <1>4, <1>5, <1>6, <1>7 DEF AccessNext

LEMMA AccessInvariance == AccessSpec => []AccessInv
BY AccessInitInv, AccessNextInv, PTL DEF AccessSpec

-----------------------------------------------------------------------------
(* Type correctness of the tables and of the answers.                      *)
THEOREM AccessTyping == AccessSpec => []AccessTypeOK
<1>1. AccessInv => AccessTypeOK
  BY DEF AccessInv, AccessTypes, AccessTypeOK, AccessRequest
<1> QED BY <1>1, AccessInvariance, PTL

(* However many administrators assign one pair at once, one entry is left of *)
(* it and no request fails for finding two.                                *)
THEOREM NoSecondRow == AccessSpec => []OneRowPerPair
<1>1. AccessInv => OneRowPerPair
  BY DEF AccessInv, RowsOK, OneRowPerPair, AccessRequestOK
<1> QED BY <1>1, AccessInvariance, PTL

(* "Created" and "already assigned" of both assignments of a role give the *)
(* user access to the service.                                             *)
THEOREM Reliable == AccessSpec => []AnswersGiveAccess
<1>1. AccessInv => AnswersGiveAccess
  <2> SUFFICES ASSUME AccessInv, NEW q \in Requests, NEW p \in Requests,
                      request[q].answer \in {201, 409}, request[q].kind = "user_role",
                      request[p].answer \in {201, 409}, request[p].kind = "service_role",
                      request[q].object = request[p].object
               PROVE  HasAccess(request[q].subject, request[p].subject)
    BY DEF AnswersGiveAccess
  <2>1. /\ HasRow(request[q]) /\ HasRow(request[p])
        /\ request[q].object \in Roles /\ request[p].subject \in services
    BY DEF AccessInv, AccessRequestOK, Assigns
  <2> QED BY <2>1 DEF HasAccess, HasRow
<1> QED BY <1>1, AccessInvariance, PTL

-----------------------------------------------------------------------------
(* Provisioning.  From its last load on, a request acts on the object it   *)
(* loaded.  What is in ChirpStack stays there, in its place, and keeps a   *)
(* key; so a request finds there what its earlier calls found (OnTheWay),  *)
(* and its row is the one it loaded unless somebody edited it.  A device   *)
(* that no two requests were about has one request at most, which knows the*)
(* only key (AloneOK), and no other request calls for its DevEUI (OwnOK).  *)
Calling(r) ==
  req[r].step \in {"create", "get", "update", "keys", "rekey", "made", "failed"}

TableOK ==
  /\ \A d \in Device : ~ row[d].there => row[d] = NoRow
  /\ \A c, d \in Device : row[c].eui = row[d].eui /\ row[d].eui # NoEui => c = d

RemoteOK ==
  /\ \A e \in Eui : remote[e].key # NoKey => remote[e].there
  /\ \A c \in late : c.op = "rekey" => c.key # NoKey

OnTheWay(q) ==
  /\ q.step \in {"get", "update", "keys", "rekey", "made"} =>
       q.was.eui # NoEui /\ remote[q.was.eui].there
  /\ q.step \in {"update", "keys", "rekey", "made"} => remote[q.was.eui].place = q.was.place
  /\ q.step \in {"rekey", "made"} => remote[q.was.eui].key # NoKey
  /\ q.step = "rekey" => q.key # NoKey
  /\ q.step = "failed" =>
       \/ q.erred \/ q.key = NoKey \/ q.was.eui = NoEui
       \/ remote[q.was.eui].there /\ remote[q.was.eui].place # q.was.place

OfItsRow(r) ==
  /\ Running(r) => req[r].device \in Device /\ row[req[r].device].there
  /\ Calling(r) /\ req[r].device \notin edited =>
       /\ row[req[r].device].eui = req[r].was.eui
       /\ row[req[r].device].place = req[r].was.place

AloneOK(d) ==
  d \notin overlap =>
    /\ \A r, s \in About(d) : r = s
    /\ row[d].status = "PROVISIONED" => About(d) = {}
    /\ row[d].last4 # NoKey => row[d].status = "PROVISIONED"
    /\ \A r \in About(d) : Calling(r) =>
         req[r].was.last4 = NoKey /\ req[r].was.status # "PROVISIONED"

OwnEui(d) ==
  row[d].eui # NoEui /\ (row[d].status = "PROVISIONED" \/ \E r \in About(d) : Calling(r)) =>
    \A s \in Request : Calling(s) /\ req[s].was.eui = row[d].eui => req[s].device = d

OwnKey(d) ==
  \A r \in About(d) : req[r].step = "made" /\ ~ tardy /\ req[r].key # NoKey =>
    remote[req[r].was.eui].key = req[r].key

OwnOK(d) == d \notin overlap \cup edited => OwnEui(d) /\ OwnKey(d)

SagaInv ==
  /\ TypeOK /\ TableOK /\ RemoteOK
  /\ \A r \in Request : OnTheWay(req[r]) /\ OfItsRow(r)
  /\ \A d \in Device : AloneOK(d) /\ OwnOK(d)
  /\ ProvisionedIsThere /\ KeyShown

RemoteRow == [there : BOOLEAN, place : Place \cup {NoEui}, key : Key \cup {NoKey}]
CallRecord == [op : SagaSteps, eui : Eui \cup {NoEui}, place : Place \cup {NoEui}, key : Key \cup {NoKey}]

LEMMA SagaInitInv == Init => SagaInv
<1> SUFFICES ASSUME Init PROVE SagaInv OBVIOUS
<1> USE ConstantsOK DEF Init
<1>1. /\ NoRow \in Row
      /\ \A e \in Eui, p \in Place : Identified(e, p) \in Row
      /\ \A e \in Eui, p \in Place :
           /\ Identified(e, p).there /\ Identified(e, p).eui = e
           /\ Identified(e, p).status = "NOT_PROVISIONED" /\ Identified(e, p).last4 = NoKey
  BY DEF NoRow, Identified, Row
<1>2. \A d \in Device : row[d] = NoRow \/ \E e \in Eui, p \in Place : row[d] = Identified(e, p)
  OBVIOUS
<1>3. \A r \in Request : req[r] = Idle /\ Idle.step = "idle" BY DEF Idle
<1>4. TypeOK
  <2>1. row \in [Device -> Row] BY <1>1
  <2>2. remote \in [Eui -> RemoteRow]
    <3>1. NotRemote \in RemoteRow BY DEF NotRemote, RemoteRow
    <3>2. \A p \in Place : RemoteAt(p) \in RemoteRow BY DEF RemoteAt, RemoteRow
    <3> QED BY <3>1, <3>2
  <2>3. Idle \in [step : SagaSteps, device : Device \cup {NoEui}, key : Key \cup {NoKey},
                  was : Row, erred : BOOLEAN]
    BY <1>1 DEF Idle, SagaSteps
  <2> QED BY <2>1, <2>2, <2>3 DEF TypeOK, RemoteRow
<1>5. \A d \in Device : row[d].status = "NOT_PROVISIONED" /\ row[d].last4 = NoKey
  BY <1>1, <1>2 DEF NoRow
<1>6. TableOK
  <2>1. \A d \in Device : row[d].there \/ row[d] = NoRow BY <1>1, <1>2
  <2>2. \A d \in Device : row[d].eui # NoEui => row[d].there BY <2>1 DEF NoRow
  <2> QED BY <2>1, <2>2 DEF TableOK
<1>7. RemoteOK
  <2>1. NotRemote.key = NoKey /\ \A p \in Place : RemoteAt(p).key = NoKey
    BY DEF NotRemote, RemoteAt
  <2>2. \A e \in Eui : remote[e].key = NoKey BY <2>1
  <2> QED BY <2>2 DEF RemoteOK
<1>8. \A r \in Request : ~ Running(r) /\ ~ Calling(r) BY <1>3 DEF Running, Calling
<1>9. \A r \in Request : OnTheWay(req[r]) /\ OfItsRow(r) BY <1>3, <1>8 DEF OnTheWay, OfItsRow
<1>10. \A d \in Device : AloneOK(d) /\ OwnOK(d)
  BY <1>3, <1>5, <1>8 DEF AloneOK, OwnOK, OwnEui, OwnKey, About
<1>11. ProvisionedIsThere /\ KeyShown BY <1>5 DEF ProvisionedIsThere, KeyShown
<1> QED BY <1>4, <1>6, <1>7, <1>9, <1>10, <1>11 DEF SagaInv

(* A call leaves in ChirpStack what is there, and what has a key has one.  *)
LEMMA AppliedGrows ==
  ASSUME remote \in [Eui -> RemoteRow], NEW c \in CallRecord,
         c.op = "rekey" => c.key # NoKey
  PROVE  /\ Applied(c) \in [Eui -> RemoteRow]
         /\ \A e \in Eui :
              /\ remote[e].there => Applied(c)[e].there /\ Applied(c)[e].place = remote[e].place
              /\ remote[e].there /\ remote[e].key # NoKey => Applied(c)[e].key # NoKey
              /\ (remote[e].key # NoKey => remote[e].there) /\ Applied(c)[e].key # NoKey =>
                   Applied(c)[e].there
              /\ e # c.eui => Applied(c)[e] = remote[e]
<1> DEFINE e == c.eui
<1>1. CASE e \in Eui
  <2> DEFINE new == Applied(c)[e]
  <2>1. c.eui # NoEui BY <1>1, ConstantsOK
  <2>2. \/ Applied(c) = remote
        \/ c.op = "create" /\ ~ remote[e].there /\ Applied(c) = [remote EXCEPT ![e] = RemoteAt(c.place)]
        \/ /\ remote[e].there \/ remote[e].key # NoKey
           /\ c.key # NoKey
           /\ Applied(c) = [remote EXCEPT ![e].key = c.key]
    BY <2>1 DEF Applied
  <2>3. /\ RemoteAt(c.place) \in RemoteRow /\ RemoteAt(c.place).key = NoKey
        /\ [remote[e] EXCEPT !.key = c.key] \in RemoteRow
        /\ [remote[e] EXCEPT !.key = c.key].there = remote[e].there
        /\ [remote[e] EXCEPT !.key = c.key].place = remote[e].place
        /\ [remote[e] EXCEPT !.key = c.key].key = c.key
    BY <1>1 DEF CallRecord, RemoteRow, RemoteAt
  <2>4. CASE Applied(c) = remote BY <2>4
  <2>5. CASE ~ remote[e].there /\ Applied(c) = [remote EXCEPT ![e] = RemoteAt(c.place)]
    BY <1>1, <2>3, <2>5
  <2>6. CASE /\ remote[e].there \/ remote[e].key # NoKey
             /\ c.key # NoKey
             /\ Applied(c) = [remote EXCEPT ![e].key = c.key]
    BY <1>1, <2>3, <2>6
  <2> QED BY <2>2, <2>4, <2>5, <2>6
<1>2. CASE e = NoEui BY <1>2 DEF Applied
<1> QED BY <1>1, <1>2 DEF CallRecord

ReqRecord == [step : SagaSteps, device : Device \cup {NoEui}, key : Key \cup {NoKey},
              was : Row, erred : BOOLEAN]

LEMMA SagaTypes ==
  ASSUME SagaInv
  PROVE  /\ row \in [Device -> Row] /\ remote \in [Eui -> RemoteRow]
         /\ req \in [Request -> ReqRecord]
         /\ late \subseteq CallRecord /\ \A c \in late : c.eui \in Eui
         /\ overlap \subseteq Device /\ edited \subseteq Device /\ tardy \in BOOLEAN
BY DEF SagaInv, TypeOK, RemoteRow, ReqRecord, CallRecord

CallStep(r) ==
  CreateDevice(r) \/ GetDevice(r) \/ UpdateDevice(r) \/ EnsureKeys(r) \/ UpdateKeys(r) \/ CallFails(r)

(* What the steps with a call have in common.                              *)
LEMMA CallEffects ==
  ASSUME SagaInv, NEW r \in Request, CallStep(r)
  PROVE  /\ UNCHANGED <<row, overlap, edited, tardy>>
         /\ req[r].step \in {"create", "get", "update", "keys", "rekey"}
         /\ Call(r) \in CallRecord /\ (Call(r).op = "rekey" => Call(r).key # NoKey)
         /\ Call(r).eui = req[r].was.eui
         /\ remote' = remote \/ remote' = Applied(Call(r))
         /\ late' = late \/ (late' = late \cup {Call(r)} /\ Call(r).eui \in Eui)
         /\ req' \in [Request -> ReqRecord]
         /\ \A s \in Request : s # r => req'[s] = req[s]
         /\ req'[r].device = req[r].device /\ req'[r].was = req[r].was
         /\ req'[r].step \in {"get", "update", "keys", "rekey", "made", "failed"}
<1> DEFINE q == req[r]
<1>1. q \in ReqRecord /\ q.was \in Row /\ OnTheWay(q) BY SagaTypes DEF ReqRecord, SagaInv
<1>2. /\ q.step \in {"create", "get", "update", "keys", "rekey"}
      /\ UNCHANGED <<row, overlap, edited, tardy>>
      /\ remote' = remote \/ remote' = Applied(Call(r))
      /\ late' = late \/ (late' = late \cup {Call(r)} /\ q.was.eui # NoEui)
  BY DEF CallStep, CreateDevice, GetDevice, UpdateDevice, EnsureKeys, UpdateKeys, CallFails,
         Answered, history
<1>3. /\ Call(r) \in CallRecord /\ Call(r).eui = q.was.eui
      /\ Call(r).op = "rekey" => Call(r).key # NoKey
      /\ q.was.eui # NoEui => Call(r).eui \in Eui
  BY <1>1 DEF Call, CallRecord, ReqRecord, Row, OnTheWay
<1>4. \E to \in {"get", "update", "keys", "rekey", "made", "failed"} :
        req' = [req EXCEPT ![r].step = to] \/ req' = [req EXCEPT ![r].step = to, ![r].erred = TRUE]
  <2> DEFINE Shifts == \E to \in {"get", "update", "keys", "rekey", "made", "failed"} :
        req' = [req EXCEPT ![r].step = to] \/ req' = [req EXCEPT ![r].step = to, ![r].erred = TRUE]
  <2>1. CASE CreateDevice(r) BY <2>1 DEF CreateDevice, Answered, Go
  <2>2. CASE GetDevice(r) BY <2>2 DEF GetDevice, Answered, Go
  <2>3. CASE UpdateDevice(r) BY <2>3 DEF UpdateDevice, Answered, Go
  <2>4. CASE EnsureKeys(r) BY <2>4 DEF EnsureKeys, Answered, Go
  <2>5. CASE UpdateKeys(r) BY <2>5 DEF UpdateKeys, Answered, Go
  <2>6. CASE CallFails(r) BY <2>6 DEF CallFails
  <2> QED BY <2>1, <2>2, <2>3, <2>4, <2>5, <2>6 DEF CallStep
<1>5. PICK to \in {"get", "update", "keys", "rekey", "made", "failed"} :
        req' = [req EXCEPT ![r].step = to] \/ req' = [req EXCEPT ![r].step = to, ![r].erred = TRUE]
  BY <1>4
<1>6. /\ [q EXCEPT !.step = to] \in ReqRecord
      /\ [q EXCEPT !.step = to, !.erred = TRUE] \in ReqRecord
  BY <1>1 DEF ReqRecord, SagaSteps
<1>7. req'[r] = [q EXCEPT !.step = to] \/ req'[r] = [q EXCEPT !.step = to, !.erred = TRUE]
  BY <1>5, SagaTypes
<1>8. /\ req' \in [Request -> ReqRecord]
      /\ \A s \in Request : s # r => req'[s] = req[s]
  BY <1>5, <1>6, SagaTypes
<1>9. req'[r].device = q.device /\ req'[r].was = q.was /\ req'[r].step = to
  BY <1>1, <1>7 DEF ReqRecord
<1> QED BY <1>2, <1>3, <1>8, <1>9

(* A request finds in ChirpStack what its earlier calls found.             *)
LEMMA OthersOnTheWay ==
  ASSUME SagaInv, NEW s \in Request, req'[s] = req[s],
         \A e \in Eui : /\ remote[e].there =>
                             remote'[e].there /\ remote'[e].place = remote[e].place
                        /\ remote[e].key # NoKey => remote'[e].key # NoKey
  PROVE  OnTheWay(req[s])'
<1>1. req[s].was.eui \in Eui \cup {NoEui} BY SagaTypes DEF ReqRecord, Row
<1>2. OnTheWay(req[s]) BY DEF SagaInv
<1> QED BY <1>1, <1>2 DEF OnTheWay

LEMMA CallGrows ==
  ASSUME SagaInv, NEW c \in CallRecord, c.op = "rekey" => c.key # NoKey,
         remote' = remote \/ remote' = Applied(c)
  PROVE  /\ remote' \in [Eui -> RemoteRow]
         /\ \A e \in Eui :
              /\ remote[e].there =>
                   remote'[e].there /\ remote'[e].place = remote[e].place
              /\ remote[e].key # NoKey => remote'[e].key # NoKey
              /\ remote'[e].key # NoKey => remote'[e].there
              /\ e # c.eui => remote'[e] = remote[e]
BY AppliedGrows, SagaTypes DEF SagaInv, RemoteOK

LEMMA CallOnTheWay ==
  ASSUME SagaInv, NEW r \in Request, CallStep(r)
  PROVE  OnTheWay(req[r])'
<1> DEFINE q == req[r]
           e == q.was.eui
<1>1. q \in ReqRecord /\ q.was \in Row /\ OnTheWay(q) /\ e \in Eui \cup {NoEui}
  BY SagaTypes DEF ReqRecord, Row, SagaInv
<1>2. /\ req'[r].was = q.was /\ req'[r].device = q.device
      /\ Call(r) \in CallRecord /\ (Call(r).op = "rekey" => Call(r).key # NoKey)
      /\ remote' = remote \/ remote' = Applied(Call(r))
  BY CallEffects
<1>3. e \in Eui => /\ remote[e].there => remote'[e].there /\ remote'[e].place = remote[e].place
                   /\ remote[e].key # NoKey => remote'[e].key # NoKey
  BY <1>2, CallGrows
<1>4. Call(r) = [op |-> q.step, eui |-> e, place |-> q.was.place, key |-> q.key] BY DEF Call
<1>5. \/ CallFails(r)
      \/ /\ req'[r].key = q.key /\ req'[r].erred = q.erred /\ remote' = Applied(Call(r))
         /\ \/ /\ q.step = "create"
               /\ req'[r].step = IF e = NoEui THEN "failed" ELSE IF remote[e].there THEN "get" ELSE "keys"
            \/ /\ q.step = "get"
               /\ req'[r].step = IF remote[e].place = q.was.place THEN "update" ELSE "failed"
            \/ q.step = "update" /\ req'[r].step = "keys"
            \/ /\ q.step = "keys"
               /\ req'[r].step = IF q.key = NoKey
                                 THEN IF remote[e].key # NoKey THEN "made" ELSE "failed"
                                 ELSE IF remote[e].key # NoKey THEN "rekey" ELSE "made"
            \/ q.step = "rekey" /\ req'[r].step = "made"
  <2>1. ASSUME NEW to, req' = [req EXCEPT ![r].step = to]
        PROVE  req'[r].step = to /\ req'[r].key = q.key /\ req'[r].erred = q.erred
    <3>1. req'[r] = [q EXCEPT !.step = to] BY <2>1, SagaTypes
    <3> QED BY <1>1, <3>1 DEF ReqRecord
  <2>2. CASE CreateDevice(r) BY <2>1, <2>2 DEF CreateDevice, Answered, Go
  <2>3. CASE GetDevice(r) BY <2>1, <2>3 DEF GetDevice, Answered, Go
  <2>4. CASE UpdateDevice(r) BY <2>1, <2>4 DEF UpdateDevice, Answered, Go
  <2>5. CASE EnsureKeys(r)
    <3> DEFINE to == IF q.key = NoKey
                     THEN IF remote[e].key # NoKey THEN "made" ELSE "failed"
                     ELSE IF remote[e].key # NoKey THEN "rekey" ELSE "made"
    <3>1. q.step = "keys" /\ req' = [req EXCEPT ![r].step = to] /\ remote' = Applied(Call(r))
      BY <2>5 DEF EnsureKeys, Answered, Go
    <3>2. req'[r].step = to /\ req'[r].key = q.key /\ req'[r].erred = q.erred
      <4> HIDE DEF to
      <4> QED BY <2>1, <3>1
    <3> QED BY <3>1, <3>2
  <2>6. CASE UpdateKeys(r) BY <2>1, <2>6 DEF UpdateKeys, Answered, Go
  <2> QED BY <2>2, <2>3, <2>4, <2>5, <2>6 DEF CallStep
<1>6. CASE q.step = "create" /\ ~ CallFails(r)
  <2>1. CASE e = NoEui \/ remote[e].there BY <1>1, <1>2, <1>3, <1>5, <1>6, <2>1 DEF OnTheWay
  <2>2. CASE e # NoEui /\ ~ remote[e].there
    <3>1. remote' = [remote EXCEPT ![e] = RemoteAt(q.was.place)]
      BY <1>1, <1>4, <1>5, <1>6, <2>2 DEF Applied
    <3>2. remote'[e].there /\ remote'[e].place = q.was.place
      BY <1>1, <2>2, <3>1, SagaTypes DEF RemoteAt
    <3> QED BY <1>2, <1>5, <1>6, <2>2, <3>2 DEF OnTheWay
  <2> QED BY <2>1, <2>2
<1>7. CASE q.step \in {"get", "update", "rekey"} /\ ~ CallFails(r)
  BY <1>1, <1>2, <1>3, <1>5, <1>7 DEF OnTheWay
<1>8. CASE q.step = "keys" /\ ~ CallFails(r)
  <2>1. /\ e \in Eui /\ e # NoEui /\ remote'[e].there /\ remote'[e].place = q.was.place
    BY <1>1, <1>3, <1>8 DEF OnTheWay
  <2>2. CASE q.key = NoKey \/ remote[e].key # NoKey
    BY <1>2, <1>3, <1>5, <1>8, <2>1, <2>2 DEF OnTheWay
  <2>3. CASE q.key # NoKey /\ remote[e].key = NoKey
    <3>1. remote[e].there /\ e # NoEui BY <1>1, <1>8 DEF OnTheWay
    <3>2. remote' = [remote EXCEPT ![e].key = q.key]
      BY <1>4, <1>5, <1>8, <2>3, <3>1 DEF Applied
    <3>3. remote'[e].key = q.key
      BY <2>1, <3>2, SagaTypes DEF RemoteRow
    <3> QED BY <1>2, <1>5, <1>8, <2>1, <2>3, <3>3 DEF OnTheWay
  <2> QED BY <2>2, <2>3
<1>9. CASE CallFails(r)
  <2>1. req'[r] = [q EXCEPT !.step = "failed", !.erred = TRUE]
    BY <1>9, SagaTypes DEF CallFails
  <2>2. req'[r].step = "failed" /\ req'[r].erred BY <1>1, <2>1 DEF ReqRecord
  <2> QED BY <2>2 DEF OnTheWay
<1> QED BY <1>5, <1>6, <1>7, <1>8, <1>9

(* Another request's call touches no key of a device it is not about.      *)
LEMMA CallLeavesKeys ==
  ASSUME SagaInv, NEW r \in Request, CallStep(r),
         NEW d \in Device, d \notin overlap \cup edited, row[d].eui \in Eui,
         row[d].status = "PROVISIONED" \/ \E s \in About(d) : s # r /\ Calling(s)
  PROVE  remote'[row[d].eui] = remote[row[d].eui]
<1>1. /\ Call(r) \in CallRecord /\ (Call(r).op = "rekey" => Call(r).key # NoKey)
      /\ Call(r).eui = req[r].was.eui
      /\ remote' = remote \/ remote' = Applied(Call(r))
      /\ Calling(r) /\ Running(r)
  BY CallEffects DEF Calling, Running
<1>2. req[r].was.eui # row[d].eui
  <2> SUFFICES ASSUME req[r].was.eui = row[d].eui PROVE FALSE OBVIOUS
  <2>1. AloneOK(d) /\ OwnOK(d) BY DEF SagaInv
  <2>2. row[d].eui # NoEui BY ConstantsOK
  <2>3. req[r].device = d BY <1>1, <2>1, <2>2 DEF OwnOK, OwnEui
  <2>4. r \in About(d) BY <1>1, <2>3 DEF About
  <2> QED BY <2>1, <2>4 DEF AloneOK
<1> QED BY <1>1, <1>2, CallGrows

(* When its keys are made, the key in force is the one it was given.       *)
LEMMA CallGivesKey ==
  ASSUME SagaInv, NEW r \in Request, CallStep(r), req'[r].step = "made", req'[r].key # NoKey
  PROVE  remote'[req'[r].was.eui].key = req'[r].key
<1> DEFINE q == req[r]
           e == q.was.eui
<1>1. q \in ReqRecord /\ q.was \in Row /\ OnTheWay(q) BY SagaTypes DEF ReqRecord, SagaInv
<1>2. ASSUME NEW to, req' = [req EXCEPT ![r].step = to]
      PROVE  req'[r].step = to /\ req'[r].key = q.key /\ req'[r].was = q.was
  <2>1. req'[r] = [q EXCEPT !.step = to] BY <1>2, SagaTypes
  <2> QED BY <1>1, <2>1 DEF ReqRecord
<1>3. /\ req'[r].key = q.key /\ req'[r].was = q.was /\ remote' = Applied(Call(r))
      /\ \/ q.step = "keys" /\ (remote[e].key = NoKey \/ q.key = NoKey)
         \/ q.step = "rekey"
  <2>1. CASE CreateDevice(r) BY <1>2, <2>1 DEF CreateDevice, Answered, Go
  <2>2. CASE GetDevice(r) BY <1>2, <2>2 DEF GetDevice, Answered, Go
  <2>3. CASE UpdateDevice(r) BY <1>2, <2>3 DEF UpdateDevice, Answered, Go
  <2>4. CASE EnsureKeys(r)
    <3> DEFINE to == IF q.key = NoKey
                     THEN IF remote[e].key # NoKey THEN "made" ELSE "failed"
                     ELSE IF remote[e].key # NoKey THEN "rekey" ELSE "made"
    <3>1. q.step = "keys" /\ req' = [req EXCEPT ![r].step = to] /\ remote' = Applied(Call(r))
      BY <2>4 DEF EnsureKeys, Answered, Go
    <3>2. req'[r].step = to /\ req'[r].key = q.key /\ req'[r].was = q.was
      <4> HIDE DEF to
      <4> QED BY <1>2, <3>1
    <3> QED BY <3>1, <3>2
  <2>5. CASE UpdateKeys(r) BY <1>2, <2>5 DEF UpdateKeys, Answered, Go
  <2>6. CASE CallFails(r)
    <3>1. req'[r] = [q EXCEPT !.step = "failed", !.erred = TRUE] BY <2>6, SagaTypes DEF CallFails
    <3> QED BY <1>1, <3>1 DEF ReqRecord
  <2> QED BY <2>1, <2>2, <2>3, <2>4, <2>5, <2>6 DEF CallStep
<1>4. /\ e # NoEui /\ e \in Eui /\ remote[e].there
      /\ q.step = "rekey" => remote[e].key # NoKey
  BY <1>1, <1>3 DEF OnTheWay, Row
<1>5. remote' = [remote EXCEPT ![e].key = q.key]
  BY <1>3, <1>4 DEF Applied, Call
<1> QED BY <1>3, <1>4, <1>5, SagaTypes DEF RemoteRow

LEMMA CallInv ==
  ASSUME SagaInv, NEW r \in Request, CallStep(r)
  PROVE  SagaInv'
<1>1. /\ UNCHANGED <<row, overlap, edited, tardy>>
      /\ req[r].step \in {"create", "get", "update", "keys", "rekey"}
      /\ Call(r) \in CallRecord /\ (Call(r).op = "rekey" => Call(r).key # NoKey)
      /\ remote' = remote \/ remote' = Applied(Call(r))
      /\ late' = late \/ (late' = late \cup {Call(r)} /\ Call(r).eui \in Eui)
      /\ req' \in [Request -> ReqRecord]
      /\ \A s \in Request : s # r => req'[s] = req[s]
      /\ req'[r].device = req[r].device /\ req'[r].was = req[r].was
      /\ req'[r].step \in {"get", "update", "keys", "rekey", "made", "failed"}
  BY CallEffects
<1>2. /\ remote' \in [Eui -> RemoteRow]
      /\ \A e \in Eui : /\ remote[e].there =>
                             remote'[e].there /\ remote'[e].place = remote[e].place
                        /\ remote[e].key # NoKey => remote'[e].key # NoKey
                        /\ remote'[e].key # NoKey => remote'[e].there
  BY <1>1, CallGrows
<1>3. TypeOK'
  <2>1. late' \subseteq [op : SagaSteps, eui : Eui, place : Place \cup {NoEui}, key : Key \cup {NoKey}]
    BY <1>1 DEF SagaInv, TypeOK, CallRecord
  <2> QED BY <1>1, <1>2, <2>1 DEF SagaInv, TypeOK, ReqRecord, RemoteRow
<1>4. TableOK' BY <1>1 DEF SagaInv, TableOK
<1>5. RemoteOK' BY <1>1, <1>2 DEF SagaInv, RemoteOK
<1>6. \A s \in Request : OnTheWay(req[s])' BY <1>1, <1>2, OthersOnTheWay, CallOnTheWay
<1>7. \A s \in Request : /\ req'[s].device = req[s].device /\ req'[s].was = req[s].was
                         /\ Running(s)' <=> Running(s)
                         /\ Calling(s)' <=> Calling(s)
  BY <1>1 DEF Running, Calling
<1>8. \A d : About(d)' = About(d) BY <1>7 DEF About
<1>9. \A s \in Request : OfItsRow(s)' BY <1>1, <1>7 DEF SagaInv, OfItsRow
<1>10. \A d \in Device : AloneOK(d)' BY <1>1, <1>7, <1>8 DEF SagaInv, AloneOK, About
<1>11. ASSUME NEW d \in Device PROVE OwnOK(d)'
  <2> SUFFICES ASSUME d \notin overlap \cup edited PROVE OwnEui(d)' /\ OwnKey(d)'
    BY <1>1 DEF OwnOK
  <2>1. OwnEui(d) /\ OwnKey(d) BY DEF SagaInv, OwnOK
  <2>2. OwnEui(d)' BY <1>1, <1>7, <1>8, <2>1 DEF OwnEui, About
  <2>3. ASSUME NEW s \in About(d), req'[s].step = "made", ~ tardy, req'[s].key # NoKey
        PROVE  remote'[req'[s].was.eui].key = req'[s].key
    <3>1. CASE s = r BY <1>1, <2>3, <3>1, CallGivesKey
    <3>2. CASE s # r
      <4>1. s \in Request /\ req'[s] = req[s] /\ Running(s) /\ req[s].device = d BY <1>1, <3>2 DEF About
      <4>2. Calling(s) /\ OnTheWay(req[s]) /\ OfItsRow(s) BY <2>3, <4>1 DEF Calling, SagaInv
      <4>3. req[s].was.eui = row[d].eui /\ row[d].eui \in Eui
        BY <2>3, <4>1, <4>2, SagaTypes DEF OfItsRow, OnTheWay, Row
      <4>4. remote'[row[d].eui] = remote[row[d].eui] BY <3>2, <4>2, <4>3, CallLeavesKeys
      <4> QED BY <2>1, <2>3, <4>1, <4>3, <4>4 DEF OwnKey
    <3> QED BY <3>1, <3>2
  <2>4. OwnKey(d)' BY <1>1, <1>8, <2>3 DEF OwnKey
  <2> QED BY <2>2, <2>4
<1>12. ProvisionedIsThere'
  <2> SUFFICES ASSUME NEW d \in Device, d \notin edited, row[d].status = "PROVISIONED"
               PROVE  /\ row[d].eui # NoEui /\ remote'[row[d].eui].place = row[d].place
                      /\ remote'[row[d].eui].key # NoKey
    BY <1>1 DEF ProvisionedIsThere
  <2>1. /\ row[d].eui # NoEui /\ remote[row[d].eui].place = row[d].place
        /\ remote[row[d].eui].key # NoKey
    BY DEF SagaInv, ProvisionedIsThere
  <2>2. row[d].eui \in Eui BY <2>1, SagaTypes DEF Row
  <2> QED BY <1>2, <2>1, <2>2 DEF SagaInv, RemoteOK
<1>13. KeyShown'
  <2> SUFFICES ASSUME NEW d \in Device, d \notin edited \cup overlap,
                      row[d].status = "PROVISIONED", ~ tardy
               PROVE  row[d].last4 \in {NoKey, remote'[row[d].eui].key}
    BY <1>1 DEF KeyShown
  <2>1. row[d].last4 \in {NoKey, remote[row[d].eui].key} BY DEF SagaInv, KeyShown
  <2>2. row[d].eui \in Eui BY SagaTypes DEF SagaInv, ProvisionedIsThere, Row
  <2> QED BY <2>1, <2>2, CallLeavesKeys
<1> QED BY <1>3, <1>4, <1>5, <1>6, <1>9, <1>10, <1>11, <1>12, <1>13 DEF SagaInv

(* A commit writes what differs from the object as it was loaded.          *)
LEMMA Merging ==
  ASSUME NEW d \in Device, row \in [Device -> Row], NEW was \in Row, NEW now \in Row
  PROVE  LET new == Merge(d, was, now) IN
         /\ new \in Row
         /\ new.there = IF now.there = was.there THEN row[d].there ELSE now.there
         /\ new.eui = IF now.eui = was.eui THEN row[d].eui ELSE now.eui
         /\ new.place = IF now.place = was.place THEN row[d].place ELSE now.place
         /\ new.status = IF now.status = was.status THEN row[d].status ELSE now.status
         /\ new.last4 = IF now.last4 = was.last4 THEN row[d].last4 ELSE now.last4
<1> DEFINE fields == {"there", "eui", "place", "status", "at", "error", "last4"}
           new == Merge(d, was, now)
<1>1. DOMAIN was = fields BY DEF Row
<1>2. new = [f \in fields |-> IF now[f] = was[f] THEN row[d][f] ELSE now[f]] BY <1>1 DEF Merge
<1>3. \A f \in fields : new[f] = IF now[f] = was[f] THEN row[d][f] ELSE now[f] BY <1>2
<1>4. new = [there |-> new["there"], eui |-> new["eui"], place |-> new["place"],
             status |-> new["status"], at |-> new["at"], error |-> new["error"],
             last4 |-> new["last4"]]
  <2> HIDE DEF new
  <2>1. DOMAIN new = fields BY <1>2
  <2> QED BY <1>2, <2>1
<1> HIDE DEF new
<1>5. row[d] \in Row OBVIOUS
<1>6. new \in Row BY <1>3, <1>4, <1>5 DEF Row
<1>7. /\ new.there = IF now.there = was.there THEN row[d].there ELSE now.there
      /\ new.eui = IF now.eui = was.eui THEN row[d].eui ELSE now.eui
      /\ new.place = IF now.place = was.place THEN row[d].place ELSE now.place
      /\ new.status = IF now.status = was.status THEN row[d].status ELSE now.status
      /\ new.last4 = IF now.last4 = was.last4 THEN row[d].last4 ELSE now.last4
  BY <1>3
<1> QED BY <1>6, <1>7 DEF new

(* A step that writes the row of its request and leaves ChirpStack alone.  *)
LEMMA RowStep ==
  ASSUME SagaInv, NEW r \in Request, Running(r), NEW new \in Row, NEW to \in {"load", "done"},
         to = "load" => req[r].step = "pend",
         req' = [req EXCEPT ![r].step = to],
         row' = [row EXCEPT ![req[r].device] = new],
         UNCHANGED <<remote, late, history>>,
         new.there,
         new.eui = row[req[r].device].eui, new.place = row[req[r].device].place,
         new.status = "PROVISIONED" =>
           row[req[r].device].status = "PROVISIONED" \/ req[r].step = "made",
         req[r].device \notin overlap =>
           /\ new.status = "PROVISIONED" => to = "done"
           /\ new.last4 # NoKey => new.status = "PROVISIONED",
         new.status = "PROVISIONED" /\ ~ tardy /\ req[r].device \notin overlap \cup edited =>
           new.last4 \in {NoKey, remote[new.eui].key}
  PROVE  SagaInv'
<1> DEFINE d == req[r].device
<1>1. /\ d \in Device /\ row[d].there /\ OnTheWay(req[r]) /\ OfItsRow(r)
      /\ AloneOK(d) /\ OwnOK(d)
  BY DEF SagaInv, OfItsRow
<1>2. /\ row' \in [Device -> Row] /\ row'[d] = new
      /\ \A c \in Device : c # d => row'[c] = row[c]
      /\ \A c \in Device : row'[c].eui = row[c].eui /\ row'[c].place = row[c].place
                           /\ (row'[c].there <=> row[c].there)
  BY <1>1, SagaTypes
<1>3. /\ req' \in [Request -> ReqRecord] /\ req'[r] = [req[r] EXCEPT !.step = to]
      /\ req'[r].step = to /\ req'[r].device = d /\ req'[r].was = req[r].was
      /\ \A s \in Request : s # r => req'[s] = req[s]
  <2>1. req[r] \in ReqRecord BY SagaTypes
  <2>2. [req[r] EXCEPT !.step = to] \in ReqRecord BY <2>1 DEF ReqRecord, SagaSteps
  <2> QED BY <2>1, <2>2, SagaTypes DEF ReqRecord
<1>4. UNCHANGED <<remote, late, overlap, edited, tardy>> BY DEF history
<1>5. TypeOK' BY <1>2, <1>3, <1>4 DEF SagaInv, TypeOK, ReqRecord
<1>6. TableOK' BY <1>1, <1>2 DEF SagaInv, TableOK
<1>7. RemoteOK' BY <1>4 DEF SagaInv, RemoteOK
<1>8. \A s \in Request : OnTheWay(req[s])' BY <1>3, <1>4 DEF SagaInv, OnTheWay
<1>9. \A s \in Request : OfItsRow(s)'
  BY <1>1, <1>2, <1>3, <1>4 DEF SagaInv, OfItsRow, Running, Calling
<1>10. /\ \A c \in Device : c # d => About(c)' = About(c)
       /\ About(d)' = IF to = "done" THEN About(d) \ {r} ELSE About(d)
       /\ \A s \in Request : s # r => (Calling(s)' <=> Calling(s))
       /\ ~ Calling(r)'
       /\ r \in About(d)
  BY <1>1, <1>3 DEF About, Running, Calling
<1>11. ASSUME NEW c \in Device PROVE AloneOK(c)'
  <2>1. AloneOK(c) BY DEF SagaInv
  <2>2. CASE c # d
    BY <1>2, <1>3, <1>4, <1>10, <2>1, <2>2 DEF AloneOK, About
  <2>3. CASE c = d
    BY <1>1, <1>2, <1>3, <1>4, <1>10, <2>3 DEF AloneOK, About
  <2> QED BY <2>2, <2>3
<1>12. ASSUME NEW c \in Device PROVE OwnOK(c)'
  <2> SUFFICES ASSUME c \notin overlap \cup edited PROVE OwnEui(c)' /\ OwnKey(c)'
    BY <1>4 DEF OwnOK
  <2>1. OwnEui(c) /\ OwnKey(c) BY DEF SagaInv, OwnOK
  <2>2. OwnKey(c)' BY <1>3, <1>4, <1>10, <2>1 DEF OwnKey
  <2>3. ASSUME row'[c].status = "PROVISIONED" \/ \E s \in About(c)' : Calling(s)'
        PROVE  row[c].status = "PROVISIONED" \/ \E s \in About(c) : Calling(s)
    <3>1. CASE \E s \in About(c)' : Calling(s)' BY <1>10, <3>1 DEF About
    <3>2. CASE row'[c].status = "PROVISIONED"
      <4>1. CASE c # d BY <1>2, <3>2, <4>1
      <4>2. CASE c = d BY <1>2, <1>10, <3>2, <4>2 DEF Calling
      <4> QED BY <4>1, <4>2
    <3> QED BY <2>3, <3>1, <3>2
  <2>4. OwnEui(c)' BY <1>2, <1>3, <1>10, <2>1, <2>3 DEF OwnEui
  <2> QED BY <2>2, <2>4
<1>13. ProvisionedIsThere'
  <2> SUFFICES ASSUME NEW c \in Device, c \notin edited, row'[c].status = "PROVISIONED"
               PROVE  /\ row[c].eui # NoEui /\ remote[row[c].eui].place = row[c].place
                      /\ remote[row[c].eui].key # NoKey
    BY <1>2, <1>4 DEF ProvisionedIsThere
  <2>1. CASE row[c].status = "PROVISIONED" BY <2>1 DEF SagaInv, ProvisionedIsThere
  <2>2. CASE c = d /\ req[r].step = "made"
    BY <1>1, <2>2 DEF OnTheWay, OfItsRow, Calling
  <2> QED BY <1>2, <2>1, <2>2
<1>14. KeyShown'
  <2> SUFFICES ASSUME NEW c \in Device, c \notin edited \cup overlap,
                      row'[c].status = "PROVISIONED", ~ tardy
               PROVE  row'[c].last4 \in {NoKey, remote[row[c].eui].key}
    BY <1>2, <1>4 DEF KeyShown
  <2>1. CASE c # d BY <1>2, <2>1 DEF SagaInv, KeyShown
  <2>2. CASE c = d BY <1>2, <2>2
  <2> QED BY <2>1, <2>2
<1> QED BY <1>5, <1>6, <1>7, <1>8, <1>9, <1>11, <1>12, <1>13, <1>14 DEF SagaInv

(* One that writes another status than PROVISIONED, or none.               *)
LEMMA RowKept ==
  ASSUME SagaInv, NEW r \in Request, Running(r), NEW new \in Row, NEW to \in {"load", "done"},
         to = "load" => req[r].step = "pend",
         req' = [req EXCEPT ![r].step = to],
         row' = [row EXCEPT ![req[r].device] = new],
         UNCHANGED <<remote, late, history>>,
         new.there = row[req[r].device].there,
         new.eui = row[req[r].device].eui, new.place = row[req[r].device].place,
         new.status \in {row[req[r].device].status, "PENDING", "FAILED"},
         new.last4 = row[req[r].device].last4
  PROVE  SagaInv'
<1> DEFINE d == req[r].device
<1>1. d \in Device /\ row[d].there /\ r \in About(d) /\ AloneOK(d)
  BY SagaTypes DEF SagaInv, OfItsRow, About
<1>2. d \notin overlap => row[d].status # "PROVISIONED" /\ row[d].last4 = NoKey
  BY <1>1 DEF AloneOK
<1>3. new.status = "PROVISIONED" => row[d].status = "PROVISIONED" OBVIOUS
<1> QED BY <1>1, <1>2, <1>3, RowStep

LEMMA OutcomeInv ==
  ASSUME SagaInv, NEW r \in Request,
         MarkPending(r) \/ MarkFailed(r) \/ MarkProvisioned(r) \/ Abort(r)
  PROVE  SagaInv'
<1> DEFINE d == req[r].device
           q == req[r]
           was == q.was
<1>1. /\ req \in [Request -> ReqRecord] /\ row \in [Device -> Row]
      /\ q \in ReqRecord /\ was \in Row /\ q.key \in Key \cup {NoKey}
  BY SagaTypes DEF ReqRecord
<1>2. Running(r)
  BY DEF Running, MarkPending, MarkFailed, MarkProvisioned, Abort
<1>3. /\ d \in Device /\ row[d].there /\ row[d] \in Row /\ r \in About(d)
      /\ OnTheWay(q) /\ AloneOK(d) /\ OwnOK(d) /\ OfItsRow(r)
  BY <1>1, <1>2 DEF SagaInv, OfItsRow, About
<1>4. d \notin overlap => row[d].status # "PROVISIONED" /\ row[d].last4 = NoKey
  BY <1>3 DEF AloneOK
<1>5. CASE Abort(r)
  <2>1. row' = [row EXCEPT ![d] = row[d]] BY <1>1, <1>3, <1>5 DEF Abort
  <2>2. req' = [req EXCEPT ![r].step = "done"] /\ UNCHANGED <<remote, late, history>>
    BY <1>5 DEF Abort, Go
  <2> QED BY <1>2, <1>3, <1>4, <2>1, <2>2, RowStep
<1>6. CASE MarkPending(r)
  <2> DEFINE now == [was EXCEPT !.status = "PENDING", !.error = FALSE]
             new == Merge(d, was, now)
  <2>1. /\ now \in Row /\ now.there = was.there /\ now.eui = was.eui /\ now.place = was.place
        /\ now.status = "PENDING" /\ now.last4 = was.last4
    BY <1>1 DEF Row
  <2>2. /\ q.step = "pend" /\ row' = [row EXCEPT ![d] = new]
        /\ req' = [req EXCEPT ![r].step = "load"] /\ UNCHANGED <<remote, late, history>>
    BY <1>6 DEF MarkPending, Go
  <2> HIDE DEF now
  <2>3. /\ new \in Row /\ new.there = row[d].there /\ new.eui = row[d].eui
        /\ new.place = row[d].place /\ new.last4 = row[d].last4
        /\ new.status = IF was.status = "PENDING" THEN row[d].status ELSE "PENDING"
    <3>1. now \in Row /\ was \in Row /\ d \in Device /\ row \in [Device -> Row]
      BY <1>1, <1>3, <2>1
    <3>2. new \in Row BY <3>1, Merging
    <3> QED BY <2>1, <3>1, <3>2, Merging
  <2> HIDE DEF new
  <2> QED BY <1>2, <1>3, <1>4, <2>2, <2>3, RowKept
<1>7. CASE MarkFailed(r)
  <2> DEFINE now == [was EXCEPT !.status = "FAILED", !.at = FALSE, !.error = TRUE]
             new == Merge(d, was, now)
  <2>1. /\ now \in Row /\ now.there = was.there /\ now.eui = was.eui /\ now.place = was.place
        /\ now.status = "FAILED" /\ now.last4 = was.last4
    BY <1>1 DEF Row
  <2>2. /\ row' = [row EXCEPT ![d] = new]
        /\ req' = [req EXCEPT ![r].step = "done"] /\ UNCHANGED <<remote, late, history>>
    BY <1>7 DEF MarkFailed, Go
  <2> HIDE DEF now
  <2>3. /\ new \in Row /\ new.there = row[d].there /\ new.eui = row[d].eui
        /\ new.place = row[d].place /\ new.last4 = row[d].last4
        /\ new.status = IF was.status = "FAILED" THEN row[d].status ELSE "FAILED"
    <3>1. now \in Row /\ was \in Row /\ d \in Device /\ row \in [Device -> Row]
      BY <1>1, <1>3, <2>1
    <3>2. new \in Row BY <3>1, Merging
    <3> QED BY <2>1, <3>1, <3>2, Merging
  <2> HIDE DEF new
  <2> QED BY <1>2, <1>3, <1>4, <2>2, <2>3, RowKept
<1>8. CASE MarkProvisioned(r)
  <2> DEFINE now == [was EXCEPT !.status = "PROVISIONED", !.error = FALSE,
                                !.last4 = IF q.key = NoKey THEN @ ELSE q.key]
             merged == Merge(d, was, now)
             new == [merged EXCEPT !.at = TRUE]
  <2>1. /\ now \in Row /\ now.there = was.there /\ now.eui = was.eui /\ now.place = was.place
        /\ now.status = "PROVISIONED" /\ now.last4 = IF q.key = NoKey THEN was.last4 ELSE q.key
    BY <1>1 DEF Row
  <2>2. /\ q.step = "made" /\ row' = [row EXCEPT ![d] = new]
        /\ req' = [req EXCEPT ![r].step = "done"] /\ UNCHANGED <<remote, late, history>>
    BY <1>8 DEF MarkProvisioned, Go
  <2> HIDE DEF now
  <2>3. /\ merged \in Row /\ merged.there = row[d].there /\ merged.eui = row[d].eui
        /\ merged.place = row[d].place
        /\ merged.status = IF was.status = "PROVISIONED" THEN row[d].status ELSE "PROVISIONED"
        /\ merged.last4 = IF now.last4 = was.last4 THEN row[d].last4 ELSE now.last4
    <3>1. now \in Row /\ was \in Row /\ d \in Device /\ row \in [Device -> Row]
      BY <1>1, <1>3, <2>1
    <3>2. merged \in Row BY <3>1, Merging
    <3> QED BY <2>1, <3>1, <3>2, Merging
  <2> HIDE DEF merged
  <2>4. /\ new \in Row /\ new.there = row[d].there /\ new.eui = row[d].eui
        /\ new.place = row[d].place /\ new.status = merged.status /\ new.last4 = merged.last4
    BY <2>3 DEF Row
  <2> HIDE DEF new
  <2>5. d \notin overlap =>
          /\ new.status = "PROVISIONED"
          /\ new.last4 = IF q.key = NoKey THEN NoKey ELSE q.key
    <3>1. Calling(r) BY <2>2 DEF Calling
    <3>2. d \notin overlap => was.last4 = NoKey /\ was.status # "PROVISIONED"
      BY <1>3, <3>1 DEF AloneOK
    <3> QED BY <1>4, <2>1, <2>3, <2>4, <3>2
  <2>6. d \notin overlap \cup edited /\ ~ tardy => new.last4 \in {NoKey, remote[new.eui].key}
    <3>1. Calling(r) BY <2>2 DEF Calling
    <3>2. d \notin overlap \cup edited /\ ~ tardy /\ q.key # NoKey => remote[was.eui].key = q.key
      BY <1>3, <2>2 DEF OwnOK, OwnKey
    <3>3. d \notin edited => row[d].eui = was.eui BY <1>3, <3>1 DEF OfItsRow
    <3> QED BY <2>4, <2>5, <3>2, <3>3
  <2> QED BY <1>2, <1>3, <2>2, <2>4, <2>5, <2>6, RowStep
<1> QED BY <1>5, <1>6, <1>7, <1>8

(* Requests that are not noted as meeting are about different rows.        *)
LEMMA MeetingNoted ==
  ASSUME SagaInv, NEW r \in Request, NEW d \in Device, NEW e, Meets(r, d, e)
  PROVE  /\ overlap \subseteq overlap' /\ overlap' \subseteq Device
         /\ d \notin overlap' =>
              \A s \in Request : s # r /\ Running(s) =>
                req[s].device # d /\ (e = NoEui \/ req[s].was.eui # e)
<1>1. overlap \subseteq Device /\ req \in [Request -> ReqRecord] BY SagaTypes
<1>2. \A s \in Others(r, d, e) : s \in Request /\ req[s].device \in Device
  BY DEF Others, SagaInv, OfItsRow
<1>3. d \notin overlap' => Others(r, d, e) = {} BY DEF Meets
<1> QED BY <1>1, <1>2, <1>3 DEF Meets, Others

(* A request begins, and is about a row that is as it was or new.          *)
LEMMA BeginInv ==
  ASSUME SagaInv, NEW r \in Request, req[r].step = "idle", NEW d \in Device,
         row' \in [Device -> Row], \A c \in Device : c # d => row'[c] = row[c],
         req' \in [Request -> ReqRecord], \A s \in Request : s # r => req'[s] = req[s],
         req'[r].step \in {"pend", "load"}, req'[r].device = d,
         UNCHANGED <<remote, late, edited, tardy>>,
         overlap \subseteq overlap', overlap' \subseteq Device,
         d \notin overlap' => \A s \in Request : s # r /\ Running(s) => req[s].device # d,
         row'[d].there, row'[d].status # "PROVISIONED",
         d \notin overlap => row'[d].last4 = NoKey,
         row'[d].eui # NoEui, \A c \in Device : c # d => row[c].eui # row'[d].eui,
         row[d].there => row'[d].eui = row[d].eui /\ row'[d].place = row[d].place
  PROVE  SagaInv'
<1>1. /\ Running(r)' /\ ~ Calling(r)' /\ ~ Running(r) /\ ~ Calling(r)
      /\ \A s \in Request : s # r => (Running(s)' <=> Running(s)) /\ (Calling(s)' <=> Calling(s))
  BY DEF Running, Calling
<1>2. /\ \A c \in Device : c # d => About(c)' = About(c)
      /\ About(d)' = About(d) \cup {r}
      /\ d \notin overlap' => About(d)' = {r}
  <2>1. /\ \A c \in Device : c # d => About(c)' = About(c)
        /\ About(d)' = About(d) \cup {r}
    BY <1>1 DEF About
  <2>2. d \notin overlap' => About(d) \subseteq {r} BY DEF About
  <2> QED BY <2>1, <2>2
<1>3. TypeOK' BY <1>1, <1>2 DEF SagaInv, TypeOK, ReqRecord
<1>4. TableOK'
  <2>1. \A c \in Device : ~ row'[c].there => row'[c] = NoRow
    BY DEF SagaInv, TableOK
  <2>2. ASSUME NEW b \in Device, NEW c \in Device, row'[b].eui = row'[c].eui, row'[c].eui # NoEui
        PROVE  b = c
    BY <2>2 DEF SagaInv, TableOK
  <2> QED BY <2>1, <2>2 DEF TableOK
<1>5. RemoteOK' BY DEF SagaInv, RemoteOK
<1>6. \A s \in Request : OnTheWay(req[s])'
  BY <1>1 DEF SagaInv, OnTheWay
<1>7. \A s \in Request : OfItsRow(s)'
  <2>1. ASSUME NEW s \in Request, s # r PROVE OfItsRow(s)'
    <3>1. OfItsRow(s) /\ (Calling(s) => Running(s)) BY DEF SagaInv, Calling, Running
    <3>2. CASE ~ Running(s) BY <1>1, <2>1, <3>1, <3>2 DEF OfItsRow
    <3>3. CASE Running(s)
      <4>1. req[s].device \in Device /\ row[req[s].device].there BY <3>1, <3>3 DEF OfItsRow
      <4>2. /\ row'[req[s].device].there
            /\ row'[req[s].device].eui = row[req[s].device].eui
            /\ row'[req[s].device].place = row[req[s].device].place
        BY <4>1
      <4> QED BY <1>1, <2>1, <3>1, <3>3, <4>1, <4>2 DEF OfItsRow
    <3> QED BY <3>2, <3>3
  <2>2. OfItsRow(r)' BY <1>1 DEF OfItsRow
  <2> QED BY <2>1, <2>2
<1>8. ASSUME NEW c \in Device PROVE AloneOK(c)'
  <2>1. AloneOK(c) BY DEF SagaInv
  <2>2. CASE c # d BY <1>1, <1>2, <2>1, <2>2 DEF AloneOK, About
  <2>3. CASE c = d BY <1>1, <1>2, <2>3 DEF AloneOK
  <2> QED BY <2>2, <2>3
<1>9. ASSUME NEW c \in Device PROVE OwnOK(c)'
  <2> SUFFICES ASSUME c \notin overlap' \cup edited PROVE OwnEui(c)' /\ OwnKey(c)'
    BY DEF OwnOK
  <2>1. OwnEui(c) /\ OwnKey(c) BY <1>2 DEF SagaInv, OwnOK
  <2>2. CASE c # d
    <3>1. OwnEui(c)' BY <1>1, <1>2, <2>1, <2>2 DEF OwnEui, About
    <3>2. OwnKey(c)' BY <1>1, <1>2, <2>1, <2>2 DEF OwnKey, About
    <3> QED BY <3>1, <3>2
  <2>3. CASE c = d BY <1>1, <1>2, <2>3 DEF OwnEui, OwnKey
  <2> QED BY <2>2, <2>3
<1>10. ProvisionedIsThere' BY DEF SagaInv, ProvisionedIsThere
<1>11. KeyShown' BY <1>2 DEF SagaInv, KeyShown
<1> QED BY <1>3, <1>4, <1>5, <1>6, <1>7, <1>8, <1>9, <1>10, <1>11 DEF SagaInv

LEMMA ProvisionInv ==
  ASSUME SagaInv, NEW r \in Request, ProvisionDevice(r)
  PROVE  SagaInv'
<1>1. PICK d \in Device, e \in Eui, p \in Place, k \in Key :
    /\ req[r].step = "idle" /\ ~ row[d].there /\ Free(e, d)
    /\ row' = [row EXCEPT ![d] = [Identified(e, p) EXCEPT !.status = "PENDING"]]
    /\ req' = [req EXCEPT ![r] = [Idle EXCEPT !.step = "load", !.device = d, !.key = k]]
    /\ Meets(r, d, e)
    /\ UNCHANGED <<remote, late, edited, tardy>>
  BY DEF ProvisionDevice
<1> DEFINE new == [Identified(e, p) EXCEPT !.status = "PENDING"]
           q == [Idle EXCEPT !.step = "load", !.device = d, !.key = k]
<1>2. /\ new \in Row /\ new.there /\ new.eui = e /\ new.status = "PENDING" /\ new.last4 = NoKey
  BY DEF Identified, NoRow, Row
<1>3. NoRow \in Row BY DEF NoRow, Row
<1>4. q \in ReqRecord /\ q.step = "load" /\ q.device = d
  BY <1>3 DEF Idle, ReqRecord, SagaSteps
<1>5. e # NoEui BY ConstantsOK
<1>6. ASSUME NEW c \in Device, c # d PROVE row[c].eui # e
  <2>1. CASE ~ row[c].there BY <1>5, <2>1 DEF SagaInv, TableOK, NoRow
  <2>2. CASE row[c].there BY <1>1, <1>5, <1>6, <2>2 DEF Free
  <2> QED BY <2>1, <2>2
<1> HIDE DEF new, q
<1>7. /\ row' \in [Device -> Row] /\ row'[d] = new
      /\ \A c \in Device : c # d => row'[c] = row[c]
      /\ req' \in [Request -> ReqRecord] /\ req'[r] = q
      /\ \A s \in Request : s # r => req'[s] = req[s]
  <2>1. row' = [row EXCEPT ![d] = new] /\ req' = [req EXCEPT ![r] = q] BY <1>1 DEF new, q
  <2> QED BY <1>2, <1>4, <2>1, SagaTypes
<1>8. /\ overlap \subseteq overlap' /\ overlap' \subseteq Device
      /\ d \notin overlap' => \A s \in Request : s # r /\ Running(s) => req[s].device # d
  BY <1>1, MeetingNoted
<1>9. /\ row'[d].there /\ row'[d].status # "PROVISIONED" /\ row'[d].last4 = NoKey
      /\ row'[d].eui # NoEui /\ \A c \in Device : c # d => row[c].eui # row'[d].eui
      /\ req'[r].step = "load" /\ req'[r].device = d
  BY <1>2, <1>4, <1>5, <1>6, <1>7
<1>10. UNCHANGED <<remote, late, edited, tardy>> /\ req[r].step = "idle" /\ ~ row[d].there
  BY <1>1
<1> QED BY <1>7, <1>8, <1>9, <1>10, BeginInv

LEMMA RetryInv ==
  ASSUME SagaInv, NEW r \in Request, RetryProvisioning(r)
  PROVE  SagaInv'
<1>1. PICK d \in Device, k \in Key \cup {NoKey} :
    /\ req[r].step = "idle" /\ row[d].there
    /\ row[d].status # "PROVISIONED" /\ row[d].eui # NoEui
    /\ req' = [req EXCEPT ![r] = [Idle EXCEPT !.step = "pend", !.device = d, !.key = k,
                                              !.was = row[d]]]
    /\ Meets(r, d, row[d].eui)
    /\ UNCHANGED <<row, remote, late, edited, tardy>>
  BY DEF RetryProvisioning
<1> DEFINE q == [Idle EXCEPT !.step = "pend", !.device = d, !.key = k, !.was = row[d]]
<1>2. row' \in [Device -> Row] /\ row[d] \in Row BY <1>1, SagaTypes
<1>3. NoRow \in Row BY DEF NoRow, Row
<1>4. q \in ReqRecord /\ q.step = "pend" /\ q.device = d
  BY <1>2, <1>3 DEF Idle, ReqRecord, SagaSteps
<1>5. d \notin overlap => row[d].last4 = NoKey BY <1>1 DEF SagaInv, AloneOK
<1>6. \A c \in Device : c # d => row[c].eui # row[d].eui BY <1>1 DEF SagaInv, TableOK
<1>7. /\ req' \in [Request -> ReqRecord] /\ req'[r] = q
      /\ \A s \in Request : s # r => req'[s] = req[s]
  <2>1. req' = [req EXCEPT ![r] = q] BY <1>1
  <2> HIDE DEF q
  <2> QED BY <1>4, <2>1, SagaTypes
<1>8. /\ overlap \subseteq overlap' /\ overlap' \subseteq Device
      /\ d \notin overlap' => \A s \in Request : s # r /\ Running(s) => req[s].device # d
  BY <1>1, MeetingNoted
<1> HIDE DEF q
<1> QED BY <1>1, <1>2, <1>4, <1>5, <1>6, <1>7, <1>8, BeginInv

(* The object is loaded again: from here on the request is about its       *)
(* DevEUI, which no other request is, or the two are noted.                *)
LEMMA LoadInv ==
  ASSUME SagaInv, NEW r \in Request, Load(r)
  PROVE  SagaInv'
<1> DEFINE d == req[r].device
<1>1. /\ req[r].step = "load" /\ UNCHANGED <<row, remote, late, tardy>>
      /\ req' = [req EXCEPT ![r].step = "create", ![r].was = row[d]]
      /\ edited' = IF Settled(d) \/ About(d) # {r} THEN edited ELSE edited \ {d}
      /\ Meets(r, d, row[d].eui)
  BY DEF Load
<1>0. UNCHANGED <<row, remote, late, tardy>> BY <1>1
<1>2. /\ Running(r) /\ ~ Calling(r) /\ OfItsRow(r) /\ d \in Device /\ row[d].there
      /\ row[d] \in Row /\ req[r] \in ReqRecord
  BY <1>1, SagaTypes DEF Running, Calling, SagaInv, OfItsRow
<1>3. /\ req' \in [Request -> ReqRecord]
      /\ req'[r].step = "create" /\ req'[r].device = d /\ req'[r].was = row[d]
      /\ \A s \in Request : s # r => req'[s] = req[s]
  <2>1. /\ req'[r] = [req[r] EXCEPT !.step = "create", !.was = row[d]]
        /\ \A s \in Request : s # r => req'[s] = req[s]
        /\ DOMAIN req' = Request /\ req' = [s \in Request |-> req'[s]]
    BY <1>1, SagaTypes
  <2>2. [req[r] EXCEPT !.step = "create", !.was = row[d]] \in ReqRecord
    BY <1>2 DEF ReqRecord, SagaSteps
  <2>3. req' \in [Request -> ReqRecord] BY <2>1, <2>2, SagaTypes
  <2>4. req'[r].step = "create" /\ req'[r].device = d /\ req'[r].was = row[d]
    BY <1>2, <2>1 DEF ReqRecord
  <2> QED BY <2>1, <2>3, <2>4
<1>4. /\ Running(r)' /\ Calling(r)'
      /\ \A s \in Request : s # r => (Running(s)' <=> Running(s)) /\ (Calling(s)' <=> Calling(s))
      /\ \A s \in Request : req'[s].device = req[s].device /\ (Running(s)' <=> Running(s))
      /\ \A s \in Request : Calling(s) => Running(s)
  BY <1>2, <1>3 DEF Running, Calling
<1>5. \A c : About(c)' = About(c) BY <1>4 DEF About
<1>6. /\ overlap \subseteq overlap' /\ overlap' \subseteq Device
      /\ d \notin overlap' =>
           \A s \in Request : s # r /\ Running(s) =>
             req[s].device # d /\ (row[d].eui = NoEui \/ req[s].was.eui # row[d].eui)
  BY <1>1, <1>2, MeetingNoted
<1>7. /\ edited' \subseteq edited /\ edited \subseteq edited' \cup {d}
      /\ d \in edited \ edited' => row[d].status # "PROVISIONED" /\ About(d) = {r}
  BY <1>1 DEF Settled
<1>8. TypeOK' BY <1>1, <1>3, <1>6, <1>7 DEF SagaInv, TypeOK, ReqRecord
<1>9. TableOK' /\ RemoteOK' BY <1>1 DEF SagaInv, TableOK, RemoteOK
<1>10. \A s \in Request : OnTheWay(req[s])' BY <1>1, <1>3 DEF SagaInv, OnTheWay
<1>11. ASSUME NEW s \in Request PROVE OfItsRow(s)'
  <2>1. CASE s = r BY <1>1, <1>2, <1>3, <2>1 DEF OfItsRow
  <2>2. CASE s # r
    <3>1. OfItsRow(s) BY DEF SagaInv
    <3>2. ASSUME Calling(s), req[s].device \notin edited' PROVE req[s].device \notin edited
      <4>1. s \in About(req[s].device) BY <1>4, <3>2 DEF About
      <4> QED BY <1>7, <2>2, <3>2, <4>1
    <3> QED BY <1>1, <1>3, <1>4, <2>2, <3>1, <3>2 DEF OfItsRow
  <2> QED BY <2>1, <2>2
<1>12. ASSUME NEW c \in Device PROVE AloneOK(c)'
  <2>1. AloneOK(c) BY DEF SagaInv
  <2>2. CASE c # d
    BY <1>1, <1>3, <1>4, <1>5, <1>6, <2>1, <2>2 DEF AloneOK, About
  <2>3. CASE c = d /\ d \notin overlap'
    <3>1. About(d) = {r} BY <1>2, <1>6, <2>3 DEF About
    <3>2. d \notin overlap BY <1>6, <2>3
    <3>3. row[d].status # "PROVISIONED" /\ row[d].last4 = NoKey
      BY <2>1, <2>3, <3>1, <3>2 DEF AloneOK
    <3> QED BY <1>1, <1>3, <1>5, <2>3, <3>1, <3>3 DEF AloneOK
  <2>4. CASE d \in overlap' /\ c = d BY <2>4 DEF AloneOK
  <2> QED BY <2>2, <2>3, <2>4
<1>13. ASSUME NEW c \in Device PROVE OwnOK(c)'
  <2> SUFFICES ASSUME c \notin overlap' \cup edited' PROVE OwnEui(c)' /\ OwnKey(c)'
    BY DEF OwnOK
  <2>1. CASE c # d
    <3>1. OwnEui(c) /\ OwnKey(c) BY <1>6, <1>7, <2>1 DEF SagaInv, OwnOK
    <3>2. row[d].eui = row[c].eui /\ row[c].eui # NoEui => FALSE
      BY <1>2, <2>1 DEF SagaInv, TableOK
    <3>3. \A s \in About(c) : s # r BY <2>1 DEF About
    <3>4. OwnEui(c)'
      BY <1>1, <1>3, <1>4, <1>5, <3>1, <3>2, <3>3 DEF OwnEui, About
    <3>5. OwnKey(c)'
      <4>1. \A s \in About(c) : s \in Request /\ req'[s] = req[s] BY <1>3, <3>3 DEF About
      <4> QED BY <1>0, <1>5, <3>1, <4>1 DEF OwnKey
    <3> QED BY <3>4, <3>5
  <2>2. CASE c = d
    <3>1. About(d) = {r} BY <1>2, <1>6, <2>2 DEF About
    <3>2. OwnEui(c)'
      <4>1. ASSUME NEW s \in Request, Calling(s)', req'[s].was.eui = row[c].eui,
                   row[c].eui # NoEui
            PROVE  req'[s].device = c
        BY <1>3, <1>4, <1>6, <2>2, <4>1
      <4> QED BY <1>0, <4>1 DEF OwnEui
    <3>3. OwnKey(c)' BY <1>3, <1>5, <2>2, <3>1 DEF OwnKey
    <3> QED BY <3>2, <3>3
  <2> QED BY <2>1, <2>2
<1>14. ProvisionedIsThere' BY <1>1, <1>7 DEF SagaInv, ProvisionedIsThere
<1>15. KeyShown' BY <1>1, <1>6, <1>7 DEF SagaInv, KeyShown
<1> QED BY <1>8, <1>9, <1>10, <1>11, <1>12, <1>13, <1>14, <1>15 DEF SagaInv

LEMMA EditInv ==
  ASSUME SagaInv, NEW r \in Request, EditDevice(r)
  PROVE  SagaInv'
<1>1. PICK d \in Device, e \in Eui \cup {NoEui}, p \in Place :
    /\ req[r].step = "idle" /\ row[d].there /\ Free(e, d)
    /\ row' = [row EXCEPT ![d].eui = e, ![d].place = p]
    /\ req' = [req EXCEPT ![r].step = "done"]
    /\ edited' = IF row' = row THEN edited ELSE edited \cup {d}
    /\ UNCHANGED <<remote, late, overlap, tardy>>
  BY DEF EditDevice, Go
<1>0. UNCHANGED <<remote, late, overlap, tardy>> BY <1>1
<1>2. /\ row' \in [Device -> Row] /\ \A c \in Device : c # d => row'[c] = row[c]
      /\ row'[d].eui = e /\ row'[d].there /\ row'[d].status = row[d].status
      /\ row'[d].last4 = row[d].last4
  <2>1. row[d] \in Row BY SagaTypes
  <2>2. /\ row'[d] = [row[d] EXCEPT !.eui = e, !.place = p]
        /\ \A c \in Device : c # d => row'[c] = row[c]
        /\ DOMAIN row' = Device /\ row' = [c \in Device |-> row'[c]]
    BY <1>1, SagaTypes
  <2>3. [row[d] EXCEPT !.eui = e, !.place = p] \in Row BY <2>1 DEF Row
  <2> QED BY <1>1, <2>1, <2>2, <2>3, SagaTypes DEF Row
<1>3. /\ req' \in [Request -> ReqRecord] /\ \A s \in Request : s # r => req'[s] = req[s]
      /\ req'[r].step = "done"
  <2>1. req[r] \in ReqRecord BY SagaTypes
  <2>2. [req[r] EXCEPT !.step = "done"] \in ReqRecord BY <2>1 DEF ReqRecord, SagaSteps
  <2> QED BY <1>1, <2>1, <2>2, SagaTypes DEF ReqRecord
<1>4. /\ ~ Running(r) /\ ~ Running(r)' /\ ~ Calling(r) /\ ~ Calling(r)'
      /\ \A s \in Request : (Running(s)' <=> Running(s)) /\ (Calling(s)' <=> Calling(s))
      /\ \A s \in Request : Calling(s) => Running(s)
      /\ \A s \in Request : Running(s) => req'[s] = req[s]
  BY <1>1, <1>3 DEF Running, Calling
<1>5. \A c : About(c)' = About(c) BY <1>4 DEF About
<1>6. /\ edited \subseteq edited' /\ edited' \subseteq Device
      /\ \A c \in Device : c \notin edited' => row'[c] = row[c] /\ c \notin edited
  BY <1>1, <1>2, SagaTypes
<1>7. TypeOK' BY <1>1, <1>2, <1>3, <1>6 DEF SagaInv, TypeOK, ReqRecord
<1>8. RemoteOK' BY <1>1 DEF SagaInv, RemoteOK
<1>9. TableOK'
  <2>1. \A c \in Device : ~ row'[c].there => row'[c] = NoRow BY <1>2 DEF SagaInv, TableOK
  <2>2. ASSUME NEW c \in Device, c # d, row[c].eui = e, e # NoEui PROVE FALSE
    <3>1. row[c].there BY <2>2 DEF SagaInv, TableOK, NoRow
    <3> QED BY <1>1, <2>2, <3>1 DEF Free
  <2>3. ASSUME NEW b \in Device, NEW c \in Device, row'[b].eui = row'[c].eui, row'[c].eui # NoEui
        PROVE  b = c
    <3>1. CASE b # d /\ c # d BY <1>2, <2>3, <3>1 DEF SagaInv, TableOK
    <3> QED BY <1>2, <2>2, <2>3, <3>1
  <2> QED BY <2>1, <2>3 DEF TableOK
<1>10. \A s \in Request : OnTheWay(req[s])' BY <1>1, <1>3 DEF SagaInv, OnTheWay
<1>11. ASSUME NEW s \in Request PROVE OfItsRow(s)'
  <2>1. OfItsRow(s) BY DEF SagaInv
  <2>2. CASE ~ Running(s) BY <1>4, <2>2 DEF OfItsRow
  <2>3. CASE Running(s)
    <3>1. /\ req'[s] = req[s] /\ req[s].device \in Device /\ row[req[s].device].there
      BY <1>4, <2>1, <2>3 DEF OfItsRow
    <3>2. row'[req[s].device].there BY <1>2, <3>1
    <3> QED BY <1>4, <1>6, <2>1, <3>1, <3>2 DEF OfItsRow
  <2> QED BY <2>2, <2>3
<1>12. ASSUME NEW c \in Device PROVE AloneOK(c)'
  <2>1. AloneOK(c) BY DEF SagaInv
  <2>2. row'[c].status = row[c].status /\ row'[c].last4 = row[c].last4 BY <1>2
  <2> QED BY <1>1, <1>4, <1>5, <2>1, <2>2 DEF AloneOK, About
<1>13. ASSUME NEW c \in Device PROVE OwnOK(c)'
  <2> SUFFICES ASSUME c \notin overlap \cup edited' PROVE OwnEui(c)' /\ OwnKey(c)'
    BY <1>1 DEF OwnOK
  <2>1. OwnEui(c) /\ OwnKey(c) /\ row'[c] = row[c] BY <1>6 DEF SagaInv, OwnOK
  <2>2. OwnEui(c)'
    <3>1. \A s \in Request : Calling(s)' => Calling(s) /\ req'[s] = req[s] BY <1>4
    <3>2. \A s \in About(c)' : s \in About(c) /\ s \in Request BY <1>5 DEF About
    <3> QED BY <2>1, <3>1, <3>2 DEF OwnEui
  <2>3. OwnKey(c)'
    <3>1. \A s \in About(c)' : s \in About(c) /\ req'[s] = req[s] BY <1>4, <1>5 DEF About
    <3> QED BY <1>0, <2>1, <3>1 DEF OwnKey
  <2> QED BY <2>2, <2>3
<1>14. ProvisionedIsThere' BY <1>0, <1>6 DEF SagaInv, ProvisionedIsThere
<1>15. KeyShown' BY <1>0, <1>6 DEF SagaInv, KeyShown
<1> QED BY <1>7, <1>8, <1>9, <1>10, <1>11, <1>12, <1>13, <1>14, <1>15 DEF SagaInv

LEMMA LateInv ==
  ASSUME SagaInv, TakesEffectLate
  PROVE  SagaInv'
<1>1. PICK c \in late : /\ remote' = Applied(c) /\ late' = late \ {c}
                        /\ tardy' = (tardy \/ Applied(c) # remote)
                        /\ UNCHANGED <<row, req, overlap, edited>>
  BY DEF TakesEffectLate
<1>2. c \in CallRecord /\ (c.op = "rekey" => c.key # NoKey) BY SagaTypes DEF SagaInv, RemoteOK
<1>3. /\ remote' \in [Eui -> RemoteRow]
      /\ \A e \in Eui :
           /\ remote[e].there => remote'[e].there /\ remote'[e].place = remote[e].place
           /\ remote[e].key # NoKey => remote'[e].key # NoKey
           /\ remote'[e].key # NoKey => remote'[e].there
  BY <1>1, <1>2, CallGrows
<1>4. tardy' \in BOOLEAN /\ (~ tardy' => ~ tardy /\ remote' = remote) BY <1>1, SagaTypes
<1>5. TypeOK' BY <1>1, <1>3, <1>4 DEF SagaInv, TypeOK, RemoteRow
<1>6. TableOK' BY <1>1 DEF SagaInv, TableOK
<1>7. RemoteOK' BY <1>1, <1>3 DEF SagaInv, RemoteOK
<1>8. \A s \in Request : OnTheWay(req[s])' BY <1>1, <1>3, OthersOnTheWay
<1>9. /\ \A s \in Request : (Running(s)' <=> Running(s)) /\ (Calling(s)' <=> Calling(s))
      /\ \A c1 : About(c1)' = About(c1)
  BY <1>1 DEF Running, Calling, About
<1>10. \A s \in Request : OfItsRow(s)' BY <1>1, <1>9 DEF SagaInv, OfItsRow
<1>11. \A d \in Device : AloneOK(d)' BY <1>1, <1>9 DEF SagaInv, AloneOK, About
<1>12. ASSUME NEW d \in Device PROVE OwnOK(d)'
  <2> SUFFICES ASSUME d \notin overlap \cup edited PROVE OwnEui(d)' /\ OwnKey(d)'
    BY <1>1 DEF OwnOK
  <2>1. OwnEui(d) /\ OwnKey(d) BY DEF SagaInv, OwnOK
  <2> QED BY <1>1, <1>4, <1>9, <2>1 DEF OwnEui, OwnKey, About
<1>13. ProvisionedIsThere'
  <2> SUFFICES ASSUME NEW d \in Device, d \notin edited, row[d].status = "PROVISIONED"
               PROVE  /\ row[d].eui # NoEui /\ remote'[row[d].eui].place = row[d].place
                      /\ remote'[row[d].eui].key # NoKey
    BY <1>1 DEF ProvisionedIsThere
  <2>1. /\ row[d].eui # NoEui /\ remote[row[d].eui].place = row[d].place
        /\ remote[row[d].eui].key # NoKey
    BY DEF SagaInv, ProvisionedIsThere
  <2>2. row[d].eui \in Eui BY <2>1, SagaTypes DEF Row
  <2> QED BY <1>3, <2>1, <2>2 DEF SagaInv, RemoteOK
<1>14. KeyShown' BY <1>1, <1>4 DEF SagaInv, KeyShown
<1> QED BY <1>5, <1>6, <1>7, <1>8, <1>10, <1>11, <1>12, <1>13, <1>14 DEF SagaInv

LEMMA SagaNextInv == SagaInv /\ [Next]_vars => SagaInv'
<1> SUFFICES ASSUME SagaInv, [Next]_vars PROVE SagaInv' OBVIOUS
<1>1. CASE TakesEffectLate BY <1>1, LateInv
<1>2. ASSUME NEW r \in Request, RequestStep(r) PROVE SagaInv'
  <2>1. CASE CallStep(r) BY <2>1, CallInv
  <2>2. CASE MarkPending(r) \/ MarkFailed(r) \/ MarkProvisioned(r) \/ Abort(r)
    BY <2>2, OutcomeInv
  <2>3. CASE ProvisionDevice(r) BY <2>3, ProvisionInv
  <2>4. CASE RetryProvisioning(r) BY <2>4, RetryInv
  <2>5. CASE Load(r) BY <2>5, LoadInv
  <2>6. CASE EditDevice(r) BY <2>6, EditInv
  <2> QED BY <1>2, <2>1, <2>2, <2>3, <2>4, <2>5, <2>6 DEF RequestStep, CallStep
<1>3. CASE UNCHANGED vars
  BY <1>3 DEF vars, history, SagaInv, TypeOK, TableOK, RemoteOK, OnTheWay, OfItsRow, AloneOK,
     OwnOK, OwnEui, OwnKey, About, Running, Calling, ProvisionedIsThere, KeyShown
<1> QED BY <1>1, <1>2, <1>3 DEF Next

LEMMA SagaInvariance == Spec => []SagaInv
BY SagaInitInv, SagaNextInv, PTL DEF Spec

(* Every row, request, call and device of ChirpStack has its type.         *)
THEOREM SagaTyping == Spec => []TypeOK
<1>1. SagaInv => TypeOK BY DEF SagaInv
<1> QED BY <1>1, SagaInvariance, PTL

(* A device that is shown as PROVISIONED is in ChirpStack, where its row   *)
(* says and with keys, for any number of requests that overlap, fail, die  *)
(* or have calls take effect late.                                         *)
THEOREM ShownIsThere == Spec => []ProvisionedIsThere
<1>1. SagaInv => ProvisionedIsThere BY DEF SagaInv
<1> QED BY <1>1, SagaInvariance, PTL

(* The digits shown with it are those of the key in force.                 *)
THEOREM ShownIsTheKey == Spec => []KeyShown
<1>1. SagaInv => KeyShown BY DEF SagaInv
<1> QED BY <1>1, SagaInvariance, PTL

(* A request that ends in FAILED had a reason it could not remove itself:  *)
(* at no step does what an earlier attempt left behind stop a later one.   *)
THEOREM LeftoversDoNotBlock == Spec => RetryCompletes
<1> DEFINE Reason == \A r \in Request : MarkFailed(r) =>
                       LET o == req[r].was IN
                       \/ req[r].erred \/ req[r].key = NoKey \/ o.eui = NoEui
                       \/ remote[o.eui].place # o.place
<1>1. SagaInv => Reason BY DEF SagaInv, OnTheWay, MarkFailed
<1>2. SagaInv /\ [Next]_vars => [Reason]_vars BY <1>1
<1> QED BY <1>2, SagaInvariance, PTL DEF Spec, RetryCompletes

-----------------------------------------------------------------------------
(* TemporalSampling.  The answer depends on the query alone, so the        *)
(* invariant is the query's type.  What is proved about the arithmetic is  *)
(* that the product which stands for a division leaves out no size that    *)
(* meets the target.                                                       *)

\* A set of numbers has a smallest one, which is its Min.
LEMMA MinOfNumbers ==
  ASSUME NEW S \in SUBSET Nat, S # {}
  PROVE  Min(S) \in S /\ \A y \in S : Min(S) <= y
<1> DEFINE Below(n) == 0 .. n
           family == {Below(n) : n \in S}
<1>1. \A n \in S : IsFiniteSet(Below(n)) /\ Below(n) \subseteq Nat BY FS_Interval
<1>2. family \subseteq FiniteSubsetsOf(Nat) /\ family # {} BY <1>1 DEF FiniteSubsetsOf
<1>3. PICK F \in family : \A G \in family : <<G, F>> \notin StrictSubsetOrdering(Nat)
  BY <1>2, FS_StrictSubsetOrderingWellFounded, WFMin
<1>4. PICK x \in S : F = Below(x) OBVIOUS
<1>5. ASSUME NEW y \in S, y < x PROVE FALSE
  <2>1. Below(y) \subseteq Below(x) /\ x \in Below(x) /\ x \notin Below(y) BY <1>5
  <2>2. <<Below(y), Below(x)>> \in StrictSubsetOrdering(Nat)
    BY <1>1, <2>1 DEF StrictSubsetOrdering
  <2> QED BY <1>3, <1>4, <2>2
<1>6. \A y \in S : x <= y BY <1>5
<1> QED BY <1>6 DEF Min

\* Rounded up, a quotient times its divisor covers the dividend.
LEMMA CeilCovers ==
  ASSUME NEW a \in Nat, NEW b \in Nat \ {0}
  PROVE  CeilDiv(a, b) \in Nat /\ b * CeilDiv(a, b) >= a
<1> DEFINE n == a + b - 1
           q == n \div b
<1>1. n \in Nat /\ n = b * q + (n % b) /\ n % b \in 0 .. b - 1 /\ q \in Nat OBVIOUS
<1> QED BY <1>1 DEF CeilDiv

\* Whatever meets the target is among the candidates.
LEMMA TargetIsCandidate ==
  ASSUME NEW w \in Nat, NEW d \in Nat, NEW b \in AllowedBuckets,
         EstimatePoints(w, d, b) <= TargetPoints
  PROVE  b \in TargetCandidates(w, d)
<1> DEFINE c == CeilDiv(w, b)
<1>1. b \in Nat \ {0} /\ TargetPoints \in Nat BY InputsOK DEF ValidInputs
<1>2. c \in Nat /\ b * c >= w BY <1>1, CeilCovers
<1>3. c * d <= TargetPoints BY DEF EstimatePoints
<1> HIDE DEF c
<1>4. \A x, y, z \in Nat : x <= y => x * z <= y * z OBVIOUS
<1>5. w * d <= (b * c) * d BY <1>1, <1>2, <1>4
<1>6. (c * d) * b <= TargetPoints * b BY <1>1, <1>2, <1>3, <1>4
<1>7. (b * c) * d = (c * d) * b /\ TargetPoints * b = b * TargetPoints BY <1>1, <1>2
<1>8. b * TargetPoints >= w * d BY <1>1, <1>2, <1>5, <1>6, <1>7
<1> QED BY <1>8 DEF TargetCandidates

LEMMA QueryTyping == QuerySpec => []QueryTypeOK
<1>1. QueryInit => QueryTypeOK
  <2>1. Windows \in SUBSET Nat /\ Devices \in SUBSET Nat /\ Windows # {} /\ Devices # {}
    BY InputsOK DEF ValidInputs
  <2> QED BY <2>1, MinOfNumbers DEF QueryInit, QueryTypeOK
<1>2. QueryTypeOK /\ [QueryNext]_queryVars => QueryTypeOK'
  BY DEF QueryTypeOK, QueryNext, WidenWindow, AddDevices, queryVars
<1> QED BY <1>1, <1>2, PTL DEF QuerySpec

(* For every window, number of devices and list of sizes, the answer is the*)
(* smallest size whose points meet the target, or else the limit; and it is*)
(* an error only if no size is within the limit.                           *)
THEOREM SmallestChosen == QuerySpec => []SmallestThatFits
<1>1. QueryTypeOK => SmallestThatFits
  <2> SUFFICES ASSUME QueryTypeOK PROVE SmallestThatFits OBVIOUS
  <2> DEFINE Fits(limit) == {b \in AllowedBuckets : CeilDiv(window, b) * devices <= limit}
             met == {b \in TargetCandidates(window, devices) :
                       EstimatePoints(window, devices, b) <= TargetPoints}
             ok == {b \in AllowedBuckets : EstimatePoints(window, devices, b) <= MaxPoints}
  <2>1. /\ window \in Nat /\ devices \in Nat /\ TargetPoints \in Nat /\ MaxPoints \in Nat
        /\ AllowedBuckets \in SUBSET Nat /\ AllowedBuckets # {} /\ 0 \notin AllowedBuckets
    BY InputsOK DEF ValidInputs, QueryTypeOK
  <2>2. met = Fits(TargetPoints)
    <3>1. met \subseteq Fits(TargetPoints) BY DEF TargetCandidates, EstimatePoints
    <3>2. \A b \in Fits(TargetPoints) : EstimatePoints(window, devices, b) <= TargetPoints
      BY DEF EstimatePoints
    <3>3. \A b \in Fits(TargetPoints) : b \in TargetCandidates(window, devices)
      BY <2>1, <3>2, TargetIsCandidate
    <3> QED BY <3>1, <3>2, <3>3
  <2>3. ok = Fits(MaxPoints) BY DEF EstimatePoints
  <2>4. \A b \in AllowedBuckets : CeilDiv(window, b) \in Nat BY <2>1, CeilCovers
  <2>5. \A S \in SUBSET AllowedBuckets :
          S # {} => Min(S) \in S /\ \A b \in S : Min(S) <= b
    BY <2>1, MinOfNumbers
  <2>6. \A b, met1 : /\ Resolution(b, window, devices, met1).bucket = b
                     /\ Resolution(b, window, devices, met1).target_met = met1
                     /\ Resolution(b, window, devices, met1).points = CeilDiv(window, b) * devices
    BY DEF Resolution, EstimatePoints
  <2>7. Answer = IF devices = 0 THEN Resolution(Min(AllowedBuckets), window, devices, TRUE)
                 ELSE IF met # {} THEN Resolution(Min(met), window, devices, TRUE)
                 ELSE IF ok # {} THEN Resolution(Min(ok), window, devices, FALSE)
                 ELSE NoResolution
    BY DEF Answer, CalculateBucketResolution
  <2> DEFINE target == Fits(TargetPoints)
             limit == Fits(MaxPoints)
             best == IF target # {} THEN target ELSE limit
  <2>8. /\ target \in SUBSET AllowedBuckets /\ limit \in SUBSET AllowedBuckets
        /\ met = target /\ ok = limit
        /\ devices = 0 => target = AllowedBuckets
    <3>1. ASSUME devices = 0, NEW b \in AllowedBuckets
          PROVE  CeilDiv(window, b) * devices <= TargetPoints
      <4>1. CeilDiv(window, b) * 0 = 0 BY <2>4
      <4> QED BY <2>1, <3>1, <4>1
    <3>2. devices = 0 => target = AllowedBuckets BY <3>1
    <3> QED BY <2>2, <2>3, <3>2
  <2> HIDE DEF met, ok, target, limit
  <2>9. IF best = {} THEN Answer = NoResolution
        ELSE \E b \in best : /\ Answer = Resolution(b, window, devices, target # {})
                            /\ \A c \in best : b <= c
    <3>1. CASE devices = 0 BY <2>1, <2>5, <2>7, <2>8, <3>1
    <3>2. CASE devices # 0 /\ met # {} BY <2>5, <2>7, <2>8, <3>2
    <3>3. CASE devices # 0 /\ met = {} /\ ok # {} BY <2>5, <2>7, <2>8, <3>3
    <3>4. CASE devices # 0 /\ met = {} /\ ok = {} BY <2>7, <2>8, <3>4
    <3> QED BY <3>1, <3>2, <3>3, <3>4
  <2>10. IF best = {} THEN Answer = NoResolution
         ELSE /\ Answer.bucket \in best /\ \A b \in best : Answer.bucket <= b
              /\ Answer.target_met <=> target # {}
              /\ Answer.points = CeilDiv(window, Answer.bucket) * devices
    <3>1. CASE best = {} BY <2>9, <3>1
    <3>2. CASE best # {}
      <4>1. PICK b \in best : /\ Answer = Resolution(b, window, devices, target # {})
                              /\ \A c \in best : b <= c
        BY <2>9, <3>2
      <4>2. /\ Answer.bucket = b /\ Answer.target_met = (target # {})
            /\ Answer.points = CeilDiv(window, b) * devices
        BY <2>6, <4>1
      <4> HIDE DEF best
      <4> QED BY <3>2, <4>1, <4>2
    <3> QED BY <3>1, <3>2
  <2> QED BY <2>10 DEF SmallestThatFits, target, limit
<1> QED BY <1>1, QueryTyping, PTL

-----------------------------------------------------------------------------
(* TemporalAnalytics.  A new observation adds one delta at the end, and so *)
(* leaves every slice that ends before it as it was; read backwards, the   *)
(* slices before an interval are those after its mirror image.             *)
ObservedOK == observed \in Seq(Int) /\ Len(observed) >= 1

LEMMA ObservedInvariance == ObservationSpec => []ObservedOK
<1>1. ObservationInit => ObservedOK
  BY ObservationConstants DEF ObservationInit, ObservedOK
<1>2. ObservedOK /\ [ObservationNext]_observationVars => ObservedOK'
  <2> SUFFICES ASSUME ObservedOK, [ObservationNext]_observationVars PROVE ObservedOK' OBVIOUS
  <2>1. CASE Observe
    <3>1. PICK d \in Steps : observed' = Append(observed, observed[Len(observed)] + d)
      BY <2>1 DEF Observe
    <3>2. d \in Int /\ observed[Len(observed)] \in Int
      BY ObservationConstants DEF ObservedOK, ValidConfiguration
    <3> QED BY <3>1, <3>2 DEF ObservedOK
  <2>2. CASE UNCHANGED observationVars BY <2>2 DEF ObservedOK, observationVars
  <2> QED BY <2>1, <2>2 DEF ObservationNext
<1> QED BY <1>1, <1>2, PTL DEF ObservationSpec

\* The deltas that were there stay, and a slice up to one of them.
LEMMA DeltasGrow ==
  ASSUME ObservedOK, Observe
  PROVE  LET d == Deltas(observed)  e == Deltas(observed') IN
         /\ \A i \in 1 .. Len(observed) - 1 : e[i] = d[i]
         /\ \A from \in Int, to \in Int :
              to <= Len(observed) - 1 => Slice(e, from, to) = Slice(d, from, to)
<1> DEFINE d == Deltas(observed)
           e == Deltas(observed')
           n == Len(observed) - 1
<1>1. PICK x \in Steps : observed' = Append(observed, observed[Len(observed)] + x)
  BY DEF Observe
<1>2. x \in Int /\ observed[Len(observed)] \in Int /\ n \in Nat
  BY ObservationConstants DEF ObservedOK, ValidConfiguration
<1>3. /\ Len(observed') = n + 2 /\ \A i \in 1 .. n + 1 : observed'[i] = observed[i]
  BY <1>1, <1>2 DEF ObservedOK
<1>4. /\ d = [i \in 1 .. n |-> observed[i + 1] - observed[i]]
      /\ e = [i \in 1 .. n + 1 |-> observed'[i + 1] - observed'[i]]
  BY <1>2, <1>3 DEF Deltas
<1>5. \A i \in 1 .. n : i \in 1 .. n + 1 /\ i + 1 \in 1 .. n + 1 BY <1>2
<1>6. \A i \in 1 .. n : e[i] = d[i] BY <1>3, <1>4, <1>5
<1>7. DOMAIN d = 1 .. n /\ DOMAIN e = 1 .. n + 1 BY <1>4
<1> HIDE DEF d, e
<1>8. ASSUME NEW from \in Int, NEW to \in Int, to <= n
      PROVE  Slice(e, from, to) = Slice(d, from, to)
  <2>1. DOMAIN d \cap (from .. to) = DOMAIN e \cap (from .. to) BY <1>2, <1>7, <1>8
  <2> QED BY <1>6, <1>7, <2>1 DEF Slice
<1> QED BY <1>6, <1>8 DEF d, e

(* For every configuration of windows, bounds and factors, a verdict that  *)
(* has its window of evidence is final, and "continuous" on the evidence   *)
(* before the interval is final at once.                                   *)
THEOREM VerdictsAreFinal == ObservationSpec => OldVerdictsStay
<1> DEFINE Stays == \A i \in 1 .. Len(observed) - 1 :
              LET a == Assess(observed, i)  b == Assess(observed', i) IN
              /\ i + CadenceWindow <= Len(observed) - 1 => b = a
              /\ a.status = "continuous" /\ a.source \in {"left", "both"} => b.status = "continuous"
<1>1. ObservedOK /\ [ObservationNext]_observationVars => [Stays]_observationVars
  <2> SUFFICES ASSUME ObservedOK, Observe, NEW i \in 1 .. Len(observed) - 1
               PROVE  LET a == Assess(observed, i)  b == Assess(observed', i) IN
                      /\ i + CadenceWindow <= Len(observed) - 1 => b = a
                      /\ a.status = "continuous" /\ a.source \in {"left", "both"} =>
                           b.status = "continuous"
    BY DEF ObservationNext
  <2> DEFINE d == Deltas(observed)
             e == Deltas(observed')
  <2>1. i \in Int /\ CadenceWindow \in Nat /\ Len(observed) \in Nat
    BY ObservationConstants DEF ValidConfiguration, ObservedOK
  <2>2. e[i] = d[i] BY DeltasGrow
  <2>3. Left(e, i) = Left(d, i)
    <3>1. i - CadenceWindow \in Int /\ i - 1 \in Int /\ i - 1 <= Len(observed) - 1 BY <2>1
    <3> QED BY <3>1, DeltasGrow DEF Left
  <2>4. i + CadenceWindow <= Len(observed) - 1 => Right(e, i) = Right(d, i)
    <3>1. i + 1 \in Int /\ i + CadenceWindow \in Int BY <2>1
    <3> QED BY <3>1, DeltasGrow DEF Right
  <2> HIDE DEF d, e
  <2> DEFINE Verdict(left, right, x) ==
        LET l == Supports(left, x)  r == Supports(right, x) IN
        IF x <= 0 THEN [status |-> "indeterminate", source |-> "none"]
        ELSE [status |-> CASE l \/ r -> "continuous"
                           [] ~ (l \/ r) /\ Known(left) /\ Known(right) -> "gap"
                           [] OTHER -> "indeterminate",
              source |-> IF l \/ r THEN Source(l, r) ELSE Source(Known(left), Known(right))]
  <2>5. /\ Assess(observed, i) = Verdict(Left(d, i), Right(d, i), d[i])
        /\ Assess(observed', i) = Verdict(Left(e, i), Right(e, i), e[i])
    BY DEF Assess, d, e
  <2>6. ASSUME NEW left, NEW right, NEW other, NEW x,
               Verdict(left, right, x).status = "continuous",
               Verdict(left, right, x).source \in {"left", "both"}
        PROVE  Verdict(left, other, x).status = "continuous"
    <3>1. ~ (x <= 0) BY <2>6
    <3>2. Supports(left, x) \/ Supports(right, x) BY <2>6, <3>1
    <3>3. Source(Supports(left, x), Supports(right, x)) \in {"left", "both"} BY <2>6, <3>1, <3>2
    <3>4. Supports(left, x) BY <3>3 DEF Source
    <3> QED BY <3>1, <3>4
  <2> HIDE DEF Verdict
  <2> QED BY <2>2, <2>3, <2>4, <2>5, <2>6
<1> QED BY <1>1, ObservedInvariance, PTL DEF ObservationSpec, OldVerdictsStay

\* Two series with the same values, one at i where the other has it at c - i.
Mirrored(f, g, c) ==
  /\ DOMAIN g = {c - i : i \in DOMAIN f}
  /\ \A i \in DOMAIN f : g[c - i] = f[i]

LEMMA MirroredCount ==
  ASSUME NEW S \in SUBSET Int, IsFiniteSet(S), NEW c \in Int
  PROVE  Cardinality({c - i : i \in S}) = Cardinality(S)
<1> DEFINE T == {c - i : i \in S}
           flip == [i \in S |-> c - i]
<1>1. flip \in [S -> T] OBVIOUS
<1>2. \A i, j \in S : flip[i] = flip[j] => i = j OBVIOUS
<1>3. \A t \in T : \E i \in S : flip[i] = t OBVIOUS
<1>4. flip \in Bijection(S, T)
  BY <1>1, <1>2, <1>3 DEF Bijection, Injection, Surjection, IsInjective
<1> QED BY <1>4, FS_Bijection DEF ExistsBijection

LEMMA MirroredRank ==
  ASSUME NEW f, NEW g, NEW c \in Int, Mirrored(f, g, c),
         DOMAIN f \subseteq Int, IsFiniteSet(DOMAIN f), NEW k
  PROVE  Ranked(g, k) = Ranked(f, k)
<1> DEFINE AtMost(h, v) == {i \in DOMAIN h : h[i] <= v}
           Reached(h) == {v \in {h[i] : i \in DOMAIN h} : Cardinality(AtMost(h, v)) >= k}
<1>1. {g[i] : i \in DOMAIN g} = {f[i] : i \in DOMAIN f} BY DEF Mirrored
<1>2. ASSUME NEW v PROVE Cardinality(AtMost(g, v)) = Cardinality(AtMost(f, v))
  <2>1. AtMost(g, v) = {c - i : i \in AtMost(f, v)} BY DEF Mirrored
  <2>2. AtMost(f, v) \in SUBSET Int /\ IsFiniteSet(AtMost(f, v)) BY FS_Subset
  <2> HIDE DEF AtMost
  <2> QED BY <2>1, <2>2, MirroredCount
<1> HIDE DEF AtMost
<1>3. Reached(g) = Reached(f) BY <1>1, <1>2
<1>4. Ranked(g, k) = Min(Reached(g)) /\ Ranked(f, k) = Min(Reached(f)) BY DEF Ranked, AtMost
<1> HIDE DEF Reached
<1> QED BY <1>3, <1>4

LEMMA MirroredMedian ==
  ASSUME NEW f, NEW g, NEW c \in Int, Mirrored(f, g, c),
         DOMAIN f \subseteq Int, IsFiniteSet(DOMAIN f)
  PROVE  Median2(g) = Median2(f)
<1>1. Cardinality(DOMAIN g) = Cardinality(DOMAIN f) BY MirroredCount DEF Mirrored
<1>2. \A k : Ranked(g, k) = Ranked(f, k) BY MirroredRank
<1> QED BY <1>1, <1>2 DEF Median2

(* The cadence of a series does not depend on the order of its intervals.  *)
LEMMA MirroredCadence ==
  ASSUME NEW f, NEW g, NEW c \in Int, Mirrored(f, g, c),
         DOMAIN f \subseteq Int, IsFiniteSet(DOMAIN f)
  PROVE  EstimateCadence(g) = EstimateCadence(f)
<1> DEFINE Positive(h) == {i \in DOMAIN h : h[i] > 0}
           Valid(h) == [i \in Positive(h) |-> h[i]]
           Spread(h, m) == [i \in Positive(h) |-> Abs(2 * Valid(h)[i] - m)]
<1>1. Positive(g) = {c - i : i \in Positive(f)} BY DEF Mirrored
<1>2. Positive(f) \in SUBSET Int /\ IsFiniteSet(Positive(f)) BY FS_Subset
<1>3. \A i \in Positive(f) : c - i \in Positive(g) /\ g[c - i] = f[i] BY <1>1 DEF Mirrored
<1> HIDE DEF Positive
<1>4. Cardinality(Positive(g)) = Cardinality(Positive(f)) BY <1>1, <1>2, MirroredCount
<1>5. Mirrored(Valid(f), Valid(g), c) BY <1>1, <1>3 DEF Mirrored
<1>6. Median2(Valid(g)) = Median2(Valid(f))
  <2>1. DOMAIN Valid(f) = Positive(f) OBVIOUS
  <2> HIDE DEF Valid
  <2> QED BY <1>2, <1>5, <2>1, MirroredMedian
<1>7. ASSUME NEW m PROVE Median2(Spread(g, m)) = Median2(Spread(f, m))
  <2>1. DOMAIN Spread(f, m) = Positive(f) OBVIOUS
  <2>2. Mirrored(Spread(f, m), Spread(g, m), c) BY <1>1, <1>3 DEF Mirrored
  <2> HIDE DEF Spread
  <2> QED BY <1>2, <2>1, <2>2, MirroredMedian
<1> DEFINE Estimate(n, m, deviation) ==
      IF n < MinSamples THEN NoCadence
      ELSE IF deviation * VariabilityInverse > 2 * m THEN NoCadence
      ELSE [expected |-> m, threshold |-> Max({m * GapFactor, m + 2 * Jitter})]
<1>8. ASSUME NEW h
      PROVE  EstimateCadence(h) =
               Estimate(Cardinality(Positive(h)), Median2(Valid(h)),
                        Median2(Spread(h, Median2(Valid(h)))))
  BY DEF EstimateCadence, Positive
<1> HIDE DEF Estimate, Valid, Spread
<1> QED BY <1>4, <1>6, <1>7, <1>8

(* For every series and every configuration, past and future evidence weigh*)
(* the same: no interval is judged otherwise when time is read backwards.  *)
THEOREM EvidenceIsSymmetric == ObservationSpec => []MirrorImage
<1>1. ObservedOK => MirrorImage
  <2> DEFINE n == Len(observed) - 1
             backwards == [i \in DOMAIN observed |-> - observed[Len(observed) + 1 - i]]
             d == Deltas(observed)
             e == Deltas(backwards)
  <2> SUFFICES ASSUME ObservedOK, NEW i \in 1 .. n
               PROVE  LET Exchanged(src) == CASE src = "left" -> "right" [] src = "right" -> "left"
                                              [] OTHER -> src
                          a == Assess(observed, i)  b == Assess(backwards, n + 1 - i) IN
                      b.status = a.status /\ b.source = Exchanged(a.source)
    BY DEF MirrorImage
  <2>1. /\ n \in Nat /\ DOMAIN observed = 1 .. n + 1 /\ i \in Int /\ CadenceWindow \in Nat
        /\ \A j \in 1 .. n + 1 : observed[j] \in Int
    BY ObservationConstants DEF ValidConfiguration, ObservedOK
  <2>2. /\ backwards \in Seq(Int) /\ Len(backwards) = n + 1
        /\ \A j \in 1 .. n + 1 : backwards[j] = - observed[n + 2 - j]
    <3>1. \A j \in 1 .. n + 1 : n + 2 - j \in 1 .. n + 1 BY <2>1
    <3>2. backwards = [j \in 1 .. n + 1 |-> - observed[n + 2 - j]] BY <2>1
    <3>3. \A j \in 1 .. n + 1 : - observed[n + 2 - j] \in Int BY <2>1, <3>1
    <3>4. backwards \in [1 .. n + 1 -> Int] BY <3>2, <3>3
    <3> HIDE DEF backwards
    <3>5. n + 1 \in Nat BY <2>1
    <3> QED BY <3>2, <3>4, <3>5
  <2> HIDE DEF backwards
  <2>3. /\ DOMAIN d = 1 .. n /\ DOMAIN e = 1 .. n
        /\ \A j \in 1 .. n : e[n + 1 - j] = d[j]
    <3>1. /\ d = [j \in 1 .. n |-> observed[j + 1] - observed[j]]
          /\ e = [j \in 1 .. n |-> backwards[j + 1] - backwards[j]]
      BY <2>1, <2>2 DEF Deltas
    <3>2. ASSUME NEW j \in 1 .. n PROVE e[n + 1 - j] = d[j]
      <4>1. /\ n + 1 - j \in 1 .. n /\ (n + 1 - j) + 1 \in 1 .. n + 1 /\ n + 1 - j \in 1 .. n + 1
            /\ j \in 1 .. n + 1 /\ j + 1 \in 1 .. n + 1
            /\ n + 2 - ((n + 1 - j) + 1) = j /\ n + 2 - (n + 1 - j) = j + 1
        BY <2>1
      <4>2. backwards[(n + 1 - j) + 1] = - observed[j] /\ backwards[n + 1 - j] = - observed[j + 1]
        BY <2>2, <4>1
      <4>3. observed[j] \in Int /\ observed[j + 1] \in Int BY <2>1, <4>1
      <4> QED BY <3>1, <4>1, <4>2, <4>3
    <3> QED BY <3>1, <3>2
  <2> HIDE DEF d, e, n
  <2>4. ASSUME NEW from \in Int, NEW to \in Int
        PROVE  EstimateCadence(Slice(e, n + 1 - to, n + 1 - from)) =
                 EstimateCadence(Slice(d, from, to))
    <3> DEFINE f == Slice(d, from, to)
               g == Slice(e, n + 1 - to, n + 1 - from)
    <3>1. /\ f = [j \in (1 .. n) \cap (from .. to) |-> d[j]]
          /\ g = [j \in (1 .. n) \cap (n + 1 - to .. n + 1 - from) |-> e[j]]
      BY <2>3 DEF Slice
    <3>2. (1 .. n) \cap (n + 1 - to .. n + 1 - from) =
            {n + 1 - j : j \in (1 .. n) \cap (from .. to)}
      <4>1. ASSUME NEW k \in (1 .. n) \cap (n + 1 - to .. n + 1 - from)
            PROVE  \E j \in (1 .. n) \cap (from .. to) : k = n + 1 - j
        <5>1. n + 1 - k \in (1 .. n) \cap (from .. to) /\ k = n + 1 - (n + 1 - k)
          BY <2>1
        <5> QED BY <5>1
      <4>2. ASSUME NEW j \in (1 .. n) \cap (from .. to)
            PROVE  n + 1 - j \in (1 .. n) \cap (n + 1 - to .. n + 1 - from)
        BY <2>1
      <4> QED BY <4>1, <4>2
    <3>3. Mirrored(f, g, n + 1)
      <4>1. \A j \in DOMAIN f : n + 1 - j \in DOMAIN g BY <3>1, <3>2
      <4>2. \A j \in DOMAIN f : j \in 1 .. n /\ f[j] = d[j] BY <3>1
      <4>3. \A j \in DOMAIN g : g[j] = e[j] BY <3>1
      <4>4. DOMAIN g = {n + 1 - j : j \in DOMAIN f} BY <3>1, <3>2
      <4> HIDE DEF f, g
      <4>5. ASSUME NEW j \in DOMAIN f PROVE g[(n + 1) - j] = f[j]
        <5>1. n + 1 - j \in DOMAIN g /\ j \in 1 .. n BY <4>1, <4>2
        <5>2. g[n + 1 - j] = e[n + 1 - j] BY <4>3, <5>1
        <5>3. e[n + 1 - j] = d[j] /\ f[j] = d[j] BY <2>3, <4>2, <5>1
        <5>4. n + 1 - j = (n + 1) - j BY <2>1, <5>1
        <5> QED BY <5>2, <5>3, <5>4
      <4>6. DOMAIN g = {(n + 1) - j : j \in DOMAIN f}
        <5>1. \A j \in DOMAIN f : n + 1 - j = (n + 1) - j BY <2>1, <4>2
        <5> QED BY <4>4, <5>1
      <4> QED BY <4>5, <4>6 DEF Mirrored
    <3>4. DOMAIN f \subseteq Int /\ IsFiniteSet(DOMAIN f)
      <4>1. DOMAIN f \in SUBSET (1 .. n) BY <3>1
      <4>2. IsFiniteSet(1 .. n) BY <2>1, FS_Interval
      <4> HIDE DEF f
      <4>3. DOMAIN f \subseteq Int BY <4>1
      <4>4. IsFiniteSet(DOMAIN f) BY <4>1, <4>2, FS_Subset
      <4> QED BY <4>3, <4>4
    <3>5. n + 1 \in Int BY <2>1
    <3> HIDE DEF f, g
    <3>6. EstimateCadence(g) = EstimateCadence(f) BY <3>3, <3>4, <3>5, MirroredCadence
    <3> QED BY <3>6 DEF f, g
  <2>5. Left(e, n + 1 - i) = Right(d, i)
    <3>1. /\ i + 1 \in Int /\ i + CadenceWindow \in Int
          /\ (n + 1 - i) - CadenceWindow = n + 1 - (i + CadenceWindow)
          /\ (n + 1 - i) - 1 = n + 1 - (i + 1)
      BY <2>1
    <3> QED BY <2>4, <3>1 DEF Left, Right
  <2>6. Right(e, n + 1 - i) = Left(d, i)
    <3>1. /\ i - CadenceWindow \in Int /\ i - 1 \in Int
          /\ (n + 1 - i) + 1 = n + 1 - (i - 1)
          /\ (n + 1 - i) + CadenceWindow = n + 1 - (i - CadenceWindow)
      BY <2>1
    <3> QED BY <2>4, <3>1 DEF Left, Right
  <2>7. e[n + 1 - i] = d[i] BY <2>3
  <2> DEFINE Exchanged(src) == CASE src = "left" -> "right" [] src = "right" -> "left"
                                 [] OTHER -> src
  <2>8. ASSUME NEW l \in BOOLEAN, NEW r \in BOOLEAN
        PROVE  Source(r, l) = Exchanged(Source(l, r))
    BY DEF Source
  <2>9. \A x, delta : Supports(x, delta) \in BOOLEAN /\ Known(x) \in BOOLEAN
    BY DEF Supports, Known
  <2> DEFINE Verdict(left, right, x) ==
        LET l == Supports(left, x)  r == Supports(right, x) IN
        IF x <= 0 THEN [status |-> "indeterminate", source |-> "none"]
        ELSE [status |-> CASE l \/ r -> "continuous"
                           [] ~ (l \/ r) /\ Known(left) /\ Known(right) -> "gap"
                           [] OTHER -> "indeterminate",
              source |-> IF l \/ r THEN Source(l, r) ELSE Source(Known(left), Known(right))]
  <2>10. /\ Assess(observed, i) = Verdict(Left(d, i), Right(d, i), d[i])
         /\ Assess(backwards, n + 1 - i) =
              Verdict(Left(e, n + 1 - i), Right(e, n + 1 - i), e[n + 1 - i])
    BY DEF Assess, d, e
  <2>11. ASSUME NEW left, NEW right, NEW x
         PROVE  /\ Verdict(right, left, x).status = Verdict(left, right, x).status
                /\ Verdict(right, left, x).source = Exchanged(Verdict(left, right, x).source)
    <3>1. CASE x <= 0 BY <3>1
    <3>2. CASE ~ (x <= 0)
      <4>1. Verdict(right, left, x).status = Verdict(left, right, x).status BY <3>2
      <4>2. /\ Verdict(left, right, x).source =
                 IF Supports(left, x) \/ Supports(right, x)
                 THEN Source(Supports(left, x), Supports(right, x))
                 ELSE Source(Known(left), Known(right))
            /\ Verdict(right, left, x).source =
                 IF Supports(left, x) \/ Supports(right, x)
                 THEN Source(Supports(right, x), Supports(left, x))
                 ELSE Source(Known(right), Known(left))
        BY <3>2
      <4> HIDE DEF Verdict, Exchanged
      <4>3. CASE Supports(left, x) \/ Supports(right, x) BY <2>8, <2>9, <4>1, <4>2, <4>3
      <4>4. CASE ~ (Supports(left, x) \/ Supports(right, x)) BY <2>8, <2>9, <4>1, <4>2, <4>4
      <4> QED BY <4>3, <4>4
    <3> QED BY <3>1, <3>2
  <2> HIDE DEF Verdict
  <2>12. LET a == Assess(observed, i)  b == Assess(backwards, n + 1 - i) IN
         b.status = a.status /\ b.source = Exchanged(a.source)
    BY <2>5, <2>6, <2>7, <2>10, <2>11
  <2> QED BY <2>12
<1> QED BY <1>1, ObservedInvariance, PTL

-----------------------------------------------------------------------------
(* Buckets.  The sums are folds and the loop is a recursive function, both *)
(* chosen as a function that satisfies its equation: that there is one is  *)
(* shown from a smallest counterexample.  Then a sum of numbers of seconds *)
(* is the number of seconds of a union without overlap, and the loop cuts a*)
(* span into segments that overlap nowhere and lie each in its bucket.     *)

\* One step of a sum over f: the value at some element and the sum without it.
Added(f, w, s) ==
  IF s = {} THEN 0 ELSE f[CHOOSE x \in s : TRUE] + w[s \ {CHOOSE x \in s : TRUE}]

\* The fold of the community modules, with its definitions expanded.
LEMMA SumIsChosen ==
  ASSUME NEW f
  PROVE  SumFunction(f) =
           (CHOOSE w : w = [s \in SUBSET DOMAIN f |-> Added(f, w, s)])[DOMAIN f]
BY DEF SumFunction, SumFunctionOnSet, FoldFunctionOnSet, MapThenFoldSet, Added

\* The equation of the fold has a solution, by the number of elements.
LEMMA SumTableExists ==
  ASSUME NEW f, IsFiniteSet(DOMAIN f)
  PROVE  \E w : w = [s \in SUBSET DOMAIN f |-> Added(f, w, s)]
<1> DEFINE D == DOMAIN f
           Upto(n) == {s \in SUBSET D : Cardinality(s) <= n}
           Made(n) == \E w : w = [s \in Upto(n) |-> Added(f, w, s)]
           bad == {n \in Nat : ~ Made(n)}
<1>1. \A s \in SUBSET D : IsFiniteSet(s) /\ Cardinality(s) \in Nat BY FS_Subset, FS_CardinalityType
<1>2. ASSUME NEW s \in SUBSET D, s # {}, NEW x \in s
      PROVE  s \ {x} \in SUBSET D /\ Cardinality(s \ {x}) = Cardinality(s) - 1
  BY <1>1, FS_RemoveElement
<1>3. Made(0)
  <2> DEFINE w == [s \in Upto(0) |-> 0]
  <2>1. \A s \in Upto(0) : s = {} BY <1>1, FS_EmptySet
  <2>2. w = [s \in Upto(0) |-> Added(f, w, s)] BY <2>1 DEF Added
  <2> QED BY <2>2
<1>4. ASSUME NEW n \in Nat, Made(n) PROVE Made(n + 1)
  <2>1. PICK w : w = [s \in Upto(n) |-> Added(f, w, s)] BY <1>4
  <2> DEFINE v == [s \in Upto(n + 1) |-> Added(f, w, s)]
  <2>2. ASSUME NEW s \in Upto(n + 1) PROVE Added(f, w, s) = Added(f, v, s)
    <3> DEFINE x == CHOOSE x \in s : TRUE
    <3>1. CASE s = {} BY <3>1 DEF Added
    <3>2. CASE s # {}
      <4>1. x \in s BY <3>2
      <4>2. s \ {x} \in Upto(n)
        <5> HIDE DEF x
        <5>1. s \in SUBSET D /\ Cardinality(s) <= n + 1 /\ Cardinality(s) \in Nat BY <1>1
        <5>2. s \ {x} \in SUBSET D /\ Cardinality(s \ {x}) = Cardinality(s) - 1
          BY <1>2, <3>2, <4>1, <5>1
        <5> QED BY <5>1, <5>2
      <4>3. s \ {x} \in Upto(n + 1) BY <4>2, <1>1
      <4>4. v[s \ {x}] = w[s \ {x}] BY <2>1, <4>2, <4>3
      <4> QED BY <3>2, <4>4 DEF Added
    <3> QED BY <3>1, <3>2
  <2>3. v = [s \in Upto(n + 1) |-> Added(f, v, s)] BY <2>2
  <2> QED BY <2>3
<1> HIDE DEF Made
<1>5. bad = {}
  <2> SUFFICES ASSUME bad # {} PROVE FALSE OBVIOUS
  <2>1. PICK m \in bad : \A n \in bad : m <= n BY MinOfNumbers
  <2>2. m # 0 BY <1>3
  <2>3. m - 1 \in Nat /\ m - 1 \notin bad BY <2>1, <2>2
  <2>4. Made((m - 1) + 1) BY <1>4, <2>3
  <2> QED BY <2>4, <2>1
<1>6. Cardinality(D) \in Nat /\ Upto(Cardinality(D)) = SUBSET D BY FS_Subset, FS_CardinalityType
<1>7. Made(Cardinality(D)) BY <1>5, <1>6
<1> QED BY <1>6, <1>7 DEF Made

\* The numbers of elements of sets that share none add up to that of their union.
LEMMA SumCounts ==
  ASSUME NEW D, IsFiniteSet(D), NEW A, \A x \in D : IsFiniteSet(A[x]),
         \A x, y \in D : x # y => A[x] \cap A[y] = {}
  PROVE  /\ IsFiniteSet(UNION {A[x] : x \in D})
         /\ SumFunction([x \in D |-> Cardinality(A[x])]) = Cardinality(UNION {A[x] : x \in D})
<1> DEFINE f == [x \in D |-> Cardinality(A[x])]
           w == CHOOSE w : w = [s \in SUBSET D |-> Added(f, w, s)]
           All(s) == UNION {A[x] : x \in s}
           Counts(s) == IsFiniteSet(All(s)) /\ w[s] = Cardinality(All(s))
           bad == {n \in Nat : \E s \in SUBSET D : Cardinality(s) = n /\ ~ Counts(s)}
<1>1. DOMAIN f = D OBVIOUS
<1>2. w = [s \in SUBSET D |-> Added(f, w, s)] BY <1>1, SumTableExists
<1>3. SumFunction(f) = w[D] BY <1>1, SumIsChosen
<1>4. \A s \in SUBSET D : IsFiniteSet(s) /\ Cardinality(s) \in Nat BY FS_Subset, FS_CardinalityType
<1>5. \A s \in SUBSET D : w[s] = Added(f, w, s) BY <1>2
<1> HIDE DEF w
<1>6. Counts({})
  <2>1. All({}) = {} OBVIOUS
  <2>2. w[{}] = 0 BY <1>5 DEF Added
  <2> QED BY <2>1, <2>2, FS_EmptySet
<1>7. ASSUME NEW s \in SUBSET D, s # {}, \A r \in SUBSET D : Cardinality(r) < Cardinality(s) => Counts(r)
      PROVE  Counts(s)
  <2> DEFINE x == CHOOSE x \in s : TRUE
             r == s \ {x}
  <2>1. x \in s BY <1>7
  <2> HIDE DEF x
  <2>2. r \in SUBSET D /\ Cardinality(r) < Cardinality(s)
    BY <1>4, <2>1, FS_RemoveElement
  <2>3. IsFiniteSet(All(r)) /\ w[r] = Cardinality(All(r)) BY <1>7, <2>2
  <2>4. w[s] = f[x] + w[r] BY <1>5, <1>7 DEF Added, x
  <2>5. f[x] = Cardinality(A[x]) /\ IsFiniteSet(A[x]) BY <2>1
  <2>6. All(s) = A[x] \cup All(r) BY <2>1
  <2>7. A[x] \cap All(r) = {} BY <2>1
  <2> HIDE DEF All, r
  <2>8. /\ IsFiniteSet(All(s))
        /\ Cardinality(All(s)) = Cardinality(A[x]) + Cardinality(All(r)) - Cardinality({})
    <3>1. IsFiniteSet(A[x]) /\ IsFiniteSet(All(r)) BY <2>3, <2>5
    <3>2. /\ IsFiniteSet(A[x] \cup All(r))
          /\ Cardinality(A[x] \cup All(r))
               = Cardinality(A[x]) + Cardinality(All(r)) - Cardinality(A[x] \cap All(r))
      BY <3>1, FS_Union
    <3> QED BY <2>6, <2>7, <3>2
  <2>9. Cardinality({}) = 0 /\ Cardinality(A[x]) \in Nat /\ Cardinality(All(r)) \in Nat
    BY <2>3, <2>5, FS_EmptySet, FS_CardinalityType
  <2> QED BY <2>3, <2>4, <2>5, <2>8, <2>9 DEF All
<1> HIDE DEF Counts
<1>8. bad = {}
  <2> SUFFICES ASSUME bad # {} PROVE FALSE OBVIOUS
  <2>1. PICK m \in bad : \A n \in bad : m <= n BY MinOfNumbers
  <2>2. PICK s \in SUBSET D : Cardinality(s) = m /\ ~ Counts(s) BY <2>1
  <2>3. \A r \in SUBSET D : Cardinality(r) < Cardinality(s) => Counts(r)
    BY <1>4, <2>1, <2>2
  <2> QED BY <1>6, <1>7, <2>2, <2>3
<1>9. Counts(D) BY <1>4, <1>8
<1> QED BY <1>3, <1>9 DEF Counts

\* The bucket of an instant is the multiple of the size that it lies in.
LEMMA FloorFacts ==
  ASSUME NEW t \in Int, NEW size \in Nat \ {0}
  PROVE  /\ FloorBucketStart(t, size) \in Int /\ FloorBucketStart(t, size) % size = 0
         /\ FloorBucketStart(t, size) <= t /\ t < FloorBucketStart(t, size) + size
<1> DEFINE q == t \div size
           r == t % size
<1>1. q \in Int /\ r \in 0 .. size - 1 /\ t = size * q + r OBVIOUS
<1>2. FloorBucketStart(t, size) = q * size BY DEF FloorBucketStart
<1> HIDE DEF q, r
<1>3. (q * size) % size = 0 BY <1>1
<1>4. q * size \in Int /\ size * q = q * size BY <1>1
<1> QED BY <1>1, <1>2, <1>3, <1>4

\* An instant lies in one bucket only.
LEMMA FloorIsUnique ==
  ASSUME NEW size \in Nat \ {0}, NEW b \in Int, b % size = 0, NEW t \in b .. b + size - 1
  PROVE  FloorBucketStart(t, size) = b
<1> DEFINE q == t \div size
           k == b \div size
<1>1. q \in Int /\ t = size * q + (t % size) /\ t % size \in 0 .. size - 1 OBVIOUS
<1>2. k \in Int /\ b = size * k OBVIOUS
<1>3. FloorBucketStart(t, size) = size * q BY <1>1 DEF FloorBucketStart
<1> HIDE DEF q, k
<1>4. t - b \in 0 .. size - 1 /\ t \in Int OBVIOUS
<1>5. size * q < size * k + size /\ size * k < size * q + size
  <2>1. size * q \in Int /\ size * k \in Int BY <1>1, <1>2
  <2> QED BY <1>1, <1>2, <1>4, <2>1
<1>6. q < k + 1 /\ k < q + 1
  <2>1. ASSUME k + 1 <= q PROVE FALSE
    <3>1. size * (k + 1) <= size * q BY <1>1, <1>2, <2>1
    <3>2. size * (k + 1) = size * k + size BY <1>2
    <3>3. size * q \in Int /\ size * k \in Int BY <1>1, <1>2
    <3> QED BY <1>5, <3>1, <3>2, <3>3
  <2>2. ASSUME q + 1 <= k PROVE FALSE
    <3>1. size * (q + 1) <= size * k BY <1>1, <1>2, <2>2
    <3>2. size * (q + 1) = size * q + size BY <1>1
    <3>3. size * q \in Int /\ size * k \in Int BY <1>1, <1>2
    <3> QED BY <1>5, <3>1, <3>2, <3>3
  <2> QED BY <1>1, <1>2, <2>1, <2>2
<1>7. q = k BY <1>1, <1>2, <1>6
<1> QED BY <1>2, <1>3, <1>7

\* One turn of the loop that cuts a span, c being what the later turns cut.
CutAt(c, from, to, size) ==
  IF from >= to THEN {}
  ELSE LET b == FloorBucketStart(from, size)  e == Min({b + size, to}) IN
       {[bucket |-> b, from |-> from, to |-> e]} \cup c[e]

\* The loop of the code, with its definition expanded.
LEMMA SegmentsAreChosen ==
  ASSUME NEW span, NEW size, ~ (span.from >= span.to)
  PROVE  Segments(span, size) =
           (CHOOSE c : c = [from \in span.from .. Max({span.from, span.to}) |->
                              CutAt(c, from, span.to, size)])[span.from]
BY DEF Segments, CutAt

\* The lesser and the greater of two numbers.
LEMMA TwoNumbers ==
  ASSUME NEW x \in Int, NEW y \in Int
  PROVE  /\ Min({x, y}) = IF x <= y THEN x ELSE y
         /\ Max({x, y}) = IF x <= y THEN y ELSE x
<1>1. Min({x, y}) = IF x <= y THEN x ELSE y BY DEF Min
<1>2. Max({x, y}) = IF x <= y THEN y ELSE x BY DEF Max
<1> QED BY <1>1, <1>2

\* A turn gets further, and not past the end.
LEMMA TurnAdvances ==
  ASSUME NEW from \in Int, NEW to \in Int, from < to, NEW size \in Nat \ {0}
  PROVE  LET b == FloorBucketStart(from, size)  e == Min({b + size, to}) IN
         e \in from + 1 .. to /\ e <= b + size
<1> DEFINE b == FloorBucketStart(from, size)
<1>1. b \in Int /\ b <= from /\ from < b + size BY FloorFacts
<1> HIDE DEF b
<1>2. Min({b + size, to}) = IF b + size <= to THEN b + size ELSE to BY <1>1, TwoNumbers
<1> QED BY <1>1, <1>2 DEF b

\* The equation of the loop has a solution, by the distance from the end.
LEMMA CutsExist ==
  ASSUME NEW first \in Int, NEW to \in Int, first <= to, NEW size \in Nat \ {0}
  PROVE  \E c : c = [from \in first .. to |-> CutAt(c, from, to, size)]
<1> DEFINE FromEnd(n) == {from \in first .. to : to - from <= n}
           Made(n) == \E c : c = [from \in FromEnd(n) |-> CutAt(c, from, to, size)]
           bad == {n \in Nat : ~ Made(n)}
<1>1. Made(0)
  <2> DEFINE c == [from \in FromEnd(0) |-> {}]
  <2>1. \A from \in FromEnd(0) : CutAt(c, from, to, size) = {} BY DEF CutAt
  <2>2. c = [from \in FromEnd(0) |-> CutAt(c, from, to, size)] BY <2>1
  <2> QED BY <2>2
<1>2. ASSUME NEW n \in Nat, Made(n) PROVE Made(n + 1)
  <2>1. PICK c : c = [from \in FromEnd(n) |-> CutAt(c, from, to, size)] BY <1>2
  <2> DEFINE d == [from \in FromEnd(n + 1) |-> CutAt(c, from, to, size)]
  <2>2. ASSUME NEW from \in FromEnd(n + 1) PROVE CutAt(c, from, to, size) = CutAt(d, from, to, size)
    <3> DEFINE e == Min({FloorBucketStart(from, size) + size, to})
    <3>1. CASE from >= to BY <3>1 DEF CutAt
    <3>2. CASE ~ (from >= to)
      <4>0. from \in Int /\ from < to BY <3>2
      <4>1. e \in from + 1 .. to BY <4>0, TurnAdvances
      <4> HIDE DEF e
      <4>2. e \in FromEnd(n) /\ e \in FromEnd(n + 1) BY <4>1
      <4>3. c[e] = CutAt(c, e, to, size) BY <2>1, <4>2
      <4>4. d[e] = CutAt(c, e, to, size) BY <4>2
      <4> HIDE DEF d
      <4>5. c[e] = d[e] BY <4>3, <4>4
      <4> QED BY <3>2, <4>5 DEF CutAt, e
    <3> QED BY <3>1, <3>2
  <2>3. d = [from \in FromEnd(n + 1) |-> CutAt(d, from, to, size)] BY <2>2
  <2> HIDE DEF d
  <2> QED BY <2>3
<1> HIDE DEF Made
<1>3. bad = {}
  <2> SUFFICES ASSUME bad # {} PROVE FALSE OBVIOUS
  <2>1. PICK m \in bad : \A n \in bad : m <= n BY MinOfNumbers
  <2>2. m # 0 BY <1>1
  <2>3. m - 1 \in Nat /\ m - 1 \notin bad BY <2>1, <2>2
  <2>4. Made((m - 1) + 1) BY <1>2, <2>3
  <2> QED BY <2>4, <2>1
<1>4. to - first \in Nat /\ FromEnd(to - first) = first .. to OBVIOUS
<1>5. Made(to - first) BY <1>3, <1>4
<1> QED BY <1>4, <1>5 DEF Made

\* The seconds of a segment, from its first to the one before its end.
Moments(g) == g.from .. g.to - 1

\* S cuts the seconds from .. to - 1 into segments that lie each in its bucket.
CutsUp(S, from, to, size) ==
  /\ IsFiniteSet(S)
  /\ \A g \in S : /\ g.bucket \in Int /\ g.from \in Int /\ g.to \in Int
                  /\ g.bucket % size = 0 /\ g.bucket <= g.from /\ g.to <= g.bucket + size
                  /\ from <= g.from /\ g.from < g.to /\ g.to <= to
  /\ \A g, h \in S : g # h => Moments(g) \cap Moments(h) = {}
  /\ UNION {Moments(g) : g \in S} = from .. to - 1

\* A turn puts its segment before what the later turns cut up.
LEMMA TurnCutsUp ==
  ASSUME NEW from \in Int, NEW to \in Int, from < to, NEW size \in Nat \ {0}, NEW c,
         \A e \in from + 1 .. to : CutsUp(c[e], e, to, size)
  PROVE  CutsUp(CutAt(c, from, to, size), from, to, size)
<1> DEFINE b == FloorBucketStart(from, size)
           e == Min({b + size, to})
           g0 == [bucket |-> b, from |-> from, to |-> e]
           S == c[e]
<1>1. b \in Int /\ b % size = 0 /\ b <= from BY FloorFacts
<1>2. e \in from + 1 .. to /\ e <= b + size BY TurnAdvances
<1>3. CutAt(c, from, to, size) = {g0} \cup S BY DEF CutAt
<1>4. CutsUp(S, e, to, size) BY <1>2
<1>5. /\ g0.bucket = b /\ g0.from = from /\ g0.to = e /\ Moments(g0) = from .. e - 1 BY DEF Moments
<1> HIDE DEF b, e, g0, S
<1>6. IsFiniteSet({g0} \cup S)
  <2>1. IsFiniteSet(S \cup {g0}) BY <1>4, FS_AddElement DEF CutsUp
  <2>2. S \cup {g0} = {g0} \cup S OBVIOUS
  <2> QED BY <2>1, <2>2
<1>7. ASSUME NEW g \in {g0} \cup S
      PROVE  /\ g.bucket \in Int /\ g.from \in Int /\ g.to \in Int
             /\ g.bucket % size = 0 /\ g.bucket <= g.from /\ g.to <= g.bucket + size
             /\ from <= g.from /\ g.from < g.to /\ g.to <= to
  <2>1. CASE g = g0 BY <1>1, <1>2, <1>5, <2>1
  <2>2. CASE g \in S BY <1>2, <1>4, <2>2 DEF CutsUp
  <2> QED BY <2>1, <2>2
<1>8. \A g \in S : Moments(g) \cap Moments(g0) = {} BY <1>2, <1>4, <1>5 DEF CutsUp, Moments
<1>9. ASSUME NEW g \in {g0} \cup S, NEW h \in {g0} \cup S, g # h
      PROVE  Moments(g) \cap Moments(h) = {}
  BY <1>4, <1>8, <1>9 DEF CutsUp
<1>10. UNION {Moments(g) : g \in {g0} \cup S} = from .. to - 1
  <2>1. UNION {Moments(g) : g \in {g0} \cup S} = Moments(g0) \cup UNION {Moments(g) : g \in S}
    OBVIOUS
  <2>2. UNION {Moments(g) : g \in S} = e .. to - 1 BY <1>4 DEF CutsUp
  <2> QED BY <1>2, <1>5, <2>1, <2>2
<1> QED BY <1>3, <1>6, <1>7, <1>9, <1>10 DEF CutsUp

\* From any instant on, the turns cut up what is left of the span.
LEMMA LoopCutsUp ==
  ASSUME NEW first \in Int, NEW to \in Int, first < to, NEW size \in Nat \ {0}, NEW c,
         c = [from \in first .. to |-> CutAt(c, from, to, size)]
  PROVE  CutsUp(c[first], first, to, size)
<1> DEFINE Ok(from) == CutsUp(c[from], from, to, size)
           bad == {n \in Nat : \E from \in first .. to : to - from = n /\ ~ Ok(from)}
<1>3. \A from \in first .. to : c[from] = CutAt(c, from, to, size) OBVIOUS
<1>4. Ok(to)
  <2>1. c[to] = {}
    <3>1. c[to] = CutAt(c, to, to, size) BY <1>3
    <3> QED BY <3>1 DEF CutAt
  <2>2. to .. to - 1 = {} OBVIOUS
  <2> QED BY <2>1, <2>2, FS_EmptySet DEF CutsUp
<1>5. ASSUME NEW from \in first .. to, from < to, \A e \in from + 1 .. to : Ok(e) PROVE Ok(from)
  <2>1. from \in Int OBVIOUS
  <2> QED BY <1>3, <1>5, <2>1, TurnCutsUp
<1> HIDE DEF Ok
<1>6. bad = {}
  <2> SUFFICES ASSUME bad # {} PROVE FALSE OBVIOUS
  <2>1. PICK m \in bad : \A n \in bad : m <= n BY MinOfNumbers
  <2>2. PICK from \in first .. to : to - from = m /\ ~ Ok(from) BY <2>1
  <2>3. ASSUME NEW e \in from + 1 .. to PROVE Ok(e)
    <3>1. to - e \in Nat /\ to - e < m /\ e \in first .. to BY <2>2
    <3>2. to - e \notin bad
      <4>1. m \in Nat OBVIOUS
      <4> HIDE DEF bad
      <4> QED BY <2>1, <3>1, <4>1
    <3> QED BY <3>1, <3>2
  <2>4. CASE from = to BY <1>4, <2>2, <2>4
  <2>5. CASE from < to BY <1>5, <2>2, <2>3, <2>5
  <2> QED BY <2>4, <2>5
<1>7. first \in first .. to /\ to - first \in Nat OBVIOUS
<1>8. Ok(first) BY <1>6, <1>7
<1> QED BY <1>8 DEF Ok

\* The loop cuts its span up.
LEMMA SegmentsCutUp ==
  ASSUME NEW span, span.from \in Int, span.to \in Int, NEW size \in Nat \ {0}
  PROVE  CutsUp(Segments(span, size), span.from, span.to, size)
<1>1. PICK first \in Int, to \in Int : first = span.from /\ to = span.to OBVIOUS
<1>2. CASE ~ (first < to)
  <2>1. Segments(span, size) = {} BY <1>1, <1>2 DEF Segments
  <2>2. first .. to - 1 = {} BY <1>2
  <2> QED BY <1>1, <2>1, <2>2, FS_EmptySet DEF CutsUp
<1>3. CASE first < to
  <2> DEFINE c == CHOOSE c : c = [from \in first .. to |-> CutAt(c, from, to, size)]
  <2>1. Segments(span, size) = c[first]
    <3>1. Max({first, to}) = IF first <= to THEN to ELSE first BY TwoNumbers
    <3>2. ~ (first >= to) /\ Max({first, to}) = to BY <1>3, <3>1
    <3>3. Segments(span, size) =
            (CHOOSE d : d = [from \in span.from .. Max({span.from, span.to}) |->
                               CutAt(d, from, span.to, size)])[span.from]
      BY <1>1, <3>2, SegmentsAreChosen
    <3> QED BY <1>1, <3>2, <3>3
  <2>2. c = [from \in first .. to |-> CutAt(c, from, to, size)]
    <3>1. first <= to BY <1>3
    <3> QED BY <3>1, CutsExist
  <2> HIDE DEF c
  <2>3. CutsUp(c[first], first, to, size) BY <1>3, <2>2, LoopCutsUp
  <2> QED BY <1>1, <2>1, <2>3
<1> QED BY <1>2, <1>3

InOrder(s) == \A i, j \in 1 .. Len(s) : i <= j => s[i] <= s[j]

\* Observations are in order.
LEMMA OrderInvariance == ObservationSpec => [](ObservedOK /\ InOrder(observed))
<1>1. ObservationInit => ObservedOK /\ InOrder(observed)
  BY ObservationConstants DEF ObservationInit, ObservedOK, InOrder
<1>2. ObservedOK /\ ObservedOK' /\ InOrder(observed) /\ [ObservationNext]_observationVars
        => InOrder(observed)'
  <2> SUFFICES ASSUME ObservedOK, InOrder(observed), [ObservationNext]_observationVars
               PROVE  InOrder(observed)'
    OBVIOUS
  <2>1. CASE Observe
    <3> DEFINE n == Len(observed)
    <3>1. PICK d \in Steps : observed' = Append(observed, observed[n] + d) BY <2>1 DEF Observe
    <3>2. d \in Nat /\ n \in Nat /\ n >= 1 /\ \A i \in 1 .. n : observed[i] \in Int
      BY ObservationConstants DEF ObservedOK, ValidConfiguration
    <3>3. /\ Len(observed') = n + 1 /\ observed'[n + 1] = observed[n] + d
          /\ \A i \in 1 .. n : observed'[i] = observed[i]
      BY <3>1, <3>2 DEF ObservedOK
    <3>4. \A i, j \in 1 .. n : i <= j => observed[i] <= observed[j] BY DEF InOrder
    <3> HIDE DEF n
    <3>5. ASSUME NEW i \in 1 .. n + 1, NEW j \in 1 .. n + 1, i <= j
          PROVE  observed'[i] <= observed'[j]
      <4>1. CASE j \in 1 .. n
        <5>1. i \in 1 .. n BY <3>2, <3>5, <4>1
        <5> QED BY <3>3, <3>4, <3>5, <4>1, <5>1
      <4>2. CASE j = n + 1 /\ i \in 1 .. n
        <5>1. n \in 1 .. n /\ i <= n BY <3>2, <4>2
        <5>2. observed[i] <= observed[n] /\ observed[i] \in Int /\ observed[n] \in Int
          BY <3>2, <3>4, <4>2, <5>1
        <5>3. observed'[i] = observed[i] /\ observed'[j] = observed[n] + d BY <3>3, <4>2
        <5> QED BY <3>2, <5>2, <5>3
      <4>3. CASE j = n + 1 /\ i = n + 1
        <5>1. n \in 1 .. n BY <3>2
        <5>2. observed'[i] \in Int BY <3>2, <3>3, <4>3, <5>1
        <5> QED BY <4>3, <5>2
      <4> QED BY <3>2, <4>1, <4>2, <4>3
    <3> QED BY <3>3, <3>5 DEF InOrder
  <2>2. CASE UNCHANGED observationVars BY <2>2 DEF InOrder, observationVars
  <2> QED BY <2>1, <2>2 DEF ObservationNext
<1> QED BY <1>1, <1>2, ObservedInvariance, PTL DEF ObservationSpec

\* The seconds of the i-th interval.
Between(s, i) == s[i] .. s[i + 1] - 1
Intervals(s) == 1 .. Len(s) - 1

\* Intervals share no second and cover all that was observed.
LEMMA IntervalFacts ==
  ASSUME NEW s \in Seq(Int), Len(s) >= 1, InOrder(s)
  PROVE  /\ IsFiniteSet(Intervals(s))
         /\ \A i \in Intervals(s) :
              /\ i \in Nat /\ s[i] \in Int /\ s[i + 1] \in Int /\ s[i] <= s[i + 1]
              /\ IsFiniteSet(Between(s, i)) /\ Cardinality(Between(s, i)) = s[i + 1] - s[i]
         /\ \A i, j \in Intervals(s) : i # j => Between(s, i) \cap Between(s, j) = {}
         /\ UNION {Between(s, i) : i \in Intervals(s)} = s[1] .. s[Len(s)] - 1
         /\ s[1] \in Int /\ s[Len(s)] \in Int /\ s[1] <= s[Len(s)]
<1> DEFINE n == Len(s)
<1>1. n \in Nat /\ n >= 1 /\ \A i \in 1 .. n : s[i] \in Int OBVIOUS
<1>2. \A i, j \in 1 .. n : i <= j => s[i] <= s[j] BY DEF InOrder
<1>3. Intervals(s) = 1 .. n - 1 BY DEF Intervals
<1> HIDE DEF n
<1>4. IsFiniteSet(Intervals(s)) BY <1>1, <1>3, FS_Interval
<1>5. \A i \in Intervals(s) : i \in Nat /\ i \in 1 .. n /\ i + 1 \in 1 .. n /\ i <= i + 1
  BY <1>1, <1>3
<1>6. \A i \in Intervals(s) : s[i] \in Int /\ s[i + 1] \in Int /\ s[i] <= s[i + 1]
  BY <1>1, <1>2, <1>5
<1>7. ASSUME NEW i \in Intervals(s)
      PROVE  IsFiniteSet(Between(s, i)) /\ Cardinality(Between(s, i)) = s[i + 1] - s[i]
  <2>1. PICK x \in Int, y \in Int : x = s[i] /\ y = s[i + 1] /\ x <= y BY <1>6
  <2>2. IsFiniteSet(x .. y - 1) /\ Cardinality(x .. y - 1) = IF x > y - 1 THEN 0 ELSE (y - 1) - x + 1
    BY FS_Interval
  <2>3. Cardinality(x .. y - 1) = y - x BY <2>1, <2>2
  <2> QED BY <2>1, <2>2, <2>3 DEF Between
<1>8. ASSUME NEW i \in Intervals(s), NEW j \in Intervals(s), i < j
      PROVE  Between(s, i) \cap Between(s, j) = {}
  <2>1. i + 1 <= j BY <1>5, <1>8
  <2>2. s[i + 1] <= s[j] BY <1>2, <1>5, <2>1
  <2>3. s[i] \in Int /\ s[i + 1] \in Int /\ s[j] \in Int /\ s[j + 1] \in Int BY <1>6
  <2> QED BY <2>2, <2>3 DEF Between
<1>9. \A i, j \in Intervals(s) : i # j => Between(s, i) \cap Between(s, j) = {}
  <2> SUFFICES ASSUME NEW i \in Intervals(s), NEW j \in Intervals(s), i # j
               PROVE  Between(s, i) \cap Between(s, j) = {}
    OBVIOUS
  <2>1. i < j \/ j < i BY <1>5
  <2> QED BY <1>8, <2>1
<1>10. 1 \in 1 .. n /\ n \in 1 .. n BY <1>1
<1>11. s[1] \in Int /\ s[n] \in Int /\ s[1] <= s[n] BY <1>1, <1>2, <1>10
<1>12. ASSUME NEW i \in Intervals(s), NEW t \in Between(s, i) PROVE t \in s[1] .. s[n] - 1
  <2>1. s[1] <= s[i] /\ s[i + 1] <= s[n]
    <3>1. 1 <= i /\ i + 1 <= n BY <1>1, <1>5
    <3> QED BY <1>2, <1>5, <1>10, <3>1
  <2>2. s[i] \in Int /\ s[i + 1] \in Int BY <1>6
  <2> QED BY <1>11, <2>1, <2>2 DEF Between
<1>13. ASSUME NEW t \in s[1] .. s[n] - 1 PROVE \E i \in Intervals(s) : t \in Between(s, i)
  <2> DEFINE later == {k \in 1 .. n : t < s[k]}
  <2>1. t \in Int /\ s[1] <= t /\ t < s[n] BY <1>11
  <2>2. n \in later /\ 1 \notin later /\ later \in SUBSET Nat BY <1>1, <1>10, <1>11, <2>1
  <2>3. PICK k \in later : \A j \in later : k <= j BY <2>2, MinOfNumbers
  <2>4. k \in 1 .. n /\ k # 1 /\ t < s[k] BY <2>2
  <2>5. k - 1 \in 1 .. n /\ k - 1 \in Intervals(s) /\ (k - 1) + 1 = k BY <1>1, <1>3, <2>4
  <2>6. k - 1 \notin later
    <3>1. k \in Int /\ ~ (k <= k - 1) BY <2>4
    <3> QED BY <2>3, <3>1
  <2>7. s[k - 1] <= t /\ s[k - 1] \in Int /\ s[k] \in Int BY <1>1, <2>1, <2>4, <2>5, <2>6
  <2>8. t \in Between(s, k - 1) BY <2>1, <2>4, <2>5, <2>7 DEF Between
  <2> QED BY <2>5, <2>8
<1>14. UNION {Between(s, i) : i \in Intervals(s)} = s[1] .. s[n] - 1 BY <1>12, <1>13
<1> QED BY <1>4, <1>5, <1>6, <1>7, <1>9, <1>11, <1>14 DEF n

\* The seconds of the intervals with one verdict are as many as they are.
LEMMA SecondsCount ==
  ASSUME NEW s \in Seq(Int), Len(s) >= 1, InOrder(s), NEW status
  PROVE  LET U == UNION {Between(s, i) : i \in {i \in Intervals(s) : Assess(s, i).status = status}} IN
         IsFiniteSet(U) /\ Seconds(s, status) = Cardinality(U)
<1> DEFINE D == {i \in Intervals(s) : Assess(s, i).status = status}
           A == [i \in D |-> Between(s, i)]
<1>1. Seconds(s, status) = SumFunction([i \in D |-> s[i + 1] - s[i]])
  <2>1. DOMAIN Continuity(s) = Intervals(s) BY DEF Continuity, Intervals
  <2>2. \A i \in Intervals(s) : Continuity(s)[i] = Assess(s, i) BY DEF Continuity, Intervals
  <2>3. {i \in DOMAIN Continuity(s) : Continuity(s)[i].status = status} = D BY <2>1, <2>2
  <2> HIDE DEF D
  <2> QED BY <2>3 DEF Seconds
<1>2. D \in SUBSET Intervals(s) /\ IsFiniteSet(D) BY IntervalFacts, FS_Subset
<1> HIDE DEF D
<1>3. \A i \in D : A[i] = Between(s, i) /\ IsFiniteSet(A[i]) /\ Cardinality(A[i]) = s[i + 1] - s[i]
  BY <1>2, IntervalFacts
<1>4. \A i, j \in D : i # j => A[i] \cap A[j] = {} BY <1>2, <1>3, IntervalFacts
<1> HIDE DEF A
<1>5. /\ IsFiniteSet(UNION {A[i] : i \in D})
      /\ SumFunction([i \in D |-> Cardinality(A[i])]) = Cardinality(UNION {A[i] : i \in D})
  <2>1. \A i \in D : IsFiniteSet(A[i]) BY <1>3
  <2>2. IsFiniteSet(D) BY <1>2
  <2> QED BY <1>4, <2>1, <2>2, SumCounts
<1>6. [i \in D |-> Cardinality(A[i])] = [i \in D |-> s[i + 1] - s[i]] BY <1>3
<1>7. UNION {A[i] : i \in D} = UNION {Between(s, i) : i \in D} BY <1>3
<1> QED BY <1>1, <1>5, <1>6, <1>7 DEF D

\* There is no fourth verdict.
LEMMA VerdictIsOneOfThree ==
  ASSUME NEW s, NEW i
  PROVE  Assess(s, i).status \in {"continuous", "gap", "indeterminate"}
BY DEF Assess

\* Every second of the observations is of one kind.
LEMMA KindsAddUp ==
  ASSUME NEW s \in Seq(Int), Len(s) >= 1, InOrder(s)
  PROVE  Seconds(s, "continuous") + Seconds(s, "gap") + Seconds(s, "indeterminate")
           = s[Len(s)] - s[1]
<1> DEFINE D(status) == {i \in Intervals(s) : Assess(s, i).status = status}
           U(status) == UNION {Between(s, i) : i \in D(status)}
           c == U("continuous")   g == U("gap")   o == U("indeterminate")
           first == s[1]   last == s[Len(s)]
<1>1. /\ IsFiniteSet(c) /\ Seconds(s, "continuous") = Cardinality(c)
      /\ IsFiniteSet(g) /\ Seconds(s, "gap") = Cardinality(g)
      /\ IsFiniteSet(o) /\ Seconds(s, "indeterminate") = Cardinality(o)
  BY SecondsCount
<1>2. \A i, j \in Intervals(s) : i # j => Between(s, i) \cap Between(s, j) = {} BY IntervalFacts
<1>3. ASSUME NEW a, NEW b, a # b PROVE U(a) \cap U(b) = {}
  <2> SUFFICES ASSUME NEW i \in D(a), NEW j \in D(b) PROVE Between(s, i) \cap Between(s, j) = {}
    OBVIOUS
  <2>1. i # j BY <1>3
  <2> QED BY <1>2, <2>1
<1>4. c \cap g = {} /\ (c \cup g) \cap o = {}
  <2>1. U("continuous") \cap U("gap") = {} BY <1>3
  <2>2. U("continuous") \cap U("indeterminate") = {} BY <1>3
  <2>3. U("gap") \cap U("indeterminate") = {} BY <1>3
  <2> HIDE DEF U
  <2> QED BY <2>1, <2>2, <2>3
<1>5. (c \cup g) \cup o = first .. last - 1
  <2>1. Intervals(s) = D("continuous") \cup D("gap") \cup D("indeterminate")
    BY VerdictIsOneOfThree
  <2> HIDE DEF D
  <2>2. (c \cup g) \cup o = UNION {Between(s, i) : i \in Intervals(s)} BY <2>1
  <2> QED BY <2>2, IntervalFacts
<1>6. first \in Int /\ last \in Int /\ first <= last BY IntervalFacts
<1> HIDE DEF U, c, g, o, first, last
<1>7. IsFiniteSet(c \cup g) /\ Cardinality(c \cup g) = Cardinality(c) + Cardinality(g) - Cardinality({})
  <2>1. c \cap g = {} /\ IsFiniteSet(c) /\ IsFiniteSet(g) BY <1>1, <1>4
  <2>2. /\ IsFiniteSet(c \cup g)
        /\ Cardinality(c \cup g) = Cardinality(c) + Cardinality(g) - Cardinality(c \cap g)
    BY <2>1, FS_Union
  <2> QED BY <2>1, <2>2
<1>8. Cardinality((c \cup g) \cup o) = Cardinality(c \cup g) + Cardinality(o) - Cardinality({})
  <2> DEFINE S == c \cup g
  <2>1. IsFiniteSet(S) /\ S \cap o = {} BY <1>4, <1>7
  <2> HIDE DEF S
  <2>2. Cardinality(S \cup o) = Cardinality(S) + Cardinality(o) - Cardinality(S \cap o)
    BY <1>1, <2>1, FS_Union
  <2> QED BY <2>1, <2>2 DEF S
<1>9. /\ Cardinality({}) = 0 /\ Cardinality(c) \in Nat /\ Cardinality(g) \in Nat
      /\ Cardinality(o) \in Nat
  BY <1>1, FS_EmptySet, FS_CardinalityType
<1>10. Cardinality(first .. last - 1) = last - first
  <2>1. Cardinality(first .. last - 1) = IF first > last - 1 THEN 0 ELSE (last - 1) - first + 1
    BY <1>6, FS_Interval
  <2> QED BY <1>6, <2>1
<1>11. Cardinality(c) + Cardinality(g) + Cardinality(o) = last - first
  <2>1. Cardinality((c \cup g) \cup o) = last - first BY <1>5, <1>10
  <2> QED BY <1>7, <1>8, <1>9, <2>1
<1> QED BY <1>1, <1>11 DEF first, last

\* The chart's segments and the seconds they are to count.
SegmentsOf(s, q) == UNION {Segments(Clipped(s, i, q), q.bucket) : i \in Spans(s)}
Counted(s, q) ==
  {t \in q.from .. q.to - 1 : \E i \in Intervals(s) :
     Assess(s, i).status = "continuous" /\ s[i] <= t /\ t < s[i + 1]}

\* Clipping a span leaves its seconds in the window of the chart.
LEMMA ClippedFacts ==
  ASSUME NEW s \in Seq(Int), Len(s) >= 1, InOrder(s), NEW i \in Intervals(s),
         NEW q, q.from \in Int, q.to \in Int
  PROVE  LET c == Clipped(s, i, q) IN
         /\ c.from \in Int /\ c.to \in Int
         /\ c.from .. c.to - 1 = Between(s, i) \cap (q.from .. q.to - 1)
<1>1. PICK a \in Int, b \in Int, x \in Int, y \in Int :
        a = s[i] /\ b = s[i + 1] /\ x = q.from /\ y = q.to
  BY IntervalFacts
<1>2. Clipped(s, i, q) = [from |-> Max({a, x}), to |-> Min({b, y})] BY <1>1 DEF Clipped
<1>3. Max({a, x}) = (IF a <= x THEN x ELSE a) /\ Min({b, y}) = (IF b <= y THEN b ELSE y)
  BY TwoNumbers
<1>4. Between(s, i) = a .. b - 1 BY <1>1 DEF Between
<1>5. Max({a, x}) \in Int /\ Min({b, y}) \in Int BY <1>3
<1>6. PICK f \in Int, e \in Int : f = Max({a, x}) /\ e = Min({b, y}) BY <1>5
<1>7. f = (IF a <= x THEN x ELSE a) /\ e = (IF b <= y THEN b ELSE y) BY <1>3, <1>6
<1>8. ASSUME NEW t \in Int
      PROVE  t \in f .. e - 1 <=> t \in a .. b - 1 /\ t \in x .. y - 1
  <2>1. f <= t <=> a <= t /\ x <= t BY <1>7
  <2>2. t <= e - 1 <=> t <= b - 1 /\ t <= y - 1 BY <1>7
  <2> QED BY <2>1, <2>2
<1>9. f .. e - 1 = (a .. b - 1) \cap (x .. y - 1)
  <2>1. f .. e - 1 \subseteq Int /\ a .. b - 1 \subseteq Int OBVIOUS
  <2> DEFINE P == f .. e - 1
             Q == a .. b - 1
             R == x .. y - 1
  <2>2. \A t \in Int : t \in P <=> t \in Q /\ t \in R BY <1>8
  <2>3. P \subseteq Int /\ Q \subseteq Int BY <2>1
  <2> HIDE DEF P, Q, R
  <2>4. P = Q \cap R BY <2>2, <2>3
  <2> QED BY <2>4 DEF P, Q, R
<1>10. Clipped(s, i, q).from = f /\ Clipped(s, i, q).to = e BY <1>2, <1>6
<1> QED BY <1>1, <1>4, <1>9, <1>10

\* The loops together cut the seconds that count into segments.
LEMMA AllCutUp ==
  ASSUME NEW s \in Seq(Int), Len(s) >= 1, InOrder(s),
         NEW q, q.from \in Int, q.to \in Int, q.bucket \in Nat \ {0}
  PROVE  LET segs == SegmentsOf(s, q) IN
         /\ IsFiniteSet(segs)
         /\ \A g \in segs :
              /\ g.bucket \in Int /\ g.from \in Int /\ g.to \in Int /\ g.from < g.to
              /\ g.bucket % q.bucket = 0 /\ g.bucket <= g.from /\ g.to <= g.bucket + q.bucket
         /\ \A g, h \in segs : g # h => Moments(g) \cap Moments(h) = {}
         /\ UNION {Moments(g) : g \in segs} = Counted(s, q)
<1> DEFINE Piece(i) == Segments(Clipped(s, i, q), q.bucket)
           segs == UNION {Piece(i) : i \in Spans(s)}
<1>1. Spans(s) = {i \in Intervals(s) : Assess(s, i).status = "continuous" /\ s[i] < s[i + 1]}
  <2>1. DOMAIN Continuity(s) = Intervals(s) BY DEF Continuity, Intervals
  <2>2. \A i \in Intervals(s) : Continuity(s)[i] = Assess(s, i) BY DEF Continuity, Intervals
  <2> QED BY <2>1, <2>2 DEF Spans
<1>2. IsFiniteSet(Spans(s)) BY <1>1, IntervalFacts, FS_Subset
<1>3. ASSUME NEW i \in Spans(s)
      PROVE  CutsUp(Piece(i), Clipped(s, i, q).from, Clipped(s, i, q).to, q.bucket)
  BY <1>1, ClippedFacts, SegmentsCutUp
<1>4. ASSUME NEW i \in Spans(s)
      PROVE  /\ IsFiniteSet(Piece(i))
             /\ \A g \in Piece(i) :
                  /\ g.bucket \in Int /\ g.from \in Int /\ g.to \in Int /\ g.from < g.to
                  /\ g.bucket % q.bucket = 0 /\ g.bucket <= g.from /\ g.to <= g.bucket + q.bucket
             /\ \A g, h \in Piece(i) : g # h => Moments(g) \cap Moments(h) = {}
             /\ UNION {Moments(g) : g \in Piece(i)} = Between(s, i) \cap (q.from .. q.to - 1)
  <2>1. /\ Clipped(s, i, q).from .. Clipped(s, i, q).to - 1
             = Between(s, i) \cap (q.from .. q.to - 1)
    BY <1>1, ClippedFacts
  <2> HIDE DEF Piece
  <2> QED BY <1>3, <2>1 DEF CutsUp
<1> HIDE DEF Piece
<1>5. IsFiniteSet(segs)
  <2> DEFINE F == {Piece(i) : i \in Spans(s)}
             f == [i \in Spans(s) |-> Piece(i)]
  <2>1. f \in Surjection(Spans(s), F) BY DEF Surjection
  <2> HIDE DEF f
  <2>2. IsFiniteSet(F) BY <1>2, <2>1, FS_Surjection
  <2>3. \A T \in F : IsFiniteSet(T) BY <1>4
  <2> HIDE DEF F
  <2>4. IsFiniteSet(UNION F) BY <2>2, <2>3, FS_UNION
  <2> QED BY <2>4 DEF F
<1>6. ASSUME NEW g \in segs
      PROVE  /\ g.bucket \in Int /\ g.from \in Int /\ g.to \in Int /\ g.from < g.to
             /\ g.bucket % q.bucket = 0 /\ g.bucket <= g.from /\ g.to <= g.bucket + q.bucket
  <2>1. PICK i \in Spans(s) : g \in Piece(i) OBVIOUS
  <2> QED BY <1>4, <2>1
<1>7. ASSUME NEW g \in segs, NEW h \in segs, g # h PROVE Moments(g) \cap Moments(h) = {}
  <2>1. PICK i \in Spans(s), j \in Spans(s) : g \in Piece(i) /\ h \in Piece(j) OBVIOUS
  <2>2. CASE i = j BY <1>4, <1>7, <2>1, <2>2
  <2>3. CASE i # j
    <3>1. Moments(g) \subseteq Between(s, i) /\ Moments(h) \subseteq Between(s, j) BY <1>4, <2>1
    <3>2. i \in Intervals(s) /\ j \in Intervals(s) BY <1>1
    <3>3. Between(s, i) \cap Between(s, j) = {} BY <2>3, <3>2, IntervalFacts
    <3> QED BY <3>1, <3>3
  <2> QED BY <2>2, <2>3
<1>8. UNION {Moments(g) : g \in segs} = Counted(s, q)
  <2>1. ASSUME NEW g \in segs, NEW t \in Moments(g) PROVE t \in Counted(s, q)
    <3>1. PICK i \in Spans(s) : g \in Piece(i) OBVIOUS
    <3>2. t \in Between(s, i) /\ t \in q.from .. q.to - 1 BY <1>4, <3>1
    <3>3. /\ i \in Intervals(s) /\ Assess(s, i).status = "continuous"
          /\ s[i] \in Int /\ s[i + 1] \in Int
      BY <1>1, IntervalFacts
    <3>4. s[i] <= t /\ t < s[i + 1] BY <3>2, <3>3 DEF Between
    <3> QED BY <3>2, <3>3, <3>4 DEF Counted
  <2>2. ASSUME NEW t \in Counted(s, q) PROVE \E g \in segs : t \in Moments(g)
    <3>1. PICK i \in Intervals(s) :
            Assess(s, i).status = "continuous" /\ s[i] <= t /\ t < s[i + 1]
      BY DEF Counted
    <3>2. t \in q.from .. q.to - 1 /\ t \in Int BY DEF Counted
    <3>3. s[i] \in Int /\ s[i + 1] \in Int BY IntervalFacts
    <3>4. i \in Spans(s) /\ t \in Between(s, i) BY <1>1, <3>1, <3>2, <3>3 DEF Between
    <3>5. t \in UNION {Moments(g) : g \in Piece(i)} BY <1>4, <3>2, <3>4
    <3> QED BY <3>4, <3>5
  <2> QED BY <2>1, <2>2
<1>9. SegmentsOf(s, q) = segs BY DEF SegmentsOf, Piece
<1> HIDE DEF segs
<1> QED BY <1>5, <1>6, <1>7, <1>8, <1>9

\* A segment has as many seconds as its length.
LEMMA SegmentLength ==
  ASSUME NEW g, g.from \in Int, g.to \in Int, g.from < g.to
  PROVE  IsFiniteSet(Moments(g)) /\ Cardinality(Moments(g)) = g.to - g.from /\ Moments(g) # {}
<1>1. PICK x \in Int, y \in Int : x = g.from /\ y = g.to OBVIOUS
<1>2. IsFiniteSet(x .. y - 1) /\ Cardinality(x .. y - 1) = IF x > y - 1 THEN 0 ELSE (y - 1) - x + 1
  BY FS_Interval
<1>3. x < y BY <1>1
<1>4. Cardinality(x .. y - 1) = y - x /\ x \in x .. y - 1 BY <1>2, <1>3
<1> QED BY <1>1, <1>2, <1>4 DEF Moments

\* A bucket counts the seconds that lie in it; and there are buckets for all.
LEMMA BucketsCount ==
  ASSUME NEW s \in Seq(Int), Len(s) >= 1, InOrder(s),
         NEW q, q.from \in Int, q.to \in Int, q.bucket \in Nat \ {0}
  PROVE  LET buckets == Buckets(s, q)
             Inside(b) == Counted(s, q) \cap (b .. b + q.bucket - 1) IN
         /\ IsFiniteSet(DOMAIN buckets)
         /\ \A b \in DOMAIN buckets :
              /\ b \in Int /\ b % q.bucket = 0 /\ buckets[b].seconds > 0
              /\ IsFiniteSet(Inside(b)) /\ buckets[b].seconds = Cardinality(Inside(b))
         /\ \A b, c \in DOMAIN buckets : b # c => Inside(b) \cap Inside(c) = {}
         /\ UNION {Inside(b) : b \in DOMAIN buckets} = Counted(s, q)
<1> DEFINE buckets == Buckets(s, q)
           Inside(b) == Counted(s, q) \cap (b .. b + q.bucket - 1)
           segs == SegmentsOf(s, q)
           B == {g.bucket : g \in segs}
           Piece(b) == {g \in segs : g.bucket = b}
<1>1. /\ IsFiniteSet(segs)
      /\ \A g \in segs :
           /\ g.bucket \in Int /\ g.from \in Int /\ g.to \in Int /\ g.from < g.to
           /\ g.bucket % q.bucket = 0 /\ g.bucket <= g.from /\ g.to <= g.bucket + q.bucket
      /\ \A g, h \in segs : g # h => Moments(g) \cap Moments(h) = {}
      /\ UNION {Moments(g) : g \in segs} = Counted(s, q)
  BY AllCutUp
<1>2. /\ DOMAIN buckets = B
      /\ \A b \in B : buckets[b].seconds = SumFunction([g \in Piece(b) |-> g.to - g.from])
  BY DEF Buckets, SegmentsOf
<1> HIDE DEF segs, buckets
<1>3. IsFiniteSet(B)
  <2> DEFINE f == [g \in segs |-> g.bucket]
  <2>1. f \in Surjection(segs, B) BY DEF Surjection
  <2> HIDE DEF f
  <2> QED BY <1>1, <2>1, FS_Surjection
<1>4. \A b \in B : b \in Int /\ b % q.bucket = 0 BY <1>1
<1>5. ASSUME NEW g \in segs, NEW t \in Moments(g)
      PROVE  t \in Int /\ t \in g.bucket .. g.bucket + q.bucket - 1
  <2>1. /\ g.bucket \in Int /\ g.from \in Int /\ g.to \in Int
        /\ g.bucket <= g.from /\ g.to <= g.bucket + q.bucket
    BY <1>1
  <2>2. t \in g.from .. g.to - 1 BY <1>5 DEF Moments
  <2>3. t \in Int /\ g.bucket <= t /\ t < g.bucket + q.bucket BY <2>1, <2>2
  <2> QED BY <2>1, <2>3
<1>6. ASSUME NEW b \in B, NEW c \in B, NEW t \in b .. b + q.bucket - 1, t \in c .. c + q.bucket - 1
      PROVE  b = c
  <2>1. FloorBucketStart(t, q.bucket) = b BY <1>4, FloorIsUnique
  <2>2. FloorBucketStart(t, q.bucket) = c BY <1>4, <1>6, FloorIsUnique
  <2> QED BY <2>1, <2>2
<1>7. ASSUME NEW b \in B PROVE UNION {Moments(g) : g \in Piece(b)} = Inside(b)
  <2>1. ASSUME NEW g \in Piece(b), NEW t \in Moments(g) PROVE t \in Inside(b)
    <3>1. g \in segs /\ g.bucket = b OBVIOUS
    <3>2. t \in b .. b + q.bucket - 1 BY <1>5, <3>1
    <3>3. t \in Counted(s, q) BY <1>1, <3>1
    <3> QED BY <3>2, <3>3
  <2>2. ASSUME NEW t \in Inside(b) PROVE \E g \in Piece(b) : t \in Moments(g)
    <3>1. PICK g \in segs : t \in Moments(g) BY <1>1
    <3>2. t \in g.bucket .. g.bucket + q.bucket - 1 /\ g.bucket \in B BY <1>5, <3>1
    <3>3. t \in b .. b + q.bucket - 1 OBVIOUS
    <3>4. g.bucket = b BY <1>6, <3>2, <3>3
    <3> QED BY <3>1, <3>4
  <2> QED BY <2>1, <2>2
<1>8. ASSUME NEW b \in B
      PROVE  /\ IsFiniteSet(Inside(b)) /\ buckets[b].seconds = Cardinality(Inside(b))
             /\ buckets[b].seconds > 0
  <2> DEFINE D == Piece(b)
             A == [g \in D |-> Moments(g)]
  <2>1. D \in SUBSET segs /\ IsFiniteSet(D) /\ D # {} BY <1>1, FS_Subset
  <2>2. buckets[b].seconds = SumFunction([g \in D |-> g.to - g.from]) BY <1>2
  <2>3. UNION {Moments(g) : g \in D} = Inside(b) BY <1>7
  <2> HIDE DEF D, Inside
  <2>4. \A g \in D : /\ A[g] = Moments(g) /\ IsFiniteSet(A[g]) /\ A[g] # {}
                     /\ Cardinality(A[g]) = g.to - g.from
    BY <1>1, <2>1, SegmentLength
  <2>5. \A g, h \in D : g # h => A[g] \cap A[h] = {} BY <1>1, <2>1, <2>4
  <2> HIDE DEF A
  <2>6. /\ IsFiniteSet(UNION {A[g] : g \in D})
        /\ SumFunction([g \in D |-> Cardinality(A[g])]) = Cardinality(UNION {A[g] : g \in D})
    <3>1. \A g \in D : IsFiniteSet(A[g]) BY <2>4
    <3>2. IsFiniteSet(D) BY <2>1
    <3> QED BY <2>5, <3>1, <3>2, SumCounts
  <2>7. [g \in D |-> Cardinality(A[g])] = [g \in D |-> g.to - g.from] BY <2>4
  <2>8. UNION {A[g] : g \in D} = Inside(b) /\ Inside(b) # {}
    <3>1. UNION {A[g] : g \in D} = UNION {Moments(g) : g \in D} BY <2>4
    <3>2. PICK g \in D : A[g] # {} BY <2>1, <2>4
    <3>3. UNION {A[h] : h \in D} # {} BY <3>2
    <3> QED BY <2>3, <3>1, <3>3
  <2>9. IsFiniteSet(Inside(b)) /\ buckets[b].seconds = Cardinality(Inside(b))
    BY <2>2, <2>6, <2>7, <2>8
  <2>10. Cardinality(Inside(b)) \in Nat /\ Cardinality(Inside(b)) # 0
    BY <2>8, <2>9, FS_EmptySet, FS_CardinalityType
  <2> QED BY <2>9, <2>10
<1>9. \A b, c \in B : b # c => Inside(b) \cap Inside(c) = {} BY <1>6
<1>10. UNION {Inside(b) : b \in B} = Counted(s, q)
  <2>1. ASSUME NEW t \in Counted(s, q) PROVE \E b \in B : t \in Inside(b)
    <3>1. PICK g \in segs : t \in Moments(g) BY <1>1
    <3>2. t \in g.bucket .. g.bucket + q.bucket - 1 /\ g.bucket \in B BY <1>5, <3>1
    <3> QED BY <3>2
  <2> QED BY <2>1
<1> HIDE DEF Inside, B
<1>11. /\ IsFiniteSet(DOMAIN buckets)
       /\ \A b \in DOMAIN buckets :
            /\ b \in Int /\ b % q.bucket = 0 /\ buckets[b].seconds > 0
            /\ IsFiniteSet(Inside(b)) /\ buckets[b].seconds = Cardinality(Inside(b))
       /\ \A b, c \in DOMAIN buckets : b # c => Inside(b) \cap Inside(c) = {}
       /\ UNION {Inside(b) : b \in DOMAIN buckets} = Counted(s, q)
  BY <1>2, <1>3, <1>4, <1>8, <1>9, <1>10
<1> QED BY <1>11 DEF buckets, Inside

(* For every series in order, every chart and every size of bucket, the    *)
(* buckets of a chart count each second of continuous reporting in its     *)
(* window once, and the verdicts share out the whole time observed.        *)
THEOREM EverySecondOnce == ObservationSpec => []BucketsCountSeconds
<1> DEFINE Good == ObservedOK /\ InOrder(observed) /\ query \in Queries
<1>1. ObservationSpec => [](query \in Queries)
  <2>1. ObservationInit => query \in Queries BY DEF ObservationInit
  <2>2. query \in Queries /\ [ObservationNext]_observationVars => (query \in Queries)'
    BY DEF ObservationNext, Observe, observationVars
  <2> QED BY <2>1, <2>2, PTL DEF ObservationSpec
<1>2. Good => BucketsCountSeconds
  <2> SUFFICES ASSUME Good PROVE BucketsCountSeconds OBVIOUS
  <2> DEFINE s == observed
             q == query
             seconds == Counted(s, q)
             buckets == Buckets(s, q)
             B == DOMAIN buckets
             Inside(b) == seconds \cap (b .. b + q.bucket - 1)
             A == [b \in B |-> Inside(b)]
  <2>1. q.from \in Int /\ q.to \in Int /\ q.bucket \in Nat \ {0}
    BY ObservationConstants DEF ValidConfiguration
  <2>2. s \in Seq(Int) /\ Len(s) >= 1 /\ InOrder(s) BY DEF ObservedOK
  <2>3. /\ IsFiniteSet(B)
        /\ \A b \in B :
             /\ b \in Int /\ b % q.bucket = 0 /\ buckets[b].seconds > 0
             /\ IsFiniteSet(Inside(b)) /\ buckets[b].seconds = Cardinality(Inside(b))
        /\ \A b, c \in B : b # c => Inside(b) \cap Inside(c) = {}
        /\ UNION {Inside(b) : b \in B} = seconds
    BY <2>1, <2>2, BucketsCount
  <2>4. LET a == Continuity(s)
            Covered(t) == \E i \in DOMAIN a : /\ a[i].status = "continuous"
                                              /\ s[i] <= t /\ t < s[i + 1] IN
        {t \in q.from .. q.to - 1 : Covered(t)} = seconds
    BY DEF Counted, Continuity, Intervals
  <2>5. \A b \in B : A[b] = Inside(b) OBVIOUS
  <2>6. Cardinality(seconds) = SumFunction([b \in B |-> buckets[b].seconds])
    <3> HIDE DEF A, B, Inside, buckets, seconds
    <3>1. \A b \in B : IsFiniteSet(A[b]) BY <2>3, <2>5
    <3>2. \A b, c \in B : b # c => A[b] \cap A[c] = {} BY <2>3, <2>5
    <3>3. IsFiniteSet(B) BY <2>3
    <3>4. SumFunction([b \in B |-> Cardinality(A[b])]) = Cardinality(UNION {A[b] : b \in B})
      BY <3>1, <3>2, <3>3, SumCounts
    <3>5. [b \in B |-> Cardinality(A[b])] = [b \in B |-> buckets[b].seconds] BY <2>3, <2>5
    <3>6. UNION {A[b] : b \in B} = UNION {Inside(b) : b \in B} BY <2>5
    <3> QED BY <2>3, <3>4, <3>5, <3>6
  <2>7. Seconds(s, "continuous") + Seconds(s, "gap") + Seconds(s, "indeterminate")
          = s[Len(s)] - s[1]
    BY <2>2, KindsAddUp
  <2> HIDE DEF A, seconds
  <2> QED BY <2>3, <2>4, <2>5, <2>6, <2>7 DEF BucketsCountSeconds
<1> QED BY <1>1, <1>2, OrderInvariance, PTL

-----------------------------------------------------------------------------
(* DeviceProtocol.  First, what the encoders write byte by byte, and that  *)
(* the decoders undo it and are undone by it.                              *)

LEMMA Halves ==
  ASSUME NEW n \in Int
  PROVE  \E q \in Int, l \in Byte : q = n \div 256 /\ l = n % 256 /\ n = q * 256 + l
<1>1. /\ n \div 256 \in Int /\ n % 256 \in Int /\ 0 <= n % 256 /\ n % 256 <= 255
      /\ n = (n \div 256) * 256 + (n % 256)
  OBVIOUS
<1>2. n % 256 \in Byte BY <1>1 DEF Byte
<1> QED BY <1>1, <1>2

LEMMA TwoDigits ==
  ASSUME NEW v \in Int, NEW q \in Int, NEW p \in Int, NEW h \in Byte, NEW l \in Byte,
         v = q * 256 + l, q = p * 256 + h
  PROVE  /\ 0 <= v /\ v <= 65535 => h * 256 + l = v
         /\ -32768 <= v /\ v <= 32767 => Signed8(h) * 256 + l = v
<1>0. l \in Int /\ 0 <= l /\ l <= 255 /\ h \in Int /\ 0 <= h /\ h <= 255 BY DEF Byte
<1>1. ASSUME 0 <= v, v <= 65535 PROVE h * 256 + l = v
  <2>1. 0 <= q /\ q <= 255 BY <1>0, <1>1
  <2>2. p = 0 BY <1>0, <2>1
  <2> QED BY <1>0, <2>2
<1>2. ASSUME -32768 <= v, v <= 32767 PROVE Signed8(h) * 256 + l = v
  <2>1. -128 <= q /\ q <= 127 BY <1>0, <1>2
  <2>2. (p = 0 /\ h < 128) \/ (p = -1 /\ h >= 128) BY <1>0, <2>1
  <2>3. Signed8(h) = q BY <1>0, <2>2 DEF Signed8
  <2> QED BY <2>3
<1> QED BY <1>1, <1>2

\* Two bytes, and the numbers they are read as.
LEMMA Pair ==
  ASSUME NEW v \in Int
  PROVE  \E h \in Byte, l \in Byte :
           /\ Bytes16(v) = <<h, l>>
           /\ 0 <= v /\ v <= 65535 => h * 256 + l = v
           /\ -32768 <= v /\ v <= 32767 => Signed8(h) * 256 + l = v
<1>1. PICK q \in Int, l \in Byte : q = v \div 256 /\ l = v % 256 /\ v = q * 256 + l
  BY Halves
<1>2. PICK p \in Int, h \in Byte : p = q \div 256 /\ h = q % 256 /\ q = p * 256 + h
  BY Halves
<1>3. Bytes16(v) = <<h, l>> BY <1>1, <1>2 DEF Bytes16
<1>5. /\ 0 <= v /\ v <= 65535 => h * 256 + l = v
      /\ -32768 <= v /\ v <= 32767 => Signed8(h) * 256 + l = v
  <2>1. v = q * 256 + l BY <1>1
  <2>2. q = p * 256 + h BY <1>2
  <2> QED BY <2>1, <2>2, TwoDigits
<1> QED BY <1>3, <1>5

LEMMA Split ==
  ASSUME NEW k \in Int, NEW l \in Byte
  PROVE  (k * 256 + l) \div 256 = k /\ (k * 256 + l) % 256 = l
BY DEF Byte

LEMMA SignedByte ==
  ASSUME NEW h \in Byte
  PROVE  /\ Signed8(h) \in Int /\ -128 <= Signed8(h) /\ Signed8(h) <= 127
         /\ Signed8(h) % 256 = h
<1>1. CASE h < 128 BY <1>1 DEF Byte, Signed8
<1>2. CASE ~ (h < 128) BY <1>2 DEF Byte, Signed8
<1> QED BY <1>1, <1>2

\* Two bytes are read as one number only.
LEMMA PairBack ==
  ASSUME NEW h \in Byte, NEW l \in Byte
  PROVE  /\ Bytes16(h * 256 + l) = <<h, l>>
         /\ Bytes16(Signed8(h) * 256 + l) = <<h, l>>
<1>1. ASSUME NEW k \in Int, k % 256 = h PROVE Bytes16(k * 256 + l) = <<h, l>>
  <2>1. (k * 256 + l) \div 256 = k /\ (k * 256 + l) % 256 = l BY Split
  <2> QED BY <1>1, <2>1 DEF Bytes16
<1>2. h \in Int /\ h % 256 = h BY DEF Byte
<1>3. Signed8(h) \in Int /\ Signed8(h) % 256 = h BY SignedByte
<1> DEFINE s == Signed8(h)
<1> HIDE DEF s
<1>4. Bytes16(s * 256 + l) = <<h, l>> BY <1>1, <1>3 DEF s
<1> QED BY <1>1, <1>2, <1>4 DEF s

LEMMA PairBounds ==
  ASSUME NEW h \in Byte, NEW l \in Byte
  PROVE  h * 256 + l \in Uint16 /\ Signed8(h) * 256 + l \in Int
<1> DEFINE s == Signed8(h)
<1>1. s \in Int /\ -128 <= s /\ s <= 127 BY SignedByte
<1>2. h \in Int /\ 0 <= h /\ h <= 255 /\ l \in Int /\ 0 <= l /\ l <= 255 BY DEF Byte
<1> HIDE DEF s
<1>3. h * 256 + l \in Int /\ 0 <= h * 256 + l /\ h * 256 + l <= 65535 BY <1>2
<1>4. h * 256 + l \in Uint16
  <2> DEFINE n == h * 256 + l
  <2>1. n \in Int /\ 0 <= n /\ n <= MaxUint16 /\ MaxUint16 \in Int BY SMT, <1>3 DEF MaxUint16
  <2> HIDE DEF n
  <2>2. n \in Uint16 BY SMT, <2>1 DEF Uint16
  <2> QED BY <2>2 DEF n
<1>5. s * 256 + l \in Int BY <1>1, <1>2
<1> QED BY <1>4, <1>5 DEF s

LEMMA Int16Bounds ==
  ASSUME NEW v \in Int16
  PROVE  v \in Int /\ -32768 <= v /\ v <= 32767
<1>1. MinInt16 \in Int /\ MaxInt16 \in Int BY SMT DEF MinInt16, MaxInt16
<1>2. v \in MinInt16 .. MaxInt16 BY DEF Int16
<1>3. v \in Int /\ MinInt16 <= v /\ v <= MaxInt16 BY SMT, <1>1, <1>2
<1> QED BY SMT, <1>3 DEF MinInt16, MaxInt16

LEMMA Int32Bounds ==
  ASSUME NEW v \in Int32
  PROVE  v \in Int /\ -2147483647 - 1 <= v /\ v <= 2147483647
<1>1. MinInt32 \in Int /\ MaxInt32 \in Int BY SMT DEF MinInt32, MaxInt32
<1>2. v \in MinInt32 .. MaxInt32 BY DEF Int32
<1>3. v \in Int /\ MinInt32 <= v /\ v <= MaxInt32 BY SMT, <1>1, <1>2
<1> QED BY SMT, <1>3 DEF MinInt32, MaxInt32

LEMMA JoinPairs ==
  ASSUME NEW h1 \in Byte, NEW h2 \in Byte, NEW h3 \in Byte, NEW h4 \in Byte
  PROVE  <<h1, h2>> \o <<h3, h4>> = <<h1, h2, h3, h4>>
<1> DEFINE x == <<h1, h2>> \o <<h3, h4>>
<1>1. x \in Seq(Byte) /\ Len(x) = 4 OBVIOUS
<1>2. x[1] = h1 /\ x[2] = h2 /\ x[3] = h3 /\ x[4] = h4 OBVIOUS
<1>3. x = <<x[1], x[2], x[3], x[4]>>
  <2> HIDE DEF x
  <2> QED BY <1>1
<1> QED BY <1>2, <1>3

LEMMA Quarters ==
  ASSUME NEW v \in Int
  PROVE  \E h1 \in Byte, h2 \in Byte, h3 \in Byte, h4 \in Byte :
           /\ Bytes32(v) = <<h1, h2, h3, h4>>
           /\ v \in Int32 => ((Signed8(h1) * 256 + h2) * 256 + h3) * 256 + h4 = v
<1>1. PICK w \in Int, h4 \in Byte : w = v \div 256 /\ h4 = v % 256 /\ v = w * 256 + h4
  BY Halves
<1>2. PICK u \in Int, h3 \in Byte : u = w \div 256 /\ h3 = w % 256 /\ w = u * 256 + h3
  BY Halves
<1>4. PICK h1 \in Byte, h2 \in Byte :
        /\ Bytes16(u) = <<h1, h2>>
        /\ -32768 <= u /\ u <= 32767 => Signed8(h1) * 256 + h2 = u
  BY SMT, Pair
<1>5. Bytes16(v) = <<h3, h4>> BY <1>1, <1>2 DEF Bytes16
<1>6. Bytes32(v) = <<h1, h2>> \o <<h3, h4>>
  <2>1. Bytes16((v \div 256) \div 256) = <<h1, h2>> BY <1>1, <1>2, <1>4
  <2> QED BY <2>1, <1>5 DEF Bytes32
<1>7. Bytes32(v) = <<h1, h2, h3, h4>> BY <1>6, JoinPairs
<1>8. v \in Int32 => ((Signed8(h1) * 256 + h2) * 256 + h3) * 256 + h4 = v
  <2> SUFFICES ASSUME v \in Int32
               PROVE  ((Signed8(h1) * 256 + h2) * 256 + h3) * 256 + h4 = v
    OBVIOUS
  <2>1. v = (u * 256 + h3) * 256 + h4 BY <1>1, <1>2
  <2>2. h3 \in Int /\ 0 <= h3 /\ h3 <= 255 /\ h4 \in Int /\ 0 <= h4 /\ h4 <= 255 BY DEF Byte
  <2>3. -2147483647 - 1 <= v /\ v <= 2147483647 BY SMT, Int32Bounds
  <2>4. -32768 <= u /\ u <= 32767 BY SMT, <2>1, <2>2, <2>3
  <2>5. Signed8(h1) * 256 + h2 = u BY SMT, <1>4, <2>4
  <2> QED BY <2>1, <2>5
<1> QED BY <1>7, <1>8

\* The number that four bytes are read as, and they are its bytes.
OfFour(h1, h2, h3, h4) == ((Signed8(h1) * 256 + h2) * 256 + h3) * 256 + h4

LEMMA QuartersBack ==
  ASSUME NEW h1 \in Byte, NEW h2 \in Byte, NEW h3 \in Byte, NEW h4 \in Byte
  PROVE  Bytes32(OfFour(h1, h2, h3, h4)) = <<h1, h2, h3, h4>>
<1> DEFINE u == Signed8(h1) * 256 + h2
           w == u * 256 + h3
           v == w * 256 + h4
<1>1. u \in Int /\ Bytes16(u) = <<h1, h2>>
  <2>1. u \in Int BY PairBounds
  <2> QED BY <2>1, PairBack
<1>2. h3 \in Int /\ h4 \in Int BY DEF Byte
<1> HIDE DEF u
<1>3. w \in Int /\ w \div 256 = u /\ w % 256 = h3 BY <1>1, <1>2, Split
<1> HIDE DEF w
<1>4. v \in Int /\ v \div 256 = w /\ v % 256 = h4 BY <1>2, <1>3, Split
<1> HIDE DEF v
<1>5. Bytes16(v) = <<h3, h4>> BY <1>3, <1>4 DEF Bytes16
<1>6. Bytes32(v) = <<h1, h2>> \o <<h3, h4>> BY <1>1, <1>3, <1>4, <1>5 DEF Bytes32
<1>7. Bytes32(v) = <<h1, h2, h3, h4>> BY <1>6, JoinPairs
<1>8. v = OfFour(h1, h2, h3, h4) BY DEF u, v, w, OfFour
<1> QED BY <1>7, <1>8

LEMMA SignedBack ==
  ASSUME NEW b \in Seq(Byte), NEW i \in 1 .. Len(b), i + 3 <= Len(b)
  PROVE  Bytes32(Signed32(b, i)) = <<b[i], b[i + 1], b[i + 2], b[i + 3]>>
<1>1. b[i] \in Byte /\ b[i + 1] \in Byte /\ b[i + 2] \in Byte /\ b[i + 3] \in Byte OBVIOUS
<1>2. Signed32(b, i) = OfFour(b[i], b[i + 1], b[i + 2], b[i + 3]) BY DEF Signed32, OfFour
<1>3. Bytes32(OfFour(b[i], b[i + 1], b[i + 2], b[i + 3])) = <<b[i], b[i + 1], b[i + 2], b[i + 3]>>
  BY <1>1, QuartersBack
<1> QED BY <1>2, <1>3

\* A sequence is the tuple of its elements.
LEMMA Five ==
  ASSUME NEW b \in Seq(Byte), Len(b) = 5
  PROVE  \E b1, b2, b3, b4, b5 \in Byte : b = <<b1, b2, b3, b4, b5>>
<1>1. b[1] \in Byte /\ b[2] \in Byte /\ b[3] \in Byte /\ b[4] \in Byte /\ b[5] \in Byte
  OBVIOUS
<1>2. b = <<b[1], b[2], b[3], b[4], b[5]>> OBVIOUS
<1> QED BY <1>1, <1>2, Zenon

LEMMA Eight ==
  ASSUME NEW b \in Seq(Byte), Len(b) = 8
  PROVE  \E b1, b2, b3, b4, b5, b6, b7, b8 \in Byte : b = <<b1, b2, b3, b4, b5, b6, b7, b8>>
<1>1. /\ b[1] \in Byte /\ b[2] \in Byte /\ b[3] \in Byte /\ b[4] \in Byte
      /\ b[5] \in Byte /\ b[6] \in Byte /\ b[7] \in Byte /\ b[8] \in Byte
  OBVIOUS
<1>2. b = <<b[1], b[2], b[3], b[4], b[5], b[6], b[7], b[8]>> OBVIOUS
<1> QED BY <1>1, <1>2, Zenon

LEMMA BytesTyped ==
  ASSUME NEW v \in Int
  PROVE  Bytes16(v) \in Seq(Byte) /\ Len(Bytes16(v)) = 2
<1>1. PICK h \in Byte, l \in Byte : Bytes16(v) = <<h, l>> BY SMT, Pair
<1> QED BY <1>1

\* The numbers that fit their field.
LEMMA FittingNumber ==
  ASSUME NEW n \in Uint16
  PROVE  n \in Int /\ 0 <= n /\ n <= 65535
<1>1. MaxUint16 \in Int BY SMT DEF MaxUint16
<1>2. n \in Int /\ 0 <= n /\ n <= MaxUint16 BY SMT, <1>1 DEF Uint16
<1> QED BY SMT, <1>2 DEF MaxUint16

\* The five bytes of an ACK.
LEMMA AckBytes ==
  ASSUME NEW h \in Byte, NEW l \in Byte, NEW status \in Byte, NEW error \in Byte,
         NEW seq, Bytes16(seq) = <<h, l>>
  PROVE  EncodeCommandAck(seq, status, error) = <<1, h, l, status, error>>
<1> DEFINE x == <<1>> \o <<h, l>> \o <<status, error>>
<1>0. 1 \in Byte BY DEF Byte
<1>1. x \in Seq(Byte) /\ Len(x) = 5 BY <1>0
<1>2. x[1] = 1 /\ x[2] = h /\ x[3] = l /\ x[4] = status /\ x[5] = error OBVIOUS
<1>3. x = <<x[1], x[2], x[3], x[4], x[5]>>
  <2> HIDE DEF x
  <2> QED BY <1>1
<1>4. EncodeCommandAck(seq, status, error) = x BY DEF EncodeCommandAck, Version
<1> HIDE DEF x
<1> QED BY <1>2, <1>3, <1>4

LEMMA AckRead ==
  ASSUME NEW seq \in Uint16 \ {0}, NEW status \in 1 .. 5, NEW error \in Byte
  PROVE  /\ EncodeCommandAck(seq, status, error) \in Seq(Byte)
         /\ DecodeCommandAck(EncodeCommandAck(seq, status, error)) =
              [seq |-> seq, status |-> status, error |-> error]
         /\ DecodeCommandAck(EncodeCommandAck(seq, status, error)) # Invalid
<1>1. PICK h \in Byte, l \in Byte : Bytes16(seq) = <<h, l>> /\ h * 256 + l = seq
  BY SMT, FittingNumber, Pair
<1>2. status \in Byte BY DEF Byte
<1> DEFINE b == <<1, h, l, status, error>>
<1>3. EncodeCommandAck(seq, status, error) = b BY <1>1, <1>2, AckBytes
<1>4. /\ b \in Seq(Byte) /\ Len(b) = 5 /\ b[1] = 1 /\ b[2] = h /\ b[3] = l
      /\ b[4] = status /\ b[5] = error
  BY <1>2 DEF Byte
<1> HIDE DEF b
<1>5. Unsigned16(b, 2) = seq BY <1>1, <1>4 DEF Unsigned16
<1>6. DecodeCommandAck(b) = [seq |-> seq, status |-> status, error |-> error]
  BY <1>4, <1>5 DEF DecodeCommandAck, Version
<1>7. [seq |-> seq, status |-> status, error |-> error] # Invalid
  BY DEF Invalid
<1> QED BY <1>3, <1>4, <1>6, <1>7

LEMMA AckReadBack ==
  ASSUME NEW b \in Seq(Byte), DecodeCommandAck(b) # Invalid
  PROVE  LET a == DecodeCommandAck(b) IN EncodeCommandAck(a.seq, a.status, a.error) = b
<1>1. /\ Len(b) = 5 /\ b[1] = 1
      /\ DecodeCommandAck(b) = [seq |-> Unsigned16(b, 2), status |-> b[4], error |-> b[5]]
  BY DEF DecodeCommandAck, Version
<1>2. PICK b1, h, l, s, e \in Byte : b = <<b1, h, l, s, e>> BY <1>1, Five
<1>3. b1 = 1 /\ b[2] = h /\ b[3] = l /\ b[4] = s /\ b[5] = e BY <1>1, <1>2
<1>4. Unsigned16(b, 2) = h * 256 + l BY <1>3 DEF Unsigned16
<1> DEFINE q == h * 256 + l
<1>5. Bytes16(q) = <<h, l>> BY PairBack
<1> HIDE DEF q
<1>6. EncodeCommandAck(q, s, e) = b BY <1>2, <1>3, <1>5, AckBytes
<1>7. DecodeCommandAck(b) = [seq |-> q, status |-> s, error |-> e] BY <1>1, <1>3, <1>4 DEF q
<1> QED BY <1>6, <1>7

\* The eight bytes of a status report.
LEMMA StatusBytes ==
  ASSUME NEW s, s.battery \in Byte, s.state \in Byte, s.fix \in Byte, s.errors \in Byte,
         NEW h \in Byte, NEW l \in Byte, Bytes16(s.mv) = <<h, l>>
  PROVE  EncodeStatus(s) = <<1, 2, s.battery, h, l, s.state, s.fix, s.errors>>
<1> DEFINE x == <<1, 2, s.battery>> \o <<h, l>> \o <<s.state, s.fix, s.errors>>
<1>0. 1 \in Byte /\ 2 \in Byte BY DEF Byte
<1>1. x \in Seq(Byte) /\ Len(x) = 8 BY <1>0
<1>2. /\ x[1] = 1 /\ x[2] = 2 /\ x[3] = s.battery /\ x[4] = h /\ x[5] = l
      /\ x[6] = s.state /\ x[7] = s.fix /\ x[8] = s.errors
  OBVIOUS
<1>3. x = <<x[1], x[2], x[3], x[4], x[5], x[6], x[7], x[8]>>
  <2> HIDE DEF x
  <2> QED BY <1>1
<1>4. EncodeStatus(s) = x BY DEF EncodeStatus, Version
<1> HIDE DEF x
<1> QED BY <1>2, <1>3, <1>4

LEMMA StatusReadBack ==
  ASSUME NEW b \in Seq(Byte), DecodeStatus(b) # Invalid
  PROVE  EncodeStatus(DecodeStatus(b)) = b
<1>1. /\ Len(b) = 8 /\ b[1] = 1 /\ b[2] = 2
      /\ DecodeStatus(b) = [battery |-> b[3], mv |-> Unsigned16(b, 4), state |-> b[6],
                            fix |-> b[7], errors |-> b[8]]
  BY DEF DecodeStatus, Version
<1>2. PICK b1, b2, a, h, l, s, f, e \in Byte : b = <<b1, b2, a, h, l, s, f, e>>
  BY <1>1, Eight
<1>3. /\ b1 = 1 /\ b2 = 2 /\ b[3] = a /\ b[4] = h /\ b[5] = l
      /\ b[6] = s /\ b[7] = f /\ b[8] = e
  BY <1>1, <1>2
<1>4. Unsigned16(b, 4) = h * 256 + l BY <1>3 DEF Unsigned16
<1> DEFINE q == h * 256 + l
           r == [battery |-> a, mv |-> q, state |-> s, fix |-> f, errors |-> e]
<1>5. Bytes16(q) = <<h, l>> BY PairBack
<1>6. DecodeStatus(b) = r BY <1>1, <1>3, <1>4
<1>7. Bytes16(r.mv) = <<h, l>> BY <1>5
<1>8. /\ r.battery = a /\ r.state = s /\ r.fix = f /\ r.errors = e OBVIOUS
<1> HIDE DEF r, q
<1>9. EncodeStatus(r) = <<1, 2, r.battery, h, l, r.state, r.fix, r.errors>>
  BY <1>7, <1>8, StatusBytes
<1> QED BY <1>2, <1>3, <1>6, <1>8, <1>9

\* The same of a location.
LEMMA Fifteen ==
  ASSUME NEW b \in Seq(Byte), Len(b) = 15
  PROVE  \E b1, b2, b3, b4, b5, b6, b7, b8, b9, b10, b11, b12, b13, b14, b15 \in Byte :
           b = <<b1, b2, b3, b4, b5, b6, b7, b8, b9, b10, b11, b12, b13, b14, b15>>
<1>1. /\ b[1] \in Byte /\ b[2] \in Byte /\ b[3] \in Byte /\ b[4] \in Byte /\ b[5] \in Byte
      /\ b[6] \in Byte /\ b[7] \in Byte /\ b[8] \in Byte /\ b[9] \in Byte /\ b[10] \in Byte
      /\ b[11] \in Byte /\ b[12] \in Byte /\ b[13] \in Byte /\ b[14] \in Byte /\ b[15] \in Byte
  <2>1. \A i \in 1 .. Len(b) : b[i] \in Byte BY ElementOfSeq
  <2> QED BY <2>1
<1>2. b = <<b[1], b[2], b[3], b[4], b[5], b[6], b[7], b[8], b[9], b[10], b[11], b[12],
            b[13], b[14], b[15]>>
  OBVIOUS
<1> QED BY <1>1, <1>2, Zenon

LEMMA LocationBytes ==
  ASSUME NEW p, p.battery \in Byte, p.fix \in Byte, NEW c \in Byte, Clamp(p.accuracy) = c,
         NEW a1 \in Byte, NEW a2 \in Byte, NEW a3 \in Byte, NEW a4 \in Byte,
         NEW o1 \in Byte, NEW o2 \in Byte, NEW o3 \in Byte, NEW o4 \in Byte,
         NEW h \in Byte, NEW l \in Byte,
         Bytes32(p.lat) = <<a1, a2, a3, a4>>, Bytes32(p.lng) = <<o1, o2, o3, o4>>,
         Bytes16(p.altitude) = <<h, l>>
  PROVE  EncodeLocation(p) =
           <<1, 1, a1, a2, a3, a4, o1, o2, o3, o4, h, l, c, p.battery, p.fix>>
<1> DEFINE x == <<1, 1>> \o <<a1, a2, a3, a4>> \o <<o1, o2, o3, o4>> \o <<h, l>>
                  \o <<c, p.battery, p.fix>>
<1>0. 1 \in Byte BY DEF Byte
<1>1. x \in Seq(Byte) /\ Len(x) = 15 BY <1>0
<1>2. /\ x[1] = 1 /\ x[2] = 1 /\ x[3] = a1 /\ x[4] = a2 /\ x[5] = a3 /\ x[6] = a4
      /\ x[7] = o1 /\ x[8] = o2 /\ x[9] = o3 /\ x[10] = o4 /\ x[11] = h /\ x[12] = l
      /\ x[13] = c /\ x[14] = p.battery /\ x[15] = p.fix
  OBVIOUS
<1>3. x = <<x[1], x[2], x[3], x[4], x[5], x[6], x[7], x[8], x[9], x[10], x[11], x[12],
            x[13], x[14], x[15]>>
  <2> HIDE DEF x
  <2> QED BY <1>1
<1>4. EncodeLocation(p) = x BY DEF EncodeLocation, Version
<1> HIDE DEF x
<1> QED BY <1>2, <1>3, <1>4

LEMMA Larger ==
  ASSUME NEW m \in Int, NEW n \in Int
  PROVE  /\ Max({m, n}) = IF m >= n THEN m ELSE n
         /\ Min({m, n}) = IF m <= n THEN m ELSE n
<1>1. ASSUME NEW x \in {m, n}, \A y \in {m, n} : x >= y,
             NEW z \in {m, n}, \A y \in {m, n} : z >= y
      PROVE  x = z
  BY <1>1
<1>2. Max({m, n}) = IF m >= n THEN m ELSE n
  <2> DEFINE P(x) == \A y \in {m, n} : x >= y
             a == IF m >= n THEN m ELSE n
  <2>1. a \in {m, n} /\ P(a) OBVIOUS
  <2>2. Max({m, n}) = CHOOSE x \in {m, n} : P(x) BY DEF Max
  <2>3. Max({m, n}) \in {m, n} /\ P(Max({m, n})) BY <2>1, <2>2
  <2> QED BY <2>1, <2>3, <1>1
<1>3. Min({m, n}) = IF m <= n THEN m ELSE n
  <2> DEFINE P(x) == \A y \in {m, n} : x =< y
             a == IF m <= n THEN m ELSE n
  <2>1. a \in {m, n} /\ P(a) OBVIOUS
  <2>2. Min({m, n}) = CHOOSE x \in {m, n} : P(x) BY DEF Min
  <2>3. Min({m, n}) \in {m, n} /\ P(Min({m, n})) BY <2>1, <2>2
  <2> QED BY <2>1, <2>3
<1> QED BY <1>2, <1>3

LEMMA Clamping ==
  ASSUME NEW n \in Int
  PROVE  /\ Clamp(n) \in Byte
         /\ n \in Byte => Clamp(n) = n
         /\ Clamp(n) > UncertainAbove <=> n > UncertainAbove
<1> DEFINE m == IF 255 <= n THEN 255 ELSE n
<1>1. Min({255, n}) = m BY Larger
<1>2. m \in Int OBVIOUS
<1>3. Clamp(n) = IF 0 >= m THEN 0 ELSE m
  <2>1. Clamp(n) = Max({0, m}) BY <1>1 DEF Clamp
  <2> HIDE DEF m
  <2> QED BY <1>2, <2>1, Larger
<1>4. UncertainAbove \in 0 .. 254 BY BytesOK DEF BytesOK
<1> QED BY <1>3, <1>4 DEF Byte

LEMMA LocationRead ==
  ASSUME NEW p \in Points
  PROVE  /\ EncodeLocation(p) \in Seq(Byte)
         /\ LET read == DecodeLocation(EncodeLocation(p)) IN
            IF WithinCoordinates(p.lat, p.lng) /\ p.fix \in 0 .. 3
            THEN /\ \A part \in {"lat", "lng", "altitude", "battery", "fix"} : read[part] = p[part]
                 /\ read.accuracy > UncertainAbove <=> (p.accuracy > UncertainAbove \/ p.fix = NO_FIX)
            ELSE read = Invalid
<1>1. p \in [lat : Int32, lng : Int32, altitude : Int16, accuracy : Int, battery : Byte, fix : Byte]
  BY ValuesOK DEF ValuesOK
<1>2. /\ p.lat \in Int32 /\ p.lng \in Int32 /\ p.altitude \in Int16 /\ p.accuracy \in Int
      /\ p.battery \in Byte /\ p.fix \in Byte
  BY <1>1
<1>3. p.lat \in Int /\ p.lng \in Int BY SMT, <1>2, Int32Bounds
<1>4. PICK a1, a2, a3, a4 \in Byte :
        /\ Bytes32(p.lat) = <<a1, a2, a3, a4>>
        /\ ((Signed8(a1) * 256 + a2) * 256 + a3) * 256 + a4 = p.lat
  BY <1>2, <1>3, Quarters
<1>5. PICK o1, o2, o3, o4 \in Byte :
        /\ Bytes32(p.lng) = <<o1, o2, o3, o4>>
        /\ ((Signed8(o1) * 256 + o2) * 256 + o3) * 256 + o4 = p.lng
  BY <1>2, <1>3, Quarters
<1>6. PICK h, l \in Byte : Bytes16(p.altitude) = <<h, l>> /\ Signed8(h) * 256 + l = p.altitude
  BY SMT, <1>2, Int16Bounds, Pair
<1> DEFINE c == Clamp(p.accuracy)
<1>7. c \in Byte /\ (c > UncertainAbove <=> p.accuracy > UncertainAbove) BY <1>2, Clamping
<1> DEFINE b == <<1, 1, a1, a2, a3, a4, o1, o2, o3, o4, h, l, c, p.battery, p.fix>>
<1>8. EncodeLocation(p) = b BY <1>2, <1>4, <1>5, <1>6, <1>7, LocationBytes
<1>9. b \in Seq(Byte) BY <1>2, <1>7 DEF Byte
<1> HIDE DEF c
<1>10. /\ Len(b) = 15 /\ b[1] = 1 /\ b[2] = 1 /\ b[3] = a1 /\ b[4] = a2 /\ b[5] = a3 /\ b[6] = a4
       /\ b[7] = o1 /\ b[8] = o2 /\ b[9] = o3 /\ b[10] = o4 /\ b[11] = h /\ b[12] = l
       /\ b[13] = c /\ b[14] = p.battery /\ b[15] = p.fix
  OBVIOUS
<1> HIDE DEF b
<1>11. Signed32(b, 3) = p.lat /\ Signed32(b, 7) = p.lng /\ Altitude(b) = p.altitude
  BY <1>4, <1>5, <1>6, <1>10 DEF Signed32, Signed16, Altitude
<1> DEFINE heeded == IF p.fix = NO_FIX THEN Max({c, 255}) ELSE c
<1>12. heeded > UncertainAbove <=> (p.accuracy > UncertainAbove \/ p.fix = NO_FIX)
  <2>1. UncertainAbove \in 0 .. 254 BY BytesOK DEF BytesOK
  <2>2. Max({c, 255}) = IF c >= 255 THEN c ELSE 255 BY <1>7, Larger DEF Byte
  <2> QED BY <1>7, <2>1, <2>2 DEF Byte
<1>13. Accuracy(b) = heeded BY <1>10 DEF Accuracy
<1> HIDE DEF heeded
<1> DEFINE within == WithinCoordinates(p.lat, p.lng) /\ p.fix \in 0 .. 3
           read == [lat |-> p.lat, lng |-> p.lng, altitude |-> p.altitude,
                    accuracy |-> heeded, battery |-> p.battery, fix |-> p.fix]
<1>14. DecodeLocation(b) = IF within THEN read ELSE Invalid
  BY <1>10, <1>11, <1>13 DEF DecodeLocation, Version
<1>15. /\ \A part \in {"lat", "lng", "altitude", "battery", "fix"} : read[part] = p[part]
       /\ read.accuracy = heeded
  OBVIOUS
<1> HIDE DEF within, read
<1>16. IF within
       THEN /\ \A part \in {"lat", "lng", "altitude", "battery", "fix"} : DecodeLocation(b)[part] = p[part]
            /\ DecodeLocation(b).accuracy > UncertainAbove
                 <=> (p.accuracy > UncertainAbove \/ p.fix = NO_FIX)
       ELSE DecodeLocation(b) = Invalid
  BY <1>12, <1>14, <1>15
<1> QED BY <1>8, <1>9, <1>16 DEF within

LEMMA LocationReadBack ==
  ASSUME NEW b \in Seq(Byte), DecodeLocation(b) # Invalid
  PROVE  LET read == DecodeLocation(b) IN
         /\ WithinCoordinates(read.lat, read.lng)
         /\ EncodeLocation(read) = b \/ read.fix = NO_FIX
<1> DEFINE r == [lat |-> Signed32(b, 3), lng |-> Signed32(b, 7), altitude |-> Altitude(b),
                 accuracy |-> Accuracy(b), battery |-> b[14], fix |-> b[15]]
<1>1. /\ Len(b) = 15 /\ b[1] = 1 /\ b[2] = 1 /\ WithinCoordinates(Signed32(b, 3), Signed32(b, 7))
      /\ DecodeLocation(b) = r
  BY DEF DecodeLocation, Version
<1>2. /\ r.lat = Signed32(b, 3) /\ r.lng = Signed32(b, 7) /\ r.altitude = Altitude(b)
      /\ r.accuracy = Accuracy(b) /\ r.battery = b[14] /\ r.fix = b[15]
  OBVIOUS
<1> HIDE DEF r
<1>3. WithinCoordinates(r.lat, r.lng) BY <1>1, <1>2
<1>5. /\ Bytes32(Signed32(b, 3)) = <<b[3], b[4], b[5], b[6]>>
      /\ Bytes32(Signed32(b, 7)) = <<b[7], b[8], b[9], b[10]>>
  <2>1. /\ Bytes32(Signed32(b, 3)) = <<b[3], b[3 + 1], b[3 + 2], b[3 + 3]>>
        /\ Bytes32(Signed32(b, 7)) = <<b[7], b[7 + 1], b[7 + 2], b[7 + 3]>>
    <3>1. Len(b) = 15 BY <1>1
    <3>2. 3 \in 1 .. Len(b) /\ 3 + 3 <= Len(b) /\ 7 \in 1 .. Len(b) /\ 7 + 3 <= Len(b) BY <3>1
    <3> QED BY <3>2, SignedBack
  <2> QED BY <2>1
<1>6. Bytes16(Altitude(b)) = <<b[11], b[12]>>
  <2>1. Len(b) = 15 BY <1>1
  <2>4. 11 \in 1 .. Len(b) /\ 12 \in 1 .. Len(b) BY <2>1
  <2>2. b[11] \in Byte /\ b[12] \in Byte BY <2>4
  <2>3. Altitude(b) = Signed8(b[11]) * 256 + b[12] BY DEF Altitude, Signed16
  <2> QED BY <2>2, <2>3, PairBack
<1>4. ASSUME r.fix # NO_FIX PROVE EncodeLocation(r) = b
  <2>1. PICK b1, b2, a1, a2, a3, a4, o1, o2, o3, o4, h, l, c, t, f \in Byte :
          b = <<b1, b2, a1, a2, a3, a4, o1, o2, o3, o4, h, l, c, t, f>>
    BY <1>1, Fifteen
  <2>2. /\ b1 = 1 /\ b2 = 1 /\ b[3] = a1 /\ b[4] = a2 /\ b[5] = a3 /\ b[6] = a4
        /\ b[7] = o1 /\ b[8] = o2 /\ b[9] = o3 /\ b[10] = o4 /\ b[11] = h /\ b[12] = l
        /\ b[13] = c /\ b[14] = t /\ b[15] = f
    BY <1>1, <2>1
  <2>11. Bytes32(r.lat) = <<a1, a2, a3, a4>> /\ Bytes32(r.lng) = <<o1, o2, o3, o4>>
    BY <1>2, <1>5, <2>2
  <2>4. Bytes16(r.altitude) = <<h, l>> BY <1>2, <1>6, <2>2
  <2>5. r.accuracy = c BY <1>2, <1>4, <2>2 DEF Accuracy
  <2>6. Clamp(r.accuracy) = c BY <2>5, Clamping DEF Byte
  <2>7. r.battery = t /\ r.fix = f BY <1>2, <2>2
  <2>8. r.battery \in Byte /\ r.fix \in Byte BY <2>7
  <2>9. EncodeLocation(r) =
          <<1, 1, a1, a2, a3, a4, o1, o2, o3, o4, h, l, c, r.battery, r.fix>>
    BY <2>11, <2>4, <2>6, <2>8, LocationBytes
  <2> QED BY <2>1, <2>2, <2>7, <2>9
<1> QED BY <1>1, <1>3, <1>4

LEMMA Codes ==
  /\ DOMAIN CommandCode = {"SET_REPORT_INTERVAL", "WARNING_SOUND", "STOP_CORRECTION", "REQUEST_STATUS"}
  /\ CommandCode["SET_REPORT_INTERVAL"] = 1 /\ CommandCode["WARNING_SOUND"] = 2
  /\ CommandCode["STOP_CORRECTION"] = 3 /\ CommandCode["REQUEST_STATUS"] = 4
  /\ Range(CommandCode) = {1, 2, 3, 4}
<1>1. /\ DOMAIN CommandCode = {"SET_REPORT_INTERVAL", "WARNING_SOUND", "STOP_CORRECTION", "REQUEST_STATUS"}
      /\ CommandCode["SET_REPORT_INTERVAL"] = 1 /\ CommandCode["WARNING_SOUND"] = 2
      /\ CommandCode["STOP_CORRECTION"] = 3 /\ CommandCode["REQUEST_STATUS"] = 4
  BY DEF CommandCode
<1>2. Range(CommandCode) = {CommandCode[t] : t \in DOMAIN CommandCode} BY DEF Range
<1>3. Range(CommandCode) = {1, 2, 3, 4} BY <1>1, <1>2
<1> QED BY <1>1, <1>3

\* A code has one name.
LEMMA Names ==
  ASSUME NEW n \in {1, 2, 3, 4}
  PROVE  LET t == CHOOSE t \in DOMAIN CommandCode : CommandCode[t] = n IN
         /\ t \in DOMAIN CommandCode /\ CommandCode[t] = n
         /\ \A u \in DOMAIN CommandCode : CommandCode[u] = n => u = t
<1>1. \E t \in DOMAIN CommandCode : CommandCode[t] = n BY Codes
<1>2. \A t, u \in DOMAIN CommandCode : CommandCode[t] = CommandCode[u] => t = u BY Codes
<1> QED BY <1>1, <1>2

\* The device and the server's decoder take the same payloads.
LEMMA DecodersTake ==
  ASSUME NEW b \in Seq(Byte)
  PROVE  LET go == DecodeCommandPayload(b)
             py == DecodeCommandDownlink(b) IN
         /\ (go = Invalid) <=> (py = Invalid)
         /\ go # Invalid => go = [type |-> CommandCode[py.type], seq |-> py.seq, flags |-> py.flags]
<1> DEFINE valid == /\ Len(b) >= 5 /\ b[1] = Version /\ Unsigned16(b, 3) # 0
                    /\ \/ b[2] = 1 /\ Len(b) = 7
                       \/ b[2] = 2 /\ Len(b) = 6
                       \/ b[2] \in {3, 4} /\ Len(b) = 5
           name == CHOOSE t \in DOMAIN CommandCode : CommandCode[t] = b[2]
           field == CASE b[2] = 1 -> Unsigned16(b, 6) [] b[2] = 2 -> b[6] [] OTHER -> 0
           go == [type |-> b[2], seq |-> Unsigned16(b, 3), flags |-> b[5]]
           py == [type |-> name, seq |-> Unsigned16(b, 3), flags |-> b[5], field |-> field]
<1>1. DecodeCommandPayload(b) = IF valid THEN go ELSE Invalid BY DEF DecodeCommandPayload
<1>2. DecodeCommandDownlink(b) = IF WellFormedCommand(b) THEN py ELSE Invalid
  BY DEF DecodeCommandDownlink
<1>3. valid <=> WellFormedCommand(b)
  <2>1. FieldLength(1) = 2 /\ FieldLength(2) = 1 /\ FieldLength(3) = 0 /\ FieldLength(4) = 0
    BY DEF FieldLength
  <2>2. ASSUME WellFormedCommand(b) PROVE valid
    <3>1. /\ Len(b) >= 5 /\ b[1] = Version /\ Unsigned16(b, 3) # 0
          /\ b[2] \in {1, 2, 3, 4} /\ Len(b) = 5 + FieldLength(b[2])
      BY <2>2, Codes DEF WellFormedCommand
    <3>2. CASE b[2] = 1 BY <2>1, <3>1, <3>2
    <3>3. CASE b[2] = 2 BY <2>1, <3>1, <3>3
    <3>4. CASE b[2] \in {3, 4} BY <2>1, <3>1, <3>4
    <3> QED BY <3>1, <3>2, <3>3, <3>4
  <2>3. ASSUME valid PROVE WellFormedCommand(b)
    <3>1. b[2] \in {1, 2, 3, 4} BY <2>3
    <3>2. Len(b) = 5 + FieldLength(b[2])
      <4>1. CASE b[2] = 1 BY <2>1, <2>3, <4>1
      <4>2. CASE b[2] = 2 BY <2>1, <2>3, <4>2
      <4>3. CASE b[2] = 3 BY <2>1, <2>3, <4>3
      <4>4. CASE b[2] = 4 BY <2>1, <2>3, <4>4
      <4> QED BY <3>1, <4>1, <4>2, <4>3, <4>4
    <3> QED BY <2>3, <3>1, <3>2, Codes DEF WellFormedCommand
  <2> QED BY <2>2, <2>3
<1>4. valid => b[2] \in {1, 2, 3, 4} OBVIOUS
<1>5. valid => CommandCode[name] = b[2] BY <1>4, Names
<1>6. go # Invalid /\ py # Invalid BY DEF Invalid
<1>7. /\ py.type = name /\ py.seq = Unsigned16(b, 3) /\ py.flags = b[5] OBVIOUS
<1>8. go = [type |-> b[2], seq |-> Unsigned16(b, 3), flags |-> b[5]] OBVIOUS
<1> HIDE DEF valid, name, field, go, py
<1> QED BY <1>1, <1>2, <1>3, <1>5, <1>6, <1>7, <1>8

\* A duration is rounded up to whole seconds, and is one at least.
LEMMA WholeSeconds ==
  ASSUME NEW ms \in Int
  PROVE  LET n == CeilSeconds(ms) IN
         /\ n \in Int /\ n * 1000 >= ms
         /\ n = 1 \/ n * 1000 < ms + 1000
<1> DEFINE q == (-ms) \div 1000
           r == (-ms) % 1000
<1>1. q \in Int /\ r \in Int /\ 0 <= r /\ r < 1000 /\ -ms = q * 1000 + r OBVIOUS
<1>2. CeilSeconds(ms) = IF 1 >= -q THEN 1 ELSE -q BY <1>1, Larger DEF CeilSeconds
<1> HIDE DEF q, r
<1> QED BY <1>1, <1>2

\* What is written in the payload of a command.
LEMMA CommandBytes ==
  ASSUME NEW c, c.flags \in Byte, c.type \in DOMAIN CommandCode,
         NEW h \in Byte, NEW l \in Byte, Bytes16(c.seq) = <<h, l>>,
         FieldBytes(c) \in Seq(Byte)
  PROVE  LET b == EncodeCommand(c)
             n == Len(FieldBytes(c)) IN
         /\ b \in Seq(Byte) /\ Len(b) = 5 + n
         /\ b[1] = 1 /\ b[2] = CommandCode[c.type] /\ b[3] = h /\ b[4] = l /\ b[5] = c.flags
         /\ n >= 1 => b[6] = FieldBytes(c)[1]
         /\ n >= 2 => b[7] = FieldBytes(c)[2]
<1> DEFINE code == CommandCode[c.type]
           f == c.flags
           tail == FieldBytes(c)
           head == <<1, code>> \o <<h, l>> \o <<f>>
<1>1. 1 \in Byte /\ code \in Byte /\ f \in Byte /\ tail \in Seq(Byte)
  <2>1. code \in {1, 2, 3, 4} BY Codes
  <2>2. code \in Byte /\ 1 \in Byte BY <2>1 DEF Byte
  <2> QED BY <2>2
<1>2. EncodeCommand(c) = head \o tail BY DEF EncodeCommand, Version
<1> HIDE DEF code, f, tail
<1>3. /\ head \in Seq(Byte) /\ Len(head) = 5
      /\ head[1] = 1 /\ head[2] = code /\ head[3] = h /\ head[4] = l /\ head[5] = f
  BY <1>1
<1> HIDE DEF head
<1> DEFINE b == head \o tail
<1>0. /\ b \in Seq(Byte) /\ Len(b) = Len(head) + Len(tail)
      /\ \A i \in 1 .. Len(head) + Len(tail) :
           b[i] = IF i <= Len(head) THEN head[i] ELSE tail[i - Len(head)]
  BY <1>1, <1>3, ConcatProperties
<1> HIDE DEF b
<1>9. Len(tail) \in Nat BY <1>1
<1>4. b \in Seq(Byte) /\ Len(b) = 5 + Len(tail) BY <1>0, <1>3
<1>5. /\ b[1] = 1 /\ b[2] = code /\ b[3] = h /\ b[4] = l /\ b[5] = f
  BY <1>0, <1>3, <1>9
<1>6. Len(tail) >= 1 => b[6] = tail[1] BY <1>0, <1>3, <1>9
<1>7. Len(tail) >= 2 => b[7] = tail[2] BY <1>0, <1>3, <1>9
<1>8. /\ b \in Seq(Byte) /\ Len(b) = 5 + Len(tail)
      /\ b[1] = 1 /\ b[2] = code /\ b[3] = h /\ b[4] = l /\ b[5] = f
      /\ Len(tail) >= 1 => b[6] = tail[1]
      /\ Len(tail) >= 2 => b[7] = tail[2]
  BY <1>4, <1>5, <1>6, <1>7
<1> QED BY <1>2, <1>8 DEF b, code, f, tail

\* A command that can be encoded is read as it was meant.
LEMMA CommandRead ==
  ASSUME NEW c \in Commands, Encodable(c)
  PROVE  LET b == EncodeCommand(c)
             read == DecodeCommandDownlink(b) IN
         /\ b \in Seq(Byte) /\ Len(b) >= 5 /\ Unsigned16(b, 3) = c.seq
         /\ DecodeCommandPayload(b) =
              [type |-> CommandCode[c.type], seq |-> c.seq, flags |-> c.flags]
         /\ read # Invalid /\ read.type = c.type /\ read.seq = c.seq /\ read.flags = c.flags
         /\ c.type = "SET_REPORT_INTERVAL" => read.field = IntervalSeconds(c.fields)
         /\ c.type = "WARNING_SOUND" => read.field = DurationSeconds(c.fields)
<1>1. /\ c.seq \in Uint16 /\ c.seq # 0 /\ c.flags \in Byte /\ c.type \in DOMAIN CommandCode
      /\ c.type = "SET_REPORT_INTERVAL" => IntervalSeconds(c.fields) \in Uint16
      /\ c.type = "WARNING_SOUND" => DurationSeconds(c.fields) \in Byte
  BY DEF Encodable
<1>2. PICK h, l \in Byte : Bytes16(c.seq) = <<h, l>> /\ h * 256 + l = c.seq
  BY SMT, <1>1, FittingNumber, Pair
<1> DEFINE b == EncodeCommand(c)
           code == CommandCode[c.type]
           n == Len(FieldBytes(c))
           field == IF code = 1 THEN IntervalSeconds(c.fields)
                    ELSE IF code = 2 THEN DurationSeconds(c.fields) ELSE 0
<1>3. /\ code \in {1, 2, 3, 4}
      /\ code = 1 <=> c.type = "SET_REPORT_INTERVAL"
      /\ code = 2 <=> c.type = "WARNING_SOUND"
  BY <1>1, Codes
<1>4. /\ FieldBytes(c) \in Seq(Byte) /\ n = FieldLength(code)
      /\ code = 1 => FieldBytes(c)[1] * 256 + FieldBytes(c)[2] = field
      /\ code = 2 => FieldBytes(c)[1] = field
  <2>1. CASE code = 1
    <3>1. FieldBytes(c) = Bytes16(field) /\ field \in Uint16 BY <1>1, <1>3, <2>1 DEF FieldBytes
    <3>2. PICK m, k \in Byte : Bytes16(field) = <<m, k>> /\ m * 256 + k = field
      BY SMT, <3>1, FittingNumber, Pair
    <3> HIDE DEF field
    <3>3. FieldLength(code) = 2 BY <2>1 DEF FieldLength
    <3> QED BY <2>1, <3>1, <3>2, <3>3
  <2>2. CASE code = 2
    <3>1. FieldBytes(c) = <<field>> /\ field \in Byte BY <1>1, <1>3, <2>2 DEF FieldBytes
    <3> HIDE DEF field
    <3>2. FieldLength(code) = 1 BY <2>2 DEF FieldLength
    <3> QED BY <2>2, <3>1, <3>2
  <2>3. CASE code \in {3, 4}
    <3>1. FieldBytes(c) = <<>> BY <1>3, <2>3 DEF FieldBytes
    <3>2. FieldLength(code) = 0 BY <2>3 DEF FieldLength
    <3> QED BY <2>3, <3>1, <3>2
  <2> QED BY <1>3, <2>1, <2>2, <2>3
<1>5. /\ b \in Seq(Byte) /\ Len(b) = 5 + n
      /\ b[1] = 1 /\ b[2] = code /\ b[3] = h /\ b[4] = l /\ b[5] = c.flags
      /\ n >= 1 => b[6] = FieldBytes(c)[1]
      /\ n >= 2 => b[7] = FieldBytes(c)[2]
  BY <1>1, <1>2, <1>4, CommandBytes
<1> HIDE DEF b, code, n
<1>6. Unsigned16(b, 3) = c.seq BY <1>2, <1>5 DEF Unsigned16
<1>7. FieldLength(1) = 2 /\ FieldLength(2) = 1 /\ FieldLength(3) = 0 /\ FieldLength(4) = 0
  BY DEF FieldLength
<1>8. WellFormedCommand(b)
  <2>1. Len(b) >= 5 /\ Len(b) = 5 + FieldLength(b[2]) BY <1>3, <1>4, <1>5, <1>7
  <2>2. b[2] \in Range(CommandCode) BY <1>3, <1>5, Codes
  <2>3. b[1] = Version /\ Unsigned16(b, 3) # 0 BY <1>1, <1>5, <1>6 DEF Version
  <2> QED BY <2>1, <2>2, <2>3 DEF WellFormedCommand
<1> DEFINE name == CHOOSE t \in DOMAIN CommandCode : CommandCode[t] = b[2]
           found == CASE b[2] = 1 -> Unsigned16(b, 6) [] b[2] = 2 -> b[6] [] OTHER -> 0
           py == [type |-> name, seq |-> Unsigned16(b, 3), flags |-> b[5], field |-> found]
<1>9. DecodeCommandDownlink(b) = py BY <1>8 DEF DecodeCommandDownlink
<1>10. name = c.type BY <1>1, <1>3, <1>5, Names DEF code
<1>11. code \in {1, 2} => found = field
  <2>1. CASE code = 1
    <3>1. n = 2 BY <1>4, <1>7, <2>1
    <3>2. b[6] = FieldBytes(c)[1] /\ b[7] = FieldBytes(c)[2] BY <1>5, <3>1
    <3> HIDE DEF field
    <3>3. found = b[6] * 256 + b[6 + 1] BY <1>5, <2>1 DEF Unsigned16
    <3> QED BY <1>4, <2>1, <3>2, <3>3
  <2>2. CASE code = 2
    <3>1. n = 1 BY <1>4, <1>7, <2>2
    <3>2. b[6] = FieldBytes(c)[1] BY <1>5, <3>1
    <3>3. found = b[6] BY <1>5, <2>2
    <3> HIDE DEF field
    <3> QED BY <1>4, <2>2, <3>2, <3>3
  <2> QED BY <2>1, <2>2
<1>12. py # Invalid BY DEF Invalid
<1>13. py.type = name /\ py.seq = Unsigned16(b, 3) /\ py.flags = b[5] /\ py.field = found OBVIOUS
<1> HIDE DEF py, name, found
<1>14. DecodeCommandPayload(b) = [type |-> code, seq |-> c.seq, flags |-> c.flags]
  <2>1. DecodeCommandPayload(b) # Invalid BY <1>5, <1>9, <1>12, DecodersTake
  <2> QED BY <2>1, <1>5, <1>6 DEF DecodeCommandPayload
<1>15. /\ c.type = "SET_REPORT_INTERVAL" => py.field = IntervalSeconds(c.fields)
       /\ c.type = "WARNING_SOUND" => py.field = DurationSeconds(c.fields)
  BY <1>3, <1>11, <1>13
<1>16. Len(b) >= 5 BY <1>8 DEF WellFormedCommand
<1> QED BY <1>5, <1>6, <1>9, <1>10, <1>12, <1>13, <1>14, <1>15, <1>16 DEF b, code

-----------------------------------------------------------------------------
(* The invariant of the protocol: what is on its way is a sequence of      *)
(* bytes, and is what the encoder made of what was meant unless altered;   *)
(* an ACK answers the bytes that were heard.                               *)
InTheAir ==
  /\ link = [data |-> link.data, object |-> link.object]
  /\ link.data \in Seq(Byte)

GoingDown ==
  /\ meant \in Commands /\ Encodable(meant)
  /\ port = 0 /\ altered \in {"no", "down"}
  /\ altered = "no" => link.data = EncodeCommand(meant)

AckMade ==
  /\ meant \in Commands
  /\ Unsigned16(heard, 3) \in Uint16 \ {0}
  /\ altered = "no" => Unsigned16(heard, 3) = meant.seq
  /\ altered # "up" =>
       \E status \in 1 .. 5, error \in Byte :
         /\ link.data = EncodeCommandAck(Unsigned16(heard, 3), status, error)
         /\ status = EXECUTED => DecodeCommandDownlink(heard) # Invalid

LocationMade == meant \in Points /\ (altered = "no" => link.data = EncodeLocation(meant))
ReportMade == meant \in States

ProtocolInv ==
  /\ phase \in {"idle", "down", "up", "done", "refused"}
  /\ InTheAir /\ heard \in Seq(Byte) /\ altered \in {"no", "down", "up"}
  /\ port \in {0, 10, 11, 20}
  /\ phase = "idle" => altered = "no" /\ port = 0
  /\ phase \in {"idle", "down", "up"} => server = Invalid
  /\ phase = "down" => GoingDown
  /\ phase = "up" => \/ port = 20 /\ AckMade
                     \/ port = 10 /\ LocationMade
                     \/ port = 11 /\ ReportMade
  /\ phase = "done" => \/ port = 0 /\ server = Invalid /\ altered = "down"
                       \/ port = 20 /\ AckMade /\ server = DecodeCommandAck(link.data)
                       \/ port = 10 /\ LocationMade /\ server = DecodeUpEvent(link)
                       \/ port = 11 /\ ReportMade /\ server = DecodeStatus(link.data)

LEMMA OtherFormsTyped ==
  ASSUME NEW b \in Seq(Byte), NEW o \in OtherForms(b)
  PROVE  o \in Seq(Byte)
<1>1. StrangeBytes \subseteq Byte BY BytesOK DEF BytesOK
<1>2. CASE \E i \in DOMAIN b, x \in StrangeBytes : o = [b EXCEPT ![i] = x]
  BY <1>1, <1>2
<1>3. CASE \E n \in 0 .. Len(b) - 1 : o = SubSeq(b, 1, n)
  <2>1. PICK n \in 0 .. Len(b) - 1 : o = SubSeq(b, 1, n) BY <1>3
  <2>2. n \in Int /\ \A i \in 1 .. n : b[i] \in Byte BY ElementOfSeq
  <2> QED BY <2>1, <2>2, SubSeqProperties
<1>4. CASE \E x \in StrangeBytes : o = Append(b, x) BY <1>1, <1>4
<1> QED BY <1>2, <1>3, <1>4 DEF OtherForms

LEMMA DownReadAlike ==
  ASSUME InTheAir, GoingDown
  PROVE  ReadAlike
<1>1. DecodersAgree BY DecodersTake DEF DecodersAgree, InTheAir
<1>2. DeviceUnderstands
  <2> SUFFICES ASSUME altered = "no" PROVE DeviceUnderstands BY DEF DeviceUnderstands
  <2> DEFINE read == DecodeCommandDownlink(link.data)
  <2>1. link.data = EncodeCommand(meant) /\ meant \in Commands /\ Encodable(meant) BY DEF GoingDown
  <2>2. /\ DecodeCommandPayload(link.data) =
             [type |-> CommandCode[meant.type], seq |-> meant.seq, flags |-> meant.flags]
        /\ read # Invalid /\ read.type = meant.type /\ read.seq = meant.seq /\ read.flags = meant.flags
        /\ meant.type = "SET_REPORT_INTERVAL" => read.field = IntervalSeconds(meant.fields)
        /\ meant.type = "WARNING_SOUND" => read.field = DurationSeconds(meant.fields)
    BY <2>1, CommandRead
  <2> HIDE DEF read
  <2>3. meant.type = "SET_REPORT_INTERVAL" => read.field = meant.fields.interval_seconds
    <3>1. meant.type = "SET_REPORT_INTERVAL" => IntervalSeconds(meant.fields) # 0
      BY <2>1 DEF Encodable
    <3> QED BY <2>2, <3>1 DEF IntervalSeconds
  <2>4. ASSUME meant.type = "WARNING_SOUND"
        PROVE  /\ "duration_seconds" \in DOMAIN meant.fields => read.field = meant.fields.duration_seconds
               /\ "duration_seconds" \notin DOMAIN meant.fields =>
                    /\ read.field * 1000 >= meant.fields.duration_ms
                    /\ read.field = 1 \/ read.field * 1000 < meant.fields.duration_ms + 1000
    <3>1. read.field = DurationSeconds(meant.fields) /\ DurationSeconds(meant.fields) # 0
      BY <2>1, <2>2, <2>4 DEF Encodable
    <3>2. CASE "duration_seconds" \in DOMAIN meant.fields BY <3>1, <3>2 DEF DurationSeconds
    <3>3. CASE "duration_seconds" \notin DOMAIN meant.fields
      <4>1. "duration_ms" \in DOMAIN meant.fields BY <3>1, <3>3 DEF DurationSeconds
      <4>2. meant.fields.duration_ms \in Int BY <2>1, <4>1, ValuesOK, Zenon DEF ValuesOK
      <4>3. read.field = CeilSeconds(meant.fields.duration_ms) BY <3>1, <3>3, <4>1 DEF DurationSeconds
      <4> QED BY <3>3, <4>2, <4>3, WholeSeconds
    <3> QED BY <3>2, <3>3
  <2> QED BY <2>2, <2>3, <2>4 DEF DeviceUnderstands, read
<1> QED BY <1>1, <1>2 DEF ReadAlike

LEMMA InvReadAlike == ProtocolInv => ReadAlike
<1> SUFFICES ASSUME ProtocolInv PROVE ReadAlike OBVIOUS
<1>1. CASE phase = "down" BY <1>1, DownReadAlike DEF ProtocolInv
<1>2. CASE phase # "down" BY <1>2 DEF ReadAlike, DeviceUnderstands, DecodersAgree
<1> QED BY <1>1, <1>2

\* Points and states have no number, so that they are no commands.
LEMMA NotCommanded ==
  ASSUME meant \in Points \cup States
  PROVE  ~ Commanded
<1>1. CASE meant \in Points
  <2>1. meant \in [lat : Int32, lng : Int32, altitude : Int16, accuracy : Int, battery : Byte, fix : Byte]
    BY <1>1, ValuesOK DEF ValuesOK
  <2>2. DOMAIN meant = {"lat", "lng", "altitude", "accuracy", "battery", "fix"} BY <2>1
  <2> QED BY <2>2 DEF Commanded
<1>2. CASE meant \in States
  <2>1. meant \in [battery : Byte, mv : Uint16, state : Byte, fix : Byte, errors : Byte]
    BY <1>2, ValuesOK DEF ValuesOK
  <2>2. DOMAIN meant = {"battery", "mv", "state", "fix", "errors"} BY <2>1
  <2> QED BY <2>2 DEF Commanded
<1> QED BY <1>1, <1>2

LEMMA InvAckNames == ProtocolInv => AckNamesTheCommand
<1> SUFFICES ASSUME ProtocolInv, phase = "done" PROVE AckNamesTheCommand BY DEF AckNamesTheCommand
<1>1. ASSUME port = 20, altered # "up"
      PROVE  /\ server # Invalid /\ server.seq = Unsigned16(heard, 3)
             /\ server.status = EXECUTED => DecodeCommandDownlink(heard) # Invalid
             /\ altered = "no" => server.seq = meant.seq
  <2>1. AckMade /\ server = DecodeCommandAck(link.data) BY <1>1 DEF ProtocolInv
  <2>2. PICK status \in 1 .. 5, error \in Byte :
          /\ link.data = EncodeCommandAck(Unsigned16(heard, 3), status, error)
          /\ status = EXECUTED => DecodeCommandDownlink(heard) # Invalid
    BY <1>1, <2>1 DEF AckMade
  <2> DEFINE n == Unsigned16(heard, 3)
  <2>5. n \in Uint16 \ {0} BY <2>1 DEF AckMade
  <2> HIDE DEF n
  <2>6. DecodeCommandAck(EncodeCommandAck(n, status, error)) = [seq |-> n, status |-> status, error |-> error]
        /\ DecodeCommandAck(EncodeCommandAck(n, status, error)) # Invalid
    BY <2>5, AckRead
  <2>7. link.data = EncodeCommandAck(n, status, error) /\ server = DecodeCommandAck(link.data)
    BY <2>1, <2>2 DEF n
  <2>3. server = [seq |-> n, status |-> status, error |-> error] /\ server # Invalid
    BY <2>6, <2>7
  <2>4. altered = "no" => Unsigned16(heard, 3) = meant.seq BY <2>1 DEF AckMade
  <2> QED BY <2>2, <2>3, <2>4 DEF n
<1>2. Commanded /\ altered = "no" => port = 20
  BY NotCommanded DEF ProtocolInv, LocationMade, ReportMade
<1> QED BY <1>1, <1>2 DEF AckNamesTheCommand

LEMMA InvUplinks == ProtocolInv => UplinksArrive
<1> SUFFICES ASSUME ProtocolInv, phase = "done" PROVE UplinksArrive
  BY DEF UplinksArrive, LocationArrives, ReadBack
<1>0. link.data \in Seq(Byte) BY DEF ProtocolInv, InTheAir
<1>1. LocationArrives
  <2> SUFFICES ASSUME port = 10, altered = "no", link.object = NoObject PROVE LocationArrives
    BY DEF LocationArrives
  <2>1. meant \in Points /\ link.data = EncodeLocation(meant) /\ server = DecodeUpEvent(link)
    BY DEF ProtocolInv, LocationMade
  <2>2. server = DecodeLocation(link.data) BY <2>1 DEF DecodeUpEvent, NoObject
  <2> QED BY <2>1, <2>2, LocationRead DEF LocationArrives
<1>2. ReadBack
  <2> SUFFICES ASSUME server # Invalid PROVE ReadBack BY DEF ReadBack
  <2>1. CASE port = 20
    <3>1. server = DecodeCommandAck(link.data) BY <2>1 DEF ProtocolInv
    <3>2. EncodeCommandAck(server.seq, server.status, server.error) = link.data
      BY <1>0, <3>1, AckReadBack
    <3> QED BY <2>1, <3>2 DEF ReadBack
  <2>2. CASE port = 11
    <3>1. server = DecodeStatus(link.data) BY <2>2 DEF ProtocolInv
    <3>2. EncodeStatus(server) = link.data BY <1>0, <3>1, StatusReadBack
    <3> QED BY <2>2, <3>2 DEF ReadBack
  <2>3. CASE port = 10
    <3>1. server = DecodeUpEvent(link) BY <2>3 DEF ProtocolInv
    <3>2. CASE {"lat", "lng"} \subseteq DOMAIN link.object
      <4>1. server = link.object /\ WithinCoordinates(link.object.lat, link.object.lng)
        BY <3>1, <3>2 DEF DecodeUpEvent
      <4> QED BY <2>3, <3>2, <4>1 DEF ReadBack
    <3>3. CASE ~ ({"lat", "lng"} \subseteq DOMAIN link.object)
      <4>1. server = DecodeLocation(link.data) BY <3>1, <3>3 DEF DecodeUpEvent
      <4>2. /\ WithinCoordinates(server.lat, server.lng)
            /\ EncodeLocation(server) = link.data \/ server.fix = NO_FIX
        BY <1>0, <4>1, LocationReadBack
      <4> QED BY <2>3, <4>2 DEF ReadBack
    <3> QED BY <3>2, <3>3
  <2>4. port \in {10, 11, 20} BY DEF ProtocolInv
  <2> QED BY <2>1, <2>2, <2>3, <2>4
<1> QED BY <1>1, <1>2 DEF UplinksArrive

\* Every encoder writes bytes.
LEMMA EncodersTyped ==
  /\ \A c \in Commands : Encodable(c) => EncodeCommand(c) \in Seq(Byte)
  /\ \A p \in Points : EncodeLocation(p) \in Seq(Byte)
  /\ \A s \in States : EncodeStatus(s) \in Seq(Byte)
<1>1. ASSUME NEW c \in Commands, Encodable(c) PROVE EncodeCommand(c) \in Seq(Byte)
  BY <1>1, CommandRead
<1>2. ASSUME NEW p \in Points PROVE EncodeLocation(p) \in Seq(Byte)
  BY LocationRead
<1>3. ASSUME NEW s \in States PROVE EncodeStatus(s) \in Seq(Byte)
  <2>1. s \in [battery : Byte, mv : Uint16, state : Byte, fix : Byte, errors : Byte]
    BY ValuesOK DEF ValuesOK
  <2>2. s.battery \in Byte /\ s.mv \in Uint16 /\ s.state \in Byte /\ s.fix \in Byte /\ s.errors \in Byte
    BY <2>1
  <2>3. PICK h, l \in Byte : Bytes16(s.mv) = <<h, l>> BY SMT, <2>2, FittingNumber, Pair
  <2>4. EncodeStatus(s) = <<1, 2, s.battery, h, l, s.state, s.fix, s.errors>>
    BY <2>2, <2>3, StatusBytes
  <2>5. 1 \in Byte /\ 2 \in Byte BY DEF Byte
  <2> QED BY <2>2, <2>4, <2>5
<1> QED BY <1>1, <1>2, <1>3

LEMMA ProtocolInitInv == ProtocolInit => ProtocolInv
BY DEF ProtocolInit, ProtocolInv, InTheAir, Message, NoObject, Invalid

\* Two bytes make a number that fits.
LEMMA ReadNumber ==
  ASSUME NEW b \in Seq(Byte), Len(b) >= 4, Unsigned16(b, 3) # 0
  PROVE  Unsigned16(b, 3) \in Uint16 \ {0}
<1>1. Len(b) \in Nat /\ \A i \in 1 .. Len(b) : b[i] \in Byte BY ElementOfSeq
<1>2. b[3] \in Byte /\ b[4] \in Byte BY <1>1
<1> DEFINE h == b[3]
           l == b[4]
<1>3. Unsigned16(b, 3) = h * 256 + l BY DEF Unsigned16
<1>4. h \in Byte /\ l \in Byte BY <1>2
<1> HIDE DEF h, l
<1>5. h * 256 + l \in Uint16 BY <1>4, PairBounds
<1> QED BY <1>3, <1>5

\* What either way to answer a command sends is an ACK of what was heard.
LEMMA SendAckInv ==
  ASSUME ProtocolInv, phase = "down", NEW status \in 1 .. 5, NEW error \in Byte,
         Len(link.data) >= 4, Unsigned16(link.data, 3) # 0,
         status = EXECUTED => DecodeCommandDownlink(link.data) # Invalid,
         SendAck(Unsigned16(link.data, 3), status, error), heard' = link.data,
         UNCHANGED <<meant, altered, server>>
  PROVE  ProtocolInv'
<1> DEFINE n == Unsigned16(link.data, 3)
<1>1. /\ GoingDown /\ link.data \in Seq(Byte) /\ server = Invalid /\ altered \in {"no", "down", "up"}
  BY DEF ProtocolInv, InTheAir
<1>2. n \in Uint16 \ {0} BY <1>1, ReadNumber
<1>3. altered = "no" => n = meant.seq BY <1>1, CommandRead DEF GoingDown
<1>4. EncodeCommandAck(n, status, error) \in Seq(Byte)
  <2> HIDE DEF n
  <2> QED BY <1>2, AckRead
<1>5. /\ phase' = "up" /\ port' = 20
      /\ link' = [data |-> EncodeCommandAck(n, status, error), object |-> NoObject]
  BY DEF SendAck, Message
<1>6. Unsigned16(heard', 3) = n OBVIOUS
<1>7. InTheAir'
  <2> HIDE DEF n
  <2> QED BY <1>4, <1>5 DEF InTheAir
<1>8. link'.data = EncodeCommandAck(n, status, error) BY <1>5, Zenon
<1>9. AckMade'
  <2>1. meant' \in Commands /\ meant' = meant /\ altered' = altered BY <1>1 DEF GoingDown
  <2>2. DecodeCommandDownlink(heard') = DecodeCommandDownlink(link.data) OBVIOUS
  <2>3. Unsigned16(heard, 3)' = n BY <1>6
  <2> HIDE DEF n
  <2> QED BY <1>2, <1>3, <1>8, <2>1, <2>2, <2>3 DEF AckMade
<1> HIDE DEF n
<1> QED BY <1>1, <1>5, <1>7, <1>9 DEF ProtocolInv

LEMMA ProtocolNextInv == ProtocolInv /\ [ProtocolNext]_protocolVars => ProtocolInv'
<1> SUFFICES ASSUME ProtocolInv, [ProtocolNext]_protocolVars PROVE ProtocolInv' OBVIOUS
<1>1. ASSUME NEW c \in Commands, SendCommand(c) PROVE ProtocolInv'
  <2>1. /\ phase' = "down" /\ meant' = c /\ Encodable(c) /\ port' = 0 /\ altered' = "no" /\ server' = Invalid
        /\ heard' \in Seq(Byte) /\ link' = [data |-> EncodeCommand(c), object |-> NoObject]
    BY <1>1 DEF SendCommand, ProtocolInv, Message
  <2>2. EncodeCommand(c) \in Seq(Byte) BY <2>1, EncodersTyped
  <2>3. InTheAir' /\ GoingDown' BY <2>1, <2>2 DEF InTheAir, GoingDown
  <2> QED BY <2>1, <2>3 DEF ProtocolInv
<1>2. ASSUME NEW c \in Commands, RefuseCommand(c) PROVE ProtocolInv'
  BY <1>2 DEF RefuseCommand, ProtocolInv, InTheAir
<1>3. ASSUME NEW p \in {10, 11}, NEW what, NEW bytes \in Seq(Byte), NEW o,
             Uplink(p, what, [data |-> bytes, object |-> o]),
             \/ p = 10 /\ what \in Points /\ bytes = EncodeLocation(what)
             \/ p = 11 /\ what \in States
      PROVE  ProtocolInv'
  <2>1. /\ phase' = "up" /\ meant' = what /\ port' = p /\ altered' = "no" /\ server' = Invalid
        /\ heard' \in Seq(Byte) /\ link' = [data |-> bytes, object |-> o]
    BY <1>3 DEF Uplink, ProtocolInv
  <2>2. InTheAir' BY <2>1 DEF InTheAir
  <2>3. (p = 10 /\ LocationMade') \/ (p = 11 /\ ReportMade') BY <1>3, <2>1 DEF LocationMade, ReportMade
  <2> QED BY <2>1, <2>2, <2>3 DEF ProtocolInv
<1>4. ASSUME NEW p \in Points, SendLocation(p) PROVE ProtocolInv'
  BY <1>3, <1>4, EncodersTyped DEF SendLocation, Message
<1>5. ASSUME NEW p \in Points, NEW o \in Objects, SendObject(p, o) PROVE ProtocolInv'
  BY <1>3, <1>5, EncodersTyped DEF SendObject
<1>6. ASSUME NEW s \in States, SendStatus(s) PROVE ProtocolInv'
  BY <1>3, <1>6, EncodersTyped DEF SendStatus, Message
<1>7. ASSUME Alter PROVE ProtocolInv'
  <2>1. PICK b \in OtherForms(link.data) : link' = [link EXCEPT !.data = b] BY <1>7 DEF Alter
  <2>2. link = [data |-> link.data, object |-> link.object] /\ link.data \in Seq(Byte)
    BY DEF ProtocolInv, InTheAir
  <2>3. b \in Seq(Byte) BY <2>2, OtherFormsTyped
  <2>4. InTheAir' BY <2>1, <2>2, <2>3 DEF InTheAir
  <2>5. /\ phase \in {"down", "up"} /\ altered' = phase /\ phase' = phase
        /\ UNCHANGED <<port, meant, heard, server>>
    BY <1>7 DEF Alter
  <2>6. phase = "down" => GoingDown' BY <2>5 DEF ProtocolInv, GoingDown
  <2>7. phase = "up" => (port = 20 /\ AckMade') \/ (port = 10 /\ LocationMade') \/ (port = 11 /\ ReportMade')
    BY <2>5 DEF ProtocolInv, AckMade, LocationMade, ReportMade
  <2> QED BY <2>4, <2>5, <2>6, <2>7 DEF ProtocolInv
<1>8. ASSUME AckCommand PROVE ProtocolInv'
  <2>1. PICK a \in Answers : SendAck(DecodeCommandPayload(link.data).seq, a.status, a.error)
    BY <1>8 DEF AckCommand
  <2>2. a \in [status : 1 .. 5, error : Byte] BY ValuesOK DEF ValuesOK
  <2>3. /\ phase = "down" /\ DecodeCommandPayload(link.data) # Invalid /\ heard' = link.data
        /\ UNCHANGED <<meant, altered, server>>
    BY <1>8 DEF AckCommand
  <2>4. link.data \in Seq(Byte) BY DEF ProtocolInv, InTheAir
  <2>5. /\ Len(link.data) >= 4 /\ Unsigned16(link.data, 3) # 0
        /\ DecodeCommandPayload(link.data).seq = Unsigned16(link.data, 3)
    BY <2>3, <2>4 DEF DecodeCommandPayload
  <2>6. DecodeCommandDownlink(link.data) # Invalid BY <2>3, <2>4, DecodersTake
  <2>7. a.status \in 1 .. 5 /\ a.error \in Byte BY <2>2
  <2> QED BY <2>1, <2>3, <2>5, <2>6, <2>7, SendAckInv
<1>9. ASSUME AckInvalidCommand PROVE ProtocolInv'
  <2>1. /\ phase = "down" /\ SendAck(ExtractCommandSeq(link.data), FAILED, INVALID_PAYLOAD)
        /\ ExtractCommandSeq(link.data) # 0 /\ heard' = link.data /\ UNCHANGED <<meant, altered, server>>
    BY <1>9 DEF AckInvalidCommand
  <2>2. link.data \in Seq(Byte) BY DEF ProtocolInv, InTheAir
  <2>3. /\ Len(link.data) >= 4 /\ Unsigned16(link.data, 3) # 0
        /\ ExtractCommandSeq(link.data) = Unsigned16(link.data, 3)
    BY <2>1, <2>2 DEF ExtractCommandSeq
  <2>4. FAILED \in 1 .. 5 /\ INVALID_PAYLOAD \in Byte /\ FAILED # EXECUTED
    BY DEF FAILED, INVALID_PAYLOAD, EXECUTED, Byte
  <2> QED BY <2>1, <2>3, <2>4, SendAckInv
<1>10. ASSUME IgnoreCommand PROVE ProtocolInv'
  <2>1. /\ phase = "down" /\ DecodeCommandPayload(link.data) = Invalid /\ phase' = "done"
        /\ heard' = link.data /\ UNCHANGED <<port, meant, link, altered, server>>
    BY <1>10 DEF IgnoreCommand
  <2>2. GoingDown /\ InTheAir /\ server = Invalid BY <2>1 DEF ProtocolInv
  <2>3. altered # "no"
    <3> SUFFICES ASSUME altered = "no" PROVE FALSE OBVIOUS
    <3>1. DecodeCommandPayload(link.data) =
            [type |-> CommandCode[meant.type], seq |-> meant.seq, flags |-> meant.flags]
      BY <2>2, CommandRead DEF GoingDown
    <3> QED BY <2>1, <3>1 DEF Invalid
  <2> QED BY <2>1, <2>2, <2>3 DEF ProtocolInv, InTheAir, GoingDown
<1>11. ASSUME ReadUplink PROVE ProtocolInv'
  <2>1. phase = "up" /\ phase' = "done" /\ UNCHANGED <<port, meant, link, heard, altered>>
    BY <1>11 DEF ReadUplink
  <2>2. /\ port = 20 => server' = DecodeCommandAck(link.data)
        /\ port = 10 => server' = DecodeUpEvent(link)
        /\ port = 11 => server' = DecodeStatus(link.data)
    BY <1>11 DEF ReadUplink
  <2>3. (port = 20 /\ AckMade') \/ (port = 10 /\ LocationMade') \/ (port = 11 /\ ReportMade')
    BY <2>1 DEF ProtocolInv, AckMade, LocationMade, ReportMade
  <2>4. InTheAir' BY <2>1 DEF ProtocolInv, InTheAir
  <2>5. /\ DecodeCommandAck(link.data)' = DecodeCommandAck(link.data)
        /\ DecodeUpEvent(link)' = DecodeUpEvent(link) /\ DecodeStatus(link.data)' = DecodeStatus(link.data)
    BY <2>1
  <2> QED BY <2>1, <2>2, <2>3, <2>4, <2>5 DEF ProtocolInv
<1>12. CASE UNCHANGED protocolVars
  BY <1>12 DEF protocolVars, ProtocolInv, InTheAir, GoingDown, AckMade, LocationMade, ReportMade
<1> QED
  BY <1>1, <1>2, <1>4, <1>5, <1>6, <1>7, <1>8, <1>9, <1>10, <1>11, <1>12 DEF ProtocolNext

LEMMA ProtocolInvariance == ProtocolSpec => []ProtocolInv
BY ProtocolInitInv, ProtocolNextInv, PTL DEF ProtocolSpec

\* The variables of an exchange keep their types, whatever another firmware
\* puts in a payload: what is on its way is a sequence of bytes.
THEOREM ProtocolTyping == ProtocolSpec => []ProtocolTypeOK
<1>1. ASSUME NEW b \in Seq(Byte) PROVE Range(b) \subseteq Byte BY DEF Range
<1>2. ProtocolInv => ProtocolTypeOK BY <1>1 DEF ProtocolInv, InTheAir, ProtocolTypeOK
<1> QED BY <1>2, ProtocolInvariance, PTL

\* Whatever the callers' numbers are: a command that passed the encoder's ranges
\* is read by the device as it was meant, a sound lasting less than a second
\* longer than asked, and the two decoders agree on every sequence of bytes
\* (downlink_encoder.py:62 and 179, payload.go:53).
THEOREM CommandsReadAlike == ProtocolSpec => []ReadAlike
BY InvReadAlike, ProtocolInvariance, PTL

\* An ACK that was not altered on its way up names the command in the bytes that
\* the device heard, whichever they are, and EXECUTED is said of one that can be
\* decoded only (device.go:300, payload_codec.py:140).
THEOREM AcksName == ProtocolSpec => []AckNamesTheCommand
BY InvAckNames, ProtocolInvariance, PTL

\* A location arrives as it was sent for all coordinates, altitudes and accuracies,
\* and nothing is read into a payload of 8 or 15 bytes that its encoder would not
\* have written (payload_codec.py:52 and 82, decoder.py:12).
THEOREM UplinksKept == ProtocolSpec => []UplinksArrive
BY InvUplinks, ProtocolInvariance, PTL

-----------------------------------------------------------------------------
(* DeviceSimulator.  A data frame is in line - published, in the sender's  *)
(* hands, in the channel - or in the hands of the goroutine that waits for *)
(* room.  The inductive invariant SimIInv says what is under way downlink  *)
(* (DownInv), whose keys may be used (KeysInv, FrameKeysInv), which numbers*)
(* the frames in line and in hands have (FramesInv), and that the          *)
(* acknowledgements in line, those taken and the flag are together no more *)
(* than the confirmed downlinks that were heard (AcksInv).                 *)
KeyPair == [accept : Nat, request : Nat]
KeySet == [Parts -> KeyPair]
JoinFrame == [kind : {"join"}, nonce : Nat]
DataFrame == [kind : {"data"}, fcnt : Nat, ack : BOOLEAN, command : Goroutine, keys : KeySet]
UplinkFrame == JoinFrame \cup DataFrame
AcceptFrame == [kind : {"accept"}, nonce : Nat]
CommandFrame == [kind : {"command"}, session : Nat, command : Command, confirmed : BOOLEAN]

AnswerState == [at : {"none", "silent", "delay", "ack", "count", "ended"} \cup Holding, ack : BOOLEAN,
                frame : DataFrame \cup {NoFrame}]
UplinkState == [at : {"top", "join", "ack", "count", "ended"} \cup Holding, ack : BOOLEAN,
                frame : UplinkFrame \cup {NoFrame}]
DownlinkState == [at : {"idle", "appSKey", "nwkSKey", "store", "ended"}, frame : AcceptFrame \cup CommandFrame \cup {NoFrame},
                  derived : KeySet]

SimTypes ==
  /\ cancelled \in BOOLEAN /\ activated \in BOOLEAN /\ pendingAck \in BOOLEAN
  /\ uplink \in UplinkState
  /\ uplink.at = "push" => uplink.frame \in UplinkFrame
  /\ uplink.at \in Parts => uplink.frame \in DataFrame
  /\ answer \in [Command -> AnswerState]
  /\ \A c \in Command : answer[c].at \in Holding => answer[c].frame \in DataFrame
  /\ sender \in [at : {"idle", "publish", "ended"}, ack : BOOLEAN, frame : UplinkFrame \cup {NoFrame}]
  /\ sender.at = "publish" => sender.frame \in UplinkFrame
  /\ downlink \in DownlinkState
  /\ downlink.at \in {"appSKey", "nwkSKey"} => downlink.frame \in AcceptFrame
  /\ outboundUplinks \in Seq(UplinkFrame) /\ published \in Seq(UplinkFrame)
  /\ downlinkFrames \in Seq(AcceptFrame \cup CommandFrame)
  /\ fCntUp \in Nat /\ devNonce \in Nat /\ keys \in KeySet
  /\ accepted \in SUBSET (1 .. MaxJoins)
  /\ downs \in Seq(BOOLEAN) /\ Len(downs) <= MaxDownlinks

\* Commands are numbered from one, so the location is none of them.
LEMMA Numbers ==
  /\ Command = 1 .. MaxDownlinks /\ MaxDownlinks \in Nat /\ Location \notin Command
  /\ Goroutine = Command \cup {Location} /\ IsFiniteSet(Command) /\ IsFiniteSet(Goroutine)
<1>1. IsFiniteSet(1 .. MaxDownlinks) BY FS_Interval, BoundsAreNumbers
<1>2. IsFiniteSet(Goroutine) BY <1>1, FS_AddElement DEF Goroutine, Command
<1> QED BY <1>1, <1>2, BoundsAreNumbers DEF Command, Goroutine, Location

\* The session is the greatest of the joins that the network accepted.
LEMMA SessionIsAccepted ==
  ASSUME SimTypes, accepted # {}
  PROVE  Session \in accepted
<1> DEFINE above == {n \in Nat : \A o \in accepted : o <= n}
           m == Min(above)
<1>1. MaxJoins \in Nat /\ \A o \in accepted : o \in Nat /\ 1 <= o /\ o <= MaxJoins
  BY BoundsAreNumbers DEF SimTypes
<1>2. above \in SUBSET Nat /\ MaxJoins \in above BY <1>1
<1>3. m \in above /\ \A n \in above : m <= n BY <1>2, MinOfNumbers
<1>4. m \in Nat /\ \A o \in accepted : o <= m BY <1>3
<1>5. \A n \in Nat : (\A o \in accepted : o <= n) => m <= n BY <1>3
<1> HIDE DEF m, above
<1>6. m \in accepted
  <2> SUFFICES ASSUME m \notin accepted PROVE FALSE OBVIOUS
  <2>1. PICK a \in accepted : TRUE OBVIOUS
  <2>2. 1 <= m BY <1>1, <1>4, <2>1
  <2>3. m - 1 \in Nat /\ \A o \in accepted : o <= m - 1
    <3>1. \A o \in accepted : o # m OBVIOUS
    <3> QED BY <1>1, <1>4, <2>2, <3>1
  <2>4. m <= m - 1 BY <1>5, <2>3
  <2> QED BY <1>4, <2>4
<1>7. \E n \in accepted : \A o \in accepted : o <= n BY <1>4, <1>6
<1> QED BY <1>7 DEF Session

\* The line is a sequence of frames, and its data frames are data frames.
LEMMA LineFacts ==
  ASSUME SimTypes
  PROVE  /\ Held \in Seq(UplinkFrame) /\ Line \in Seq(UplinkFrame)
         /\ Len(Line) \in Nat /\ DOMAIN Line = 1 .. Len(Line)
         /\ \A i \in DataAt : i \in 1 .. Len(Line) /\ Line[i] \in DataFrame
<1>1. Held \in Seq(UplinkFrame) BY DEF SimTypes, Held
<1>2. Line \in Seq(UplinkFrame) BY <1>1 DEF SimTypes, Line
<1>3. \A f \in UplinkFrame : IsData(f) => f \in DataFrame
  BY DEF UplinkFrame, JoinFrame, IsData
<1> QED BY <1>1, <1>2, <1>3 DEF DataAt

\* A step of one goroutine changes its own state.
LEMMA AnswerChanges ==
  ASSUME SimTypes, NEW c \in Command, NEW new \in AnswerState, answer' = [answer EXCEPT ![c] = new]
  PROVE  /\ answer' \in [Command -> AnswerState]
         /\ answer'[c] = new /\ \A d \in Command \ {c} : answer'[d] = answer[d]
         /\ (new.at \in Holding => new.frame \in DataFrame) =>
              \A d \in Command : answer'[d].at \in Holding => answer'[d].frame \in DataFrame
<1>1. answer \in [Command -> AnswerState] /\ \A d \in Command : answer[d].at \in Holding => answer[d].frame \in DataFrame
  BY DEF SimTypes
<1>2. answer'[c] = new /\ (\A d \in Command \ {c} : answer'[d] = answer[d]) /\ answer' \in [Command -> AnswerState]
  BY <1>1
<1> QED BY <1>1, <1>2

\* A part more of a data frame.
LEMMA ReadTypes ==
  ASSUME SimTypes, NEW f \in DataFrame, NEW p \in Parts
  PROVE  /\ WithPart(f, p) \in DataFrame
         /\ WithPart(f, p).fcnt = f.fcnt /\ WithPart(f, p).ack = f.ack /\ WithPart(f, p).command = f.command
         /\ WithPart(f, p).keys = [f.keys EXCEPT ![p] = keys[p]] /\ IsData(WithPart(f, p))
         /\ NextRead[p] \in Holding
<1>1. f.fcnt \in Nat /\ f.ack \in BOOLEAN /\ f.command \in Goroutine /\ f.keys \in KeySet BY DEF DataFrame
<1>2. keys[p] \in KeyPair BY DEF SimTypes, KeySet
<1>3. [f.keys EXCEPT ![p] = keys[p]] \in KeySet BY <1>1, <1>2 DEF KeySet
<1>4. NextRead[p] \in Holding BY DEF NextRead, Holding, Parts
<1> QED BY <1>1, <1>3, <1>4 DEF WithPart, Data, DataFrame, IsData

\* Types of the steps.
LEMMA NextTypes == SimTypes /\ [DeviceNext]_deviceVars => SimTypes'
<1> SUFFICES ASSUME SimTypes, [DeviceNext]_deviceVars PROVE SimTypes'
  OBVIOUS
<1> USE DEF loops, device, network, Holding
<1>1. CASE LoopTop
  <2>1. uplink' \in UplinkState /\ uplink'.at \notin Holding
    BY <1>1 DEF LoopTop, At, UplinkState, Parts
  <2> QED BY <1>1, <2>1 DEF LoopTop, SimTypes
<1>2. CASE JoinRequest
  <2>1. uplink' \in UplinkState /\ uplink'.at = "push" /\ uplink'.frame \in UplinkFrame
    BY <1>2 DEF JoinRequest, SimTypes, At, Join, UplinkState, UplinkFrame, JoinFrame
  <2>2. uplink'.at \notin Parts BY <2>1 DEF Parts
  <2>3. devNonce' \in Nat BY <1>2 DEF JoinRequest, SimTypes
  <2>4. /\ UNCHANGED <<cancelled, answer, downlink, sender, outboundUplinks, downlinkFrames, activated, keys>>
        /\ UNCHANGED <<pendingAck, fCntUp, published, accepted, downs>>
    BY <1>2 DEF JoinRequest
  <2> QED BY <2>1, <2>2, <2>3, <2>4 DEF SimTypes
<1>3. CASE UplinkTakesAck
  <2>1. uplink' \in UplinkState /\ uplink'.at \notin Holding /\ pendingAck' \in BOOLEAN
    BY <1>3 DEF UplinkTakesAck, AfterConsume, SimTypes, At, UplinkState, Parts
  <2>2. /\ UNCHANGED <<cancelled, answer, downlink, sender, outboundUplinks, downlinkFrames>>
        /\ UNCHANGED <<activated, devNonce, keys, fCntUp, published, accepted, downs>>
    BY <1>3 DEF UplinkTakesAck
  <2> QED BY <2>1, <2>2 DEF SimTypes
<1>4. CASE UplinkTakesCount
  <2>1. Data(fCntUp, uplink.ack, Location, NoKeys) \in DataFrame
    BY Numbers DEF Data, DataFrame, SimTypes, UplinkState, KeySet, KeyPair, NoKeys, NoPart, Part
  <2>2. fCntUp + 1 \in Nat BY DEF SimTypes
  <2>3. uplink' \in UplinkState /\ uplink'.at # "push" /\ uplink'.frame \in DataFrame
    BY <1>4, <2>1 DEF UplinkTakesCount, SimTypes, At, UplinkState, UplinkFrame, Parts
  <2> QED BY <1>4, <2>2, <2>3 DEF UplinkTakesCount, AfterFCnt, SimTypes
<1>5. CASE UplinkPushes
  <2>1. uplink' \in UplinkState /\ uplink'.at \notin Holding
    BY <1>5 DEF UplinkPushes, At, UplinkState, Parts
  <2>2. outboundUplinks' \in Seq(UplinkFrame) BY <1>5 DEF UplinkPushes, SimTypes
  <2> QED BY <1>5, <2>1, <2>2 DEF UplinkPushes, SimTypes
<1>50. CASE UplinkReadsPart
  <2>1. uplink.frame \in DataFrame /\ uplink.at \in Parts /\ uplink.ack \in BOOLEAN
    BY <1>50 DEF UplinkReadsPart, SimTypes, UplinkState
  <2>2. WithPart(uplink.frame, uplink.at) \in DataFrame /\ NextRead[uplink.at] \in Holding
    BY <2>1, ReadTypes
  <2>3. uplink' \in UplinkState /\ uplink'.frame \in DataFrame
    BY <1>50, <2>1, <2>2 DEF UplinkReadsPart, At, UplinkState, UplinkFrame
  <2>4. DataFrame \subseteq UplinkFrame BY DEF UplinkFrame
  <2> QED BY <1>50, <2>3, <2>4 DEF UplinkReadsPart, SimTypes
<1>6. ASSUME NEW c \in Command, AnswerGoroutine(c) PROVE SimTypes'
  <2>0. answer[c] \in AnswerState /\ (answer[c].at \in Holding => answer[c].frame \in DataFrame)
    BY DEF SimTypes
  <2>1. CASE AnswerDelay(c)
    <3>1. PICK next \in {"ack", "ended"} : answer' = [answer EXCEPT ![c].at = next]
      BY <2>1 DEF AnswerDelay
    <3> DEFINE new == [answer[c] EXCEPT !.at = next]
    <3>2. new \in AnswerState /\ new.at \notin Holding BY <2>0 DEF AnswerState, Parts
    <3>3. answer' = [answer EXCEPT ![c] = new] BY <3>1
    <3>4. answer' \in [Command -> AnswerState] /\ \A d \in Command : answer'[d].at \in Holding => answer'[d].frame \in DataFrame
      BY <3>2, <3>3, AnswerChanges
    <3>5. UNCHANGED <<cancelled, uplink, downlink, sender, outboundUplinks, downlinkFrames>>
      BY <2>1 DEF AnswerDelay
    <3>6. UNCHANGED <<activated, devNonce, keys, pendingAck, fCntUp, published, accepted, downs>>
      BY <2>1 DEF AnswerDelay
    <3> QED BY <3>4, <3>5, <3>6 DEF SimTypes
  <2>2. CASE AnswerTakesAck(c)
    <3> DEFINE new == At("count", pendingAck, NoFrame)
    <3>1. new \in AnswerState /\ new.at \notin Holding BY DEF AnswerState, At, SimTypes, Parts
    <3>2. answer' = [answer EXCEPT ![c] = new] BY <2>2 DEF AnswerTakesAck
    <3>3. answer' \in [Command -> AnswerState] /\ \A d \in Command : answer'[d].at \in Holding => answer'[d].frame \in DataFrame
      BY <3>1, <3>2, AnswerChanges
    <3>4. UNCHANGED <<cancelled, uplink, downlink, sender, outboundUplinks, downlinkFrames>>
      BY <2>2 DEF AnswerTakesAck, AfterConsume
    <3>5. UNCHANGED <<activated, devNonce, keys, fCntUp, published, accepted, downs>> /\ pendingAck' \in BOOLEAN
      BY <2>2 DEF AnswerTakesAck, AfterConsume
    <3> QED BY <3>3, <3>4, <3>5 DEF SimTypes
  <2>3. CASE AnswerTakesCount(c)
    <3> DEFINE new == At("address", answer[c].ack, Data(fCntUp, answer[c].ack, c, NoKeys))
    <3>1. Data(fCntUp, answer[c].ack, c, NoKeys) \in DataFrame
      BY <2>0, Numbers DEF Data, DataFrame, SimTypes, AnswerState, KeySet, KeyPair, NoKeys, NoPart, Part
    <3>2. fCntUp + 1 \in Nat BY DEF SimTypes
    <3>3. new \in AnswerState /\ new.frame \in DataFrame BY <2>0, <3>1 DEF AnswerState, At, Parts
    <3>4. answer' = [answer EXCEPT ![c] = new] BY <2>3 DEF AnswerTakesCount
    <3>5. answer' \in [Command -> AnswerState] /\ \A d \in Command : answer'[d].at \in Holding => answer'[d].frame \in DataFrame
      BY <3>3, <3>4, AnswerChanges
    <3>6. UNCHANGED <<cancelled, uplink, downlink, sender, outboundUplinks, downlinkFrames>>
      BY <2>3, <3>2 DEF AnswerTakesCount, AfterFCnt
    <3>7. UNCHANGED <<activated, devNonce, keys, pendingAck, published, accepted, downs>> /\ fCntUp' \in Nat
      BY <2>3, <3>2 DEF AnswerTakesCount, AfterFCnt
    <3> QED BY <3>5, <3>6, <3>7 DEF SimTypes
  <2>4. CASE AnswerPushes(c)
    <3> DEFINE new == At("ended", FALSE, NoFrame)
    <3>1. new \in AnswerState /\ new.at \notin Holding BY DEF AnswerState, At, Parts
    <3>2. answer' = [answer EXCEPT ![c] = new] BY <2>4 DEF AnswerPushes
    <3>3. outboundUplinks' \in Seq(UplinkFrame)
      BY <2>0, <2>4 DEF AnswerPushes, SimTypes, UplinkFrame
    <3>4. answer' \in [Command -> AnswerState] /\ \A d \in Command : answer'[d].at \in Holding => answer'[d].frame \in DataFrame
      BY <3>1, <3>2, AnswerChanges
    <3>5. UNCHANGED <<cancelled, uplink, downlink, sender, downlinkFrames>>
      BY <2>4 DEF AnswerPushes
    <3>6. UNCHANGED <<activated, devNonce, keys, pendingAck, fCntUp, published, accepted, downs>>
      BY <2>4 DEF AnswerPushes
    <3> QED BY <3>3, <3>4, <3>5, <3>6 DEF SimTypes
  <2>5. CASE AnswerReadsPart(c)
    <3> DEFINE p == answer[c].at
               new == At(NextRead[p], answer[c].ack, WithPart(answer[c].frame, p))
    <3>1. answer[c].frame \in DataFrame /\ p \in Parts /\ answer[c].ack \in BOOLEAN
      BY <2>0, <2>5 DEF AnswerReadsPart, AnswerState
    <3>2. WithPart(answer[c].frame, p) \in DataFrame /\ NextRead[p] \in Holding
      BY <3>1, ReadTypes
    <3>3. new \in AnswerState /\ new.frame \in DataFrame BY <3>1, <3>2 DEF AnswerState, At
    <3>4. answer' = [answer EXCEPT ![c] = new] BY <2>5 DEF AnswerReadsPart
    <3> HIDE DEF new
    <3>5. answer' \in [Command -> AnswerState] /\ \A d \in Command : answer'[d].at \in Holding => answer'[d].frame \in DataFrame
      BY <3>3, <3>4, AnswerChanges
    <3>6. UNCHANGED <<cancelled, uplink, downlink, sender, outboundUplinks, downlinkFrames>>
      BY <2>5 DEF AnswerReadsPart
    <3>7. UNCHANGED <<activated, devNonce, keys, pendingAck, fCntUp, published, accepted, downs>>
      BY <2>5 DEF AnswerReadsPart
    <3> QED BY <3>5, <3>6, <3>7 DEF SimTypes
  <2> QED BY <1>6, <2>1, <2>2, <2>3, <2>4, <2>5 DEF AnswerGoroutine
<1>7. CASE SenderLoop
  <2>1. CASE SenderTakes
    <3>1. Head(outboundUplinks) \in UplinkFrame /\ Tail(outboundUplinks) \in Seq(UplinkFrame)
      BY <2>1 DEF SenderTakes, SimTypes
    <3> QED BY <2>1, <3>1 DEF SenderTakes, SimTypes, At
  <2>2. CASE SenderPublishes
    <3>1. Append(published, sender.frame) \in Seq(UplinkFrame)
      BY <2>2 DEF SenderPublishes, SimTypes
    <3> QED BY <2>2, <3>1 DEF SenderPublishes, SimTypes, At
  <2>3. CASE SenderFails
    BY <2>3 DEF SenderFails, SimTypes, At
  <2>4. CASE SenderEnds
    BY <2>4 DEF SenderEnds, SimTypes, At
  <2> QED BY <1>7, <2>1, <2>2, <2>3, <2>4 DEF SenderLoop
<1>8. CASE DownlinkLoop
  <2>1. downlinkFrames # <<>> => Arrived \in AcceptFrame \cup CommandFrame /\ Tail(downlinkFrames) \in Seq(AcceptFrame \cup CommandFrame)
    BY DEF SimTypes, Arrived
  <2>2. CASE DownlinkEnds
    <3>1. downlink' \in DownlinkState /\ downlink'.at = "ended" BY <2>2 DEF DownlinkEnds, SimTypes, DownlinkState
    <3> QED BY <2>2, <3>1 DEF DownlinkEnds, SimTypes
  <2>3. CASE JoinAccept
    <3>1. NoKeys \in KeySet /\ downlink \in DownlinkState /\ downlink.derived \in KeySet /\ keys \in KeySet /\ devNonce \in Nat
      BY DEF NoKeys, NoPart, Part, KeySet, KeyPair, SimTypes, DownlinkState
    <3>2. CASE JoinAcceptArrives
      <4>1. Arrived \in AcceptFrame
        BY <2>1, <3>2 DEF JoinAcceptArrives, AcceptFrame, CommandFrame
      <4>2. downlink' \in DownlinkState /\ downlink'.frame \in AcceptFrame
        BY <3>1, <3>2, <4>1 DEF JoinAcceptArrives, DownlinkState
      <4> QED BY <2>1, <3>2, <4>2 DEF JoinAcceptArrives, SimTypes
    <3>3. CASE DerivesAppSKey
      <4>1. downlink.frame \in AcceptFrame /\ downlink.frame.nonce \in Nat
        BY <3>3 DEF DerivesAppSKey, SimTypes, AcceptFrame
      <4> DEFINE n == downlink.frame.nonce
                 made == [address |-> Part(n, n), appSKey |-> Part(n, devNonce), nwkSKey |-> NoPart]
      <4>2. made \in KeySet BY <3>1, <4>1 DEF KeySet, KeyPair, Parts, Part, NoPart
      <4>3. downlink' = [at |-> "nwkSKey", frame |-> downlink.frame, derived |-> made]
        BY <3>3 DEF DerivesAppSKey
      <4> HIDE DEF made
      <4>4. downlink' \in DownlinkState /\ downlink'.frame \in AcceptFrame
        BY <4>1, <4>2, <4>3 DEF DownlinkState
      <4> QED BY <3>3, <4>4 DEF DerivesAppSKey, SimTypes
    <3>4. CASE DerivesNwkSKey
      <4>1. downlink.frame \in AcceptFrame /\ downlink.frame.nonce \in Nat
        BY <3>4 DEF DerivesNwkSKey, SimTypes, AcceptFrame
      <4> DEFINE made == [downlink.derived EXCEPT !.nwkSKey = Part(downlink.frame.nonce, devNonce)]
      <4>2. made \in KeySet BY <3>1, <4>1 DEF KeySet, KeyPair, Parts, Part
      <4>3. downlink' = [at |-> "store", frame |-> downlink.frame, derived |-> made]
        BY <3>4 DEF DerivesNwkSKey
      <4> HIDE DEF made
      <4>4. downlink' \in DownlinkState /\ downlink'.at = "store"
        BY <4>1, <4>2, <4>3 DEF DownlinkState
      <4> QED BY <3>4, <4>4 DEF DerivesNwkSKey, SimTypes
    <3>5. ASSUME NEW p \in Parts, StoresPart(p) PROVE SimTypes'
      <4>1. keys' \in KeySet BY <3>1, <3>5 DEF StoresPart, KeySet
      <4>2. [downlink.derived EXCEPT ![p] = NoPart] \in KeySet BY <3>1 DEF KeySet, KeyPair, NoPart, Part
      <4>3. downlink' \in DownlinkState /\ downlink'.at = "store"
        BY <3>1, <3>5, <4>2 DEF StoresPart, DownlinkState
      <4> QED BY <3>5, <4>1, <4>3 DEF StoresPart, SimTypes
    <3>6. CASE JoinAcceptActivates
      <4>1. downlink' \in DownlinkState /\ downlink'.at = "idle" BY <3>1, <3>6 DEF JoinAcceptActivates, DownlinkState
      <4> QED BY <3>6, <4>1 DEF JoinAcceptActivates, SimTypes
    <3> QED BY <2>3, <3>2, <3>3, <3>4, <3>5, <3>6 DEF JoinAccept
  <2>5. CASE DownlinkData
    <3>1. Arrived \in CommandFrame
      BY <2>1, <2>5 DEF DownlinkData, AcceptFrame, CommandFrame
    <3>2. Arrived.confirmed \in BOOLEAN /\ Arrived.command \in Command
      BY <3>1 DEF CommandFrame
    <3>0. PICK next \in {"delay", "silent"} : answer' = [answer EXCEPT ![Arrived.command] = At(next, FALSE, NoFrame)]
      BY <2>5 DEF DownlinkData
    <3> DEFINE new == At(next, FALSE, NoFrame)
    <3>3. new \in AnswerState /\ new.at \notin Holding BY DEF AnswerState, At, Parts
    <3>4. answer' = [answer EXCEPT ![Arrived.command] = new] BY <3>0
    <3>5. answer' \in [Command -> AnswerState] /\ \A d \in Command : answer'[d].at \in Holding => answer'[d].frame \in DataFrame
      BY <3>2, <3>3, <3>4, AnswerChanges
    <3>6. pendingAck' \in BOOLEAN /\ downlinkFrames' \in Seq(AcceptFrame \cup CommandFrame) /\ downlink' = downlink
      BY <2>1, <2>5, <3>2 DEF DownlinkData, SimTypes
    <3>7. UNCHANGED <<cancelled, uplink, sender, outboundUplinks>>
      BY <2>5 DEF DownlinkData
    <3>8. UNCHANGED <<activated, devNonce, keys, fCntUp, published, accepted, downs>>
      BY <2>5 DEF DownlinkData
    <3> QED BY <3>5, <3>6, <3>7, <3>8 DEF SimTypes
  <2>6. CASE InvalidMic
    <3>1. downlink' \in DownlinkState /\ downlink'.at = "ended" BY <2>6 DEF InvalidMic, SimTypes, DownlinkState
    <3> QED BY <2>1, <2>6, <3>1 DEF InvalidMic, SimTypes
  <2> QED BY <1>8, <2>2, <2>3, <2>5, <2>6 DEF DownlinkLoop
<1>9. ASSUME NEW n \in 1 .. MaxJoins, AcceptJoin(n) PROVE SimTypes'
  <2>1. [kind |-> "accept", nonce |-> n] \in AcceptFrame
    BY BoundsAreNumbers DEF AcceptFrame
  <2>2. accepted \cup {n} \in SUBSET (1 .. MaxJoins) BY DEF SimTypes
  <2> QED BY <1>9, <2>1, <2>2 DEF AcceptJoin, SimTypes
<1>10. ASSUME NEW confirmed \in BOOLEAN, CommandArrives(confirmed) PROVE SimTypes'
  <2>1. Session \in Nat
    <3>1. accepted # {} => Session \in 1 .. MaxJoins BY SessionIsAccepted DEF SimTypes
    <3> QED BY <3>1, BoundsAreNumbers DEF Session
  <2>2. Len(downs) + 1 \in Command
    BY <1>10, Numbers DEF CommandArrives, SimTypes
  <2>3. [kind |-> "command", session |-> Session, command |-> Len(downs) + 1, confirmed |-> confirmed] \in CommandFrame
    BY <2>1, <2>2 DEF CommandFrame
  <2>4. downs' \in Seq(BOOLEAN) /\ Len(downs') <= MaxDownlinks
    BY <1>10, BoundsAreNumbers DEF CommandArrives, SimTypes
  <2> QED BY <1>10, <2>3, <2>4 DEF CommandArrives, SimTypes
<1>11. CASE Cancel
  BY <1>11 DEF Cancel, SimTypes
<1>12. CASE UNCHANGED deviceVars
  BY <1>12 DEF deviceVars, SimTypes
<1> QED BY <1>1, <1>2, <1>3, <1>4, <1>5, <1>50, <1>6, <1>7, <1>8, <1>9, <1>10, <1>11, <1>12
        DEF DeviceNext, UplinkLoop

\* Types of the initial state.
LEMMA InitTypes == DeviceInit => SimTypes
<1> SUFFICES ASSUME DeviceInit PROVE SimTypes
  OBVIOUS
<1>1. answer = [c \in Command |-> At("none", FALSE, NoFrame)] /\ At("none", FALSE, NoFrame) \in AnswerState
  BY DEF DeviceInit, At, AnswerState
<1>2. answer \in [Command -> AnswerState] /\ \A c \in Command : answer[c].at \notin Holding
  BY <1>1 DEF At, Holding, Parts
<1>3. /\ uplink = At("top", FALSE, NoFrame) /\ sender = At("idle", FALSE, NoFrame)
      /\ downlink = [at |-> "idle", frame |-> NoFrame, derived |-> NoKeys]
  BY DEF DeviceInit
<1>4. keys = NoKeys /\ NoKeys \in KeySet /\ downs = <<>> /\ accepted = {}
  BY DEF DeviceInit, NoKeys, NoPart, Part, KeySet, KeyPair
<1>5. downs \in Seq(BOOLEAN) /\ Len(downs) <= MaxDownlinks BY <1>4, BoundsAreNumbers
<1>6. /\ cancelled = FALSE /\ activated = FALSE /\ pendingAck = FALSE /\ fCntUp = 0 /\ devNonce = 0
      /\ outboundUplinks = <<>> /\ downlinkFrames = <<>> /\ published = <<>>
  BY DEF DeviceInit
<1>7. /\ uplink.at = "top" /\ sender.at = "idle" /\ downlink.at = "idle"
      /\ uplink \in UplinkState /\ downlink \in DownlinkState
      /\ sender \in [at : {"idle", "publish", "ended"}, ack : BOOLEAN, frame : UplinkFrame \cup {NoFrame}]
  BY <1>3, <1>4 DEF At, UplinkState, DownlinkState
<1>8. /\ outboundUplinks \in Seq(UplinkFrame) /\ published \in Seq(UplinkFrame)
      /\ downlinkFrames \in Seq(AcceptFrame \cup CommandFrame)
  BY <1>6
<1>9. accepted \in SUBSET (1 .. MaxJoins) BY <1>4
<1> QED BY <1>2, <1>4, <1>5, <1>6, <1>7, <1>8, <1>9 DEF SimTypes, Parts

LineShape ==
  /\ Len(Line) = Len(published) + Len(Held) + Len(outboundUplinks)
  /\ Len(Held) \in {0, 1} /\ Len(published) \in Nat /\ Len(outboundUplinks) \in Nat
  /\ \A i \in 1 .. Len(published) : Line[i] = published[i]
  /\ sender.at = "publish" => Len(Held) = 1
  /\ \A i \in 1 .. Len(outboundUplinks) : Line[Len(published) + Len(Held) + i] = outboundUplinks[i]

\* Where the parts of the line are.
LEMMA LineIndexes == SimTypes => LineShape
<1> SUFFICES ASSUME SimTypes PROVE LineShape
  OBVIOUS
<1> DEFINE P == published \o Held
<1>1. published \in Seq(UplinkFrame) /\ Held \in Seq(UplinkFrame) /\ outboundUplinks \in Seq(UplinkFrame)
  BY LineFacts DEF SimTypes
<1>2. Len(Held) \in {0, 1} /\ (sender.at = "publish" => Len(Held) = 1) BY DEF Held
<1>3. Len(published) \in Nat /\ Len(outboundUplinks) \in Nat /\ Len(Held) \in Nat BY <1>1, LenProperties
<1>4. /\ P \in Seq(UplinkFrame) /\ Len(P) = Len(published) + Len(Held)
      /\ \A i \in 1 .. Len(P) : P[i] = IF i <= Len(published) THEN published[i] ELSE Held[i - Len(published)]
  BY <1>1, ConcatProperties
<1> HIDE DEF P
<1>5. /\ Len(P \o outboundUplinks) = Len(P) + Len(outboundUplinks)
      /\ \A i \in 1 .. Len(P) + Len(outboundUplinks) :
           (P \o outboundUplinks)[i] = IF i <= Len(P) THEN P[i] ELSE outboundUplinks[i - Len(P)]
  <2>1. P \in Seq(UplinkFrame) /\ outboundUplinks \in Seq(UplinkFrame) BY <1>1, <1>4
  <2> QED BY <2>1, ConcatProperties
<1>6. Line = P \o outboundUplinks BY DEF Line, P
<1>7. ASSUME NEW i \in 1 .. Len(published) PROVE Line[i] = published[i]
  <2>1. i \in 1 .. Len(P) /\ i \in 1 .. Len(P) + Len(outboundUplinks) /\ i <= Len(published) BY <1>3, <1>4
  <2> QED BY <1>4, <1>5, <1>6, <2>1
<1>8. ASSUME NEW i \in 1 .. Len(outboundUplinks)
      PROVE  Line[Len(published) + Len(Held) + i] = outboundUplinks[i]
  <2>1. Len(P) + i \in 1 .. Len(P) + Len(outboundUplinks) /\ ~ (Len(P) + i <= Len(P)) /\ Len(P) + i - Len(P) = i
    BY <1>3, <1>4
  <2>2. (P \o outboundUplinks)[Len(P) + i] = outboundUplinks[i]
    BY <1>5, <2>1
  <2> QED BY <1>4, <1>6, <2>2
<1> QED BY <1>2, <1>3, <1>4, <1>5, <1>6, <1>7, <1>8 DEF LineShape

\* A frame that is pushed comes last.
LEMMA LineGrows ==
  ASSUME SimTypes, NEW f \in UplinkFrame, outboundUplinks' = Append(outboundUplinks, f),
         sender' = sender, published' = published
  PROVE  Line' = Append(Line, f)
<1> DEFINE P == published \o Held
<1>1. published \in Seq(UplinkFrame) /\ Held \in Seq(UplinkFrame) /\ outboundUplinks \in Seq(UplinkFrame)
  BY LineFacts DEF SimTypes
<1>2. Held' = Held BY DEF Held
<1>3. P \in Seq(UplinkFrame) BY <1>1, ConcatProperties
<1>4. <<f>> \in Seq(UplinkFrame) OBVIOUS
<1>5. Line' = (published' \o Held') \o outboundUplinks' BY DEF Line
<1> HIDE DEF P
<1>6. Append(outboundUplinks, f) = outboundUplinks \o <<f>> /\ Append(P \o outboundUplinks, f) = (P \o outboundUplinks) \o <<f>>
  BY <1>1, <1>3, AppendIsConcat, ConcatProperties
<1>7. P \o (outboundUplinks \o <<f>>) = (P \o outboundUplinks) \o <<f>>
  BY <1>1, <1>3, <1>4, ConcatAssociative
<1>8. Line' = P \o Append(outboundUplinks, f) BY <1>2, <1>5 DEF P
<1>9. Line = P \o outboundUplinks BY DEF Line, P
<1> QED BY <1>6, <1>7, <1>8, <1>9

\* The sender's two good steps move a frame along, no further.
LEMMA LineStays ==
  ASSUME SimTypes, SenderTakes \/ SenderPublishes
  PROVE  Line' = Line
<1>1. published \in Seq(UplinkFrame) /\ outboundUplinks \in Seq(UplinkFrame)
  BY DEF SimTypes
<1>2. CASE SenderTakes
  <2> DEFINE h == Head(outboundUplinks)
             t == Tail(outboundUplinks)
  <2>1. outboundUplinks # <<>> BY <1>2 DEF SenderTakes
  <2>2. h \in UplinkFrame /\ t \in Seq(UplinkFrame) /\ Len(t) = Len(outboundUplinks) - 1
        /\ (\A i \in 1 .. Len(t) : t[i] = outboundUplinks[i + 1]) /\ h = outboundUplinks[1]
    BY <1>1, <2>1, HeadTailProperties
  <2>3. Held = <<>> /\ Held' = <<h>> /\ outboundUplinks' = t /\ published' = published
    BY <1>2 DEF SenderTakes, Held, At
  <2>4. <<h>> \o t = outboundUplinks
    <3>1. <<h>> \in Seq(UplinkFrame) /\ Len(<<h>>) = 1 /\ <<h>>[1] = h BY <2>2
    <3>2. Len(t) \in Nat /\ Len(outboundUplinks) \in Nat BY <1>1, <2>2, LenProperties
    <3> HIDE DEF h, t
    <3>3. /\ <<h>> \o t \in Seq(UplinkFrame) /\ Len(<<h>> \o t) = 1 + Len(t)
          /\ \A i \in 1 .. 1 + Len(t) : (<<h>> \o t)[i] = IF i <= 1 THEN <<h>>[i] ELSE t[i - 1]
      <4>1. <<h>> \in Seq(UplinkFrame) /\ t \in Seq(UplinkFrame) /\ Len(<<h>>) = 1 BY <2>2, <3>1
      <4>2. /\ <<h>> \o t \in Seq(UplinkFrame) /\ Len(<<h>> \o t) = Len(<<h>>) + Len(t)
            /\ \A i \in 1 .. Len(<<h>>) + Len(t) : (<<h>> \o t)[i] = IF i <= Len(<<h>>) THEN <<h>>[i] ELSE t[i - Len(<<h>>)]
        BY <4>1, ConcatProperties
      <4> QED BY <4>1, <4>2
    <3>4. ASSUME NEW i \in 1 .. 1 + Len(t) PROVE (<<h>> \o t)[i] = outboundUplinks[i]
      <4>1. CASE i = 1 BY <2>2, <3>1, <3>3, <4>1
      <4>2. CASE i # 1
        <5>1. i - 1 \in 1 .. Len(t) /\ ~ (i <= 1) /\ (i - 1) + 1 = i BY <3>2, <4>2
        <5> QED BY <2>2, <3>3, <5>1
      <4> QED BY <4>1, <4>2
    <3>5. /\ <<h>> \o t \in Seq(UplinkFrame) /\ Len(<<h>> \o t) = Len(outboundUplinks)
          /\ \A i \in 1 .. Len(<<h>> \o t) : (<<h>> \o t)[i] = outboundUplinks[i]
      BY <2>2, <3>2, <3>3, <3>4
    <3> QED BY <1>1, <3>5, SeqEqual
  <2> HIDE DEF h, t
  <2>5. (published \o <<h>>) \o t = published \o (<<h>> \o t)
    <3>1. <<h>> \in Seq(UplinkFrame) BY <2>2
    <3> QED BY <1>1, <2>2, <3>1, ConcatAssociative
  <2>6. published \o <<>> = published BY <1>1, ConcatEmptySeq
  <2>7. Line' = (published' \o Held') \o outboundUplinks' BY DEF Line
  <2> QED BY <2>3, <2>4, <2>5, <2>6, <2>7 DEF Line
<1>3. CASE SenderPublishes
  <2> DEFINE f == sender.frame
  <2>1. f \in UplinkFrame BY <1>3 DEF SenderPublishes, SimTypes
  <2>2. Held = <<f>> /\ Held' = <<>> /\ outboundUplinks' = outboundUplinks /\ published' = Append(published, f)
    BY <1>3 DEF SenderPublishes, Held, At
  <2> HIDE DEF f
  <2>3. Append(published, f) = published \o <<f>> BY <1>1, <2>1, AppendIsConcat
  <2>4. Append(published, f) \o <<>> = Append(published, f)
    BY <1>1, <2>1, AppendProperties, ConcatEmptySeq
  <2>5. Line' = (published' \o Held') \o outboundUplinks' BY DEF Line
  <2> QED BY <2>2, <2>3, <2>4, <2>5 DEF Line
<1> QED BY <1>2, <1>3

\* A frame that is lost was in the sender's hands.
ShiftPast(k, i) == IF i <= k THEN i ELSE i + 1

LEMMA LineLoses ==
  ASSUME SimTypes, SimTypes', SenderFails
  PROVE  /\ Len(Line) = Len(Line') + 1
         /\ \A i \in 1 .. Len(Line') : /\ ShiftPast(Len(published), i) \in 1 .. Len(Line)
                                       /\ Line'[i] = Line[ShiftPast(Len(published), i)]
<1> DEFINE k == Len(published)
           m == Len(outboundUplinks)
<1>1. sender.at = "publish" /\ published' = published /\ outboundUplinks' = outboundUplinks /\ Held' = <<>>
  BY DEF SenderFails, Held, At
<1>2. /\ Len(Line) = k + 1 + m /\ k \in Nat /\ m \in Nat
      /\ \A i \in 1 .. k : Line[i] = published[i]
      /\ \A i \in 1 .. m : Line[k + 1 + i] = outboundUplinks[i]
  BY <1>1, LineIndexes DEF LineShape
<1>3. /\ Len(Line') = k + m
      /\ \A i \in 1 .. k : Line'[i] = published[i]
      /\ \A i \in 1 .. m : Line'[k + i] = outboundUplinks[i]
  <2>1. Len(Held') = 0 BY <1>1
  <2>2. LineShape' BY LineIndexes, PTL
  <2> QED BY <1>1, <1>2, <2>1, <2>2 DEF LineShape
<1> HIDE DEF k, m
<1>4. ASSUME NEW i \in 1 .. Len(Line') PROVE ShiftPast(k, i) \in 1 .. Len(Line) /\ Line'[i] = Line[ShiftPast(k, i)]
  <2>1. CASE i <= k
    <3>1. i \in 1 .. k /\ ShiftPast(k, i) = i BY <1>2, <1>3, <2>1 DEF ShiftPast
    <3> QED BY <1>2, <1>3, <3>1
  <2>2. CASE ~ (i <= k)
    <3>1. PICK j \in 1 .. m : i = k + j
      <4>1. i - k \in 1 .. m /\ i = k + (i - k) BY <1>2, <1>3, <2>2
      <4> QED BY <4>1
    <3>2. ShiftPast(k, i) = k + 1 + j BY <1>2, <2>2, <3>1 DEF ShiftPast
    <3> QED BY <1>2, <1>3, <3>1, <3>2
  <2> QED BY <2>1, <2>2
<1> QED BY <1>2, <1>3, <1>4 DEF k

(* What is under way downlink.                                             *)
DownInv ==
  /\ \A i \in DOMAIN downlinkFrames : downlinkFrames[i].kind = "accept" => downlinkFrames[i].nonce \in accepted
  /\ \A i \in DOMAIN downlinkFrames : downlinkFrames[i].kind = "command" =>
       /\ downlinkFrames[i].session \in accepted
       /\ downlinkFrames[i].command <= Len(downs)
       /\ downlinkFrames[i].confirmed = downs[downlinkFrames[i].command]
       /\ answer[downlinkFrames[i].command].at = "none"
  /\ \A i, j \in DOMAIN downlinkFrames :
       /\ downlinkFrames[i].kind = "command" /\ downlinkFrames[j].kind = "command"
       /\ downlinkFrames[i].command = downlinkFrames[j].command
       => i = j
  /\ \A c \in Command : answer[c].at # "none" => c <= Len(downs)

\* What the head of the downlink channel is.
LEMMA ArrivedFacts ==
  ASSUME SimTypes, DownInv, downlinkFrames # <<>>
  PROVE  /\ Arrived \in AcceptFrame \cup CommandFrame
         /\ Arrived.kind = "accept" => Arrived \in AcceptFrame /\ Arrived.nonce \in accepted
         /\ Arrived.kind = "command" =>
              /\ Arrived \in CommandFrame /\ Arrived.session \in accepted /\ Arrived.command \in Command
              /\ Arrived.command <= Len(downs) /\ Arrived.confirmed = downs[Arrived.command]
              /\ answer[Arrived.command].at = "none"
         /\ Len(Tail(downlinkFrames)) \in Nat /\ DOMAIN Tail(downlinkFrames) = 1 .. Len(Tail(downlinkFrames))
         /\ \A i \in DOMAIN Tail(downlinkFrames) :
              /\ i + 1 \in DOMAIN downlinkFrames /\ Tail(downlinkFrames)[i] = downlinkFrames[i + 1]
              /\ Arrived.kind = "command" /\ Tail(downlinkFrames)[i].kind = "command" =>
                   Tail(downlinkFrames)[i].command # Arrived.command
<1> DEFINE F == AcceptFrame \cup CommandFrame
<1>1. downlinkFrames \in Seq(F) BY DEF SimTypes
<1>2. Len(downlinkFrames) \in Nat /\ DOMAIN downlinkFrames = 1 .. Len(downlinkFrames) /\ Len(downlinkFrames) # 0
  BY <1>1, EmptySeq, LenProperties
<1>3. Arrived = downlinkFrames[1] /\ 1 \in DOMAIN downlinkFrames /\ Arrived \in F
  BY <1>1, <1>2 DEF Arrived
<1>4. /\ Tail(downlinkFrames) \in Seq(F) /\ Len(Tail(downlinkFrames)) = Len(downlinkFrames) - 1
      /\ \A i \in 1 .. Len(Tail(downlinkFrames)) : Tail(downlinkFrames)[i] = downlinkFrames[i + 1]
  BY <1>1, HeadTailProperties
<1>5. Len(Tail(downlinkFrames)) \in Nat /\ DOMAIN Tail(downlinkFrames) = 1 .. Len(Tail(downlinkFrames))
  BY <1>4, LenProperties
<1>6. ASSUME NEW i \in DOMAIN Tail(downlinkFrames)
      PROVE  i + 1 \in DOMAIN downlinkFrames /\ i + 1 # 1 /\ Tail(downlinkFrames)[i] = downlinkFrames[i + 1]
  BY <1>2, <1>4, <1>5
<1>7. \A f \in F : (f.kind = "accept" => f \in AcceptFrame) /\ (f.kind = "command" => f \in CommandFrame /\ f.command \in Command)
  BY DEF AcceptFrame, CommandFrame
<1> HIDE DEF F
<1>8. Arrived.kind = "accept" => Arrived \in AcceptFrame /\ Arrived.nonce \in accepted
  BY <1>3, <1>7 DEF DownInv
<1>9. Arrived.kind = "command" =>
        /\ Arrived \in CommandFrame /\ Arrived.session \in accepted /\ Arrived.command \in Command
        /\ Arrived.command <= Len(downs) /\ Arrived.confirmed = downs[Arrived.command]
        /\ answer[Arrived.command].at = "none"
  BY <1>3, <1>7 DEF DownInv
<1>10. ASSUME NEW i \in DOMAIN Tail(downlinkFrames), Arrived.kind = "command", Tail(downlinkFrames)[i].kind = "command"
       PROVE  Tail(downlinkFrames)[i].command # Arrived.command
  BY <1>3, <1>6, <1>10 DEF DownInv
<1>11. Arrived \in AcceptFrame \cup CommandFrame BY <1>3 DEF F
<1> QED BY <1>5, <1>6, <1>8, <1>9, <1>10, <1>11

\* A step that takes nothing from the network and gives it nothing, and
\* begins no answer.
LEMMA DownKept ==
  ASSUME SimTypes, DownInv, UNCHANGED <<downlinkFrames, accepted, downs>>,
         \A c \in Command : answer'[c].at = "none" <=> answer[c].at = "none"
  PROVE  DownInv'
<1>1. \A i \in DOMAIN downlinkFrames : downlinkFrames[i].kind = "command" => downlinkFrames[i].command \in Command
  <2>1. \A i \in DOMAIN downlinkFrames : downlinkFrames[i] \in AcceptFrame \cup CommandFrame
    BY DEF SimTypes
  <2> QED BY <2>1 DEF AcceptFrame, CommandFrame
<1> QED BY <1>1 DEF DownInv

\* The loop takes the head of the channel.
LEMMA DownTaken ==
  ASSUME SimTypes, DownInv, downlinkFrames # <<>>, downlinkFrames' = Tail(downlinkFrames), UNCHANGED <<accepted, downs>>,
         \/ answer' = answer
         \/ Arrived.kind = "command" /\ \E next \in {"delay", "silent"} :
              answer' = [answer EXCEPT ![Arrived.command] = At(next, FALSE, NoFrame)]
  PROVE  DownInv'
<1> DEFINE t == Tail(downlinkFrames)
<1>1. \A i \in DOMAIN t : t[i].kind = "command" => t[i].command \in Command
  <2>1. \A i \in DOMAIN downlinkFrames : downlinkFrames[i] \in AcceptFrame \cup CommandFrame
    BY DEF SimTypes
  <2>2. \A i \in DOMAIN t : t[i] \in AcceptFrame \cup CommandFrame BY <2>1, ArrivedFacts
  <2> QED BY <2>2 DEF AcceptFrame, CommandFrame
<1>2. \A c \in Command : \/ answer'[c].at = answer[c].at
                         \/ Arrived.kind = "command" /\ c = Arrived.command /\ answer'[c].at # "none"
  BY DEF SimTypes, At
<1>3. \A i \in DOMAIN t : t[i].kind = "command" => answer'[t[i].command].at = answer[t[i].command].at
  BY <1>1, <1>2, ArrivedFacts
<1>4. \A i \in DOMAIN t : i + 1 \in DOMAIN downlinkFrames /\ t[i] = downlinkFrames[i + 1] /\ i \in Nat
  BY ArrivedFacts
<1>5. Arrived.kind = "command" => Arrived.command <= Len(downs) BY ArrivedFacts
<1> HIDE DEF t
<1>6. downlinkFrames' = t BY DEF t
<1>7. \A i \in DOMAIN t : t[i].kind = "accept" => t[i].nonce \in accepted
  BY <1>4 DEF DownInv
<1>8. \A i \in DOMAIN t : t[i].kind = "command" =>
        /\ t[i].session \in accepted /\ t[i].command <= Len(downs)
        /\ t[i].confirmed = downs[t[i].command] /\ answer'[t[i].command].at = "none"
  BY <1>3, <1>4 DEF DownInv
<1>9. ASSUME NEW i \in DOMAIN t, NEW j \in DOMAIN t,
             t[i].kind = "command", t[j].kind = "command", t[i].command = t[j].command
      PROVE  i = j
  <2>1. i + 1 = j + 1 BY <1>4, <1>9 DEF DownInv
  <2> QED BY <1>4, <2>1
<1>10. \A c \in Command : answer'[c].at # "none" => c <= Len(downs)
  BY <1>2, <1>5 DEF DownInv
<1> QED BY <1>6, <1>7, <1>8, <1>9, <1>10 DEF DownInv

\* The network sends.
LEMMA DownSent ==
  ASSUME SimTypes, DownInv, NEW f \in AcceptFrame \cup CommandFrame, downlinkFrames' = Append(downlinkFrames, f),
         answer' = answer, accepted \subseteq accepted', downs \in Seq(BOOLEAN),
         \/ f \in AcceptFrame /\ f.nonce \in accepted' /\ downs' = downs
         \/ \E confirmed \in BOOLEAN :
              /\ f \in CommandFrame /\ f.session \in accepted' /\ f.command = Len(downs) + 1 /\ f.confirmed = confirmed
              /\ downs' = Append(downs, confirmed)
  PROVE  DownInv'
<1> DEFINE n == Len(downlinkFrames)
<1>1. n \in Nat /\ DOMAIN downlinkFrames = 1 .. n /\ downlinkFrames \in Seq(AcceptFrame \cup CommandFrame)
  BY LenProperties DEF SimTypes
<1>2. /\ DOMAIN downlinkFrames' = 1 .. n + 1 /\ downlinkFrames'[n + 1] = f
      /\ \A i \in 1 .. n : downlinkFrames'[i] = downlinkFrames[i]
  BY <1>1
<1>3. \A i \in 1 .. n : downlinkFrames[i].kind = "command" => downlinkFrames[i].command \in Command /\ downlinkFrames[i].command \in Nat
  <2>1. \A i \in 1 .. n : downlinkFrames[i] \in AcceptFrame \cup CommandFrame
    BY <1>1
  <2> QED BY <2>1, Numbers DEF AcceptFrame, CommandFrame
<1>4. /\ Len(downs) \in Nat /\ Len(downs') \in Nat /\ Len(downs) <= Len(downs')
      /\ \A c \in 1 .. Len(downs) : downs'[c] = downs[c]
  OBVIOUS
<1>5. f.kind = "command" => /\ f \in CommandFrame /\ f.session \in accepted' /\ f.command = Len(downs) + 1
                            /\ f.command <= Len(downs') /\ f.confirmed = downs'[f.command]
                            /\ f.command \in Command
  <2>1. f \in AcceptFrame => f.kind # "command" BY DEF AcceptFrame
  <2>2. f \in CommandFrame => f.command \in Command BY DEF CommandFrame
  <2> QED BY <2>1, <2>2
<1>6. f.kind = "accept" => f.nonce \in accepted'
  BY DEF AcceptFrame, CommandFrame
<1> HIDE DEF n
<1>7. \A i \in DOMAIN downlinkFrames' : i \in 1 .. n \/ i = n + 1 BY <1>1, <1>2
<1>8. \A i \in 1 .. n : downlinkFrames[i].kind = "command" =>
        /\ downlinkFrames[i].session \in accepted /\ downlinkFrames[i].command \in 1 .. Len(downs)
        /\ downlinkFrames[i].confirmed = downs[downlinkFrames[i].command] /\ answer[downlinkFrames[i].command].at = "none"
  <2> SUFFICES ASSUME NEW i \in 1 .. n, downlinkFrames[i].kind = "command"
      PROVE /\ downlinkFrames[i].session \in accepted /\ downlinkFrames[i].command \in 1 .. Len(downs)
            /\ downlinkFrames[i].confirmed = downs[downlinkFrames[i].command] /\ answer[downlinkFrames[i].command].at = "none"
    OBVIOUS
  <2>1. \A c \in Command : c \in Nat /\ 1 <= c BY Numbers
  <2>2. downlinkFrames[i].command \in Nat /\ 1 <= downlinkFrames[i].command BY <1>3, <2>1
  <2>3. i \in DOMAIN downlinkFrames BY <1>1
  <2>4. /\ downlinkFrames[i].session \in accepted /\ downlinkFrames[i].command <= Len(downs)
        /\ downlinkFrames[i].confirmed = downs[downlinkFrames[i].command] /\ answer[downlinkFrames[i].command].at = "none"
    BY <2>3 DEF DownInv
  <2> QED BY <1>4, <2>2, <2>4
<1>9. \A i \in DOMAIN downlinkFrames' : downlinkFrames'[i].kind = "accept" => downlinkFrames'[i].nonce \in accepted'
  BY <1>1, <1>2, <1>6, <1>7 DEF DownInv
<1>10. f.kind = "command" => answer[f.command].at = "none"
  <2>1. Len(downs) + 1 \in Command => answer[Len(downs) + 1].at = "none"
    BY <1>4 DEF DownInv
  <2> QED BY <1>5, <2>1
<1>11. \A i \in DOMAIN downlinkFrames' : downlinkFrames'[i].kind = "command" =>
        /\ downlinkFrames'[i].session \in accepted' /\ downlinkFrames'[i].command <= Len(downs')
        /\ downlinkFrames'[i].confirmed = downs'[downlinkFrames'[i].command] /\ answer[downlinkFrames'[i].command].at = "none"
  <2> SUFFICES ASSUME NEW i \in DOMAIN downlinkFrames', downlinkFrames'[i].kind = "command"
      PROVE /\ downlinkFrames'[i].session \in accepted' /\ downlinkFrames'[i].command <= Len(downs')
            /\ downlinkFrames'[i].confirmed = downs'[downlinkFrames'[i].command] /\ answer[downlinkFrames'[i].command].at = "none"
    OBVIOUS
  <2>1. CASE i = n + 1 BY <1>2, <1>5, <1>10, <2>1
  <2>2. CASE i \in 1 .. n
    <3> DEFINE g == downlinkFrames[i]
    <3>1. downlinkFrames'[i] = g /\ g.kind = "command" BY <1>2, <2>2
    <3>2. g.session \in accepted /\ g.command \in 1 .. Len(downs) /\ g.confirmed = downs[g.command] /\ answer[g.command].at = "none"
      BY <1>8, <2>2, <3>1
    <3> HIDE DEF g
    <3>3. g.command <= Len(downs') /\ g.confirmed = downs'[g.command] BY <1>4, <3>2
    <3> QED BY <3>1, <3>2, <3>3
  <2> QED BY <1>7, <2>1, <2>2
<1>12. ASSUME NEW i \in DOMAIN downlinkFrames', NEW j \in DOMAIN downlinkFrames',
              downlinkFrames'[i].kind = "command", downlinkFrames'[j].kind = "command",
              downlinkFrames'[i].command = downlinkFrames'[j].command
       PROVE  i = j
  <2>1. CASE i \in 1 .. n /\ j \in 1 .. n BY <1>1, <1>2, <1>12, <2>1 DEF DownInv
  <2>2. CASE i \in 1 .. n /\ j = n + 1 BY <1>2, <1>4, <1>5, <1>8, <1>12, <2>2
  <2>3. CASE i = n + 1 /\ j \in 1 .. n BY <1>2, <1>4, <1>5, <1>8, <1>12, <2>3
  <2> QED BY <1>7, <2>1, <2>2, <2>3
<1>13. \A c \in Command : answer[c].at # "none" => c <= Len(downs')
  <2>1. \A c \in Command : c \in Nat BY Numbers
  <2> QED BY <1>4, <2>1 DEF DownInv
<1> QED BY <1>9, <1>11, <1>12, <1>13 DEF DownInv

\* What is under way downlink stays so.
LEMMA NextDown == SimTypes /\ DownInv /\ [DeviceNext]_deviceVars => DownInv'
<1> SUFFICES ASSUME SimTypes, DownInv, [DeviceNext]_deviceVars PROVE DownInv'
  OBVIOUS
<1> USE DEF loops, device, network
<1>1. CASE UplinkLoop \/ SenderLoop \/ Cancel \/ UNCHANGED deviceVars
  <2>1. UNCHANGED <<downlinkFrames, accepted, downs, answer>>
    BY <1>1 DEF UplinkLoop, LoopTop, JoinRequest, UplinkTakesAck, UplinkTakesCount, UplinkReadsPart, UplinkPushes,
                SenderLoop, SenderTakes, SenderPublishes, SenderFails, SenderEnds, Cancel, deviceVars
  <2> QED BY <2>1, DownKept
<1>2. ASSUME NEW c \in Command, AnswerGoroutine(c) PROVE DownInv'
  <2>1. UNCHANGED <<downlinkFrames, accepted, downs>>
    BY <1>2 DEF AnswerGoroutine, AnswerDelay, AnswerTakesAck, AnswerTakesCount, AnswerReadsPart, AnswerPushes
  <2>2. answer \in [Command -> AnswerState] /\ answer[c].at # "none"
    BY <1>2 DEF AnswerGoroutine, AnswerDelay, AnswerTakesAck, AnswerTakesCount, AnswerReadsPart, AnswerPushes, SimTypes, Parts
  <2>3. PICK new : answer' = [answer EXCEPT ![c] = new] /\ new.at # "none"
    <3>1. CASE AnswerDelay(c)
      <4>1. PICK next \in {"ack", "ended"} : answer' = [answer EXCEPT ![c].at = next]
        BY <3>1 DEF AnswerDelay
      <4> DEFINE new == [answer[c] EXCEPT !.at = next]
      <4>2. new.at = next BY <2>2 DEF AnswerState
      <4>3. answer' = [answer EXCEPT ![c] = new] BY <4>1
      <4> QED BY <4>1, <4>2, <4>3
    <3>2. CASE AnswerTakesAck(c) \/ AnswerTakesCount(c) \/ AnswerPushes(c)
      BY <3>2 DEF AnswerTakesAck, AnswerTakesCount, AnswerPushes, At
    <3>3. CASE AnswerReadsPart(c)
      <4>1. NextRead[answer[c].at] # "none" BY <3>3 DEF AnswerReadsPart, NextRead, Parts
      <4>2. At(NextRead[answer[c].at], answer[c].ack, WithPart(answer[c].frame, answer[c].at)).at # "none" BY <4>1 DEF At
      <4> QED BY <3>3, <4>2 DEF AnswerReadsPart
    <3> QED BY <1>2, <3>1, <3>2, <3>3 DEF AnswerGoroutine
  <2>4. \A d \in Command : answer'[d].at = "none" <=> answer[d].at = "none"
    BY <2>2, <2>3
  <2> QED BY <2>1, <2>4, DownKept
<1>3. CASE DownlinkEnds \/ DerivesAppSKey \/ DerivesNwkSKey \/ (\E p \in Parts : StoresPart(p)) \/ JoinAcceptActivates
  <2>1. UNCHANGED <<downlinkFrames, accepted, downs, answer>>
    BY <1>3 DEF DownlinkEnds, DerivesAppSKey, DerivesNwkSKey, StoresPart, JoinAcceptActivates
  <2> QED BY <2>1, DownKept
<1>4. CASE JoinAcceptArrives \/ InvalidMic \/ DownlinkData
  <2>1. /\ downlinkFrames # <<>> /\ downlinkFrames' = Tail(downlinkFrames)
        /\ UNCHANGED <<accepted, downs>>
        /\ \/ answer' = answer
           \/ Arrived.kind = "command" /\ \E next \in {"delay", "silent"} :
                answer' = [answer EXCEPT ![Arrived.command] = At(next, FALSE, NoFrame)]
    BY <1>4 DEF JoinAcceptArrives, InvalidMic, DownlinkData
  <2> QED BY <2>1, DownTaken
<1>5. ASSUME NEW n \in 1 .. MaxJoins, AcceptJoin(n) PROVE DownInv'
  <2> DEFINE f == [kind |-> "accept", nonce |-> n]
  <2>1. f \in AcceptFrame /\ f.nonce = n BY BoundsAreNumbers DEF AcceptFrame
  <2>2. /\ downlinkFrames' = Append(downlinkFrames, f) /\ answer' = answer /\ accepted' = accepted \cup {n}
        /\ downs' = downs
    BY <1>5 DEF AcceptJoin
  <2>3. downs \in Seq(BOOLEAN) BY DEF SimTypes
  <2> HIDE DEF f
  <2> QED BY <2>1, <2>2, <2>3, DownSent
<1>6. ASSUME NEW confirmed \in BOOLEAN, CommandArrives(confirmed) PROVE DownInv'
  <2> DEFINE f == [kind |-> "command", session |-> Session, command |-> Len(downs) + 1, confirmed |-> confirmed]
  <2>1. Session \in accepted /\ Session \in Nat
    <3>1. accepted # {} BY <1>6 DEF CommandArrives, Session
    <3>2. Session \in accepted BY <3>1, SessionIsAccepted
    <3>3. accepted \subseteq 1 .. MaxJoins BY DEF SimTypes
    <3> QED BY <3>2, <3>3
  <2>2. Len(downs) + 1 \in Command /\ downs \in Seq(BOOLEAN)
    BY <1>6, Numbers DEF CommandArrives, SimTypes
  <2>3. f \in CommandFrame /\ f.session = Session /\ f.command = Len(downs) + 1 /\ f.confirmed = confirmed
    BY <2>1, <2>2 DEF CommandFrame
  <2>4. /\ downlinkFrames' = Append(downlinkFrames, f) /\ answer' = answer /\ accepted' = accepted
        /\ downs' = Append(downs, confirmed)
    BY <1>6 DEF CommandArrives
  <2> HIDE DEF f
  <2> QED BY <2>1, <2>2, <2>3, <2>4, DownSent
<1> QED BY <1>1, <1>2, <1>3, <1>4, <1>5, <1>6 DEF DeviceNext, DownlinkLoop, JoinAccept

(* What a step does to the frames that are numbered: nothing, but for a    *)
(* part that a goroutine reads, or one is made, or one is pushed, or the   *)
(* one in the sender's hands is lost.                                      *)
Reads(g) ==
  /\ g \in Waiting /\ g \in Waiting' /\ Of(g).at \in Parts
  /\ Of(g)' = At(NextRead[Of(g).at], Of(g).ack, WithPart(Of(g).frame, Of(g).at))

SameFrames == DataAt' = DataAt /\ \A i \in DataAt : Line'[i] = Line[i]

Quiet ==
  /\ SameFrames /\ fCntUp' = fCntUp /\ (cancelled => cancelled')
  /\ \A g \in Goroutine : \/ Of(g)' = Of(g)
                          \/ Reads(g)
                          \/ /\ Of(g).at # "ended" /\ g \notin Waiting /\ g \notin Waiting'
                             /\ Of(g).at' = "ended" => cancelled

OthersStay(g) == \A h \in Goroutine \ {g} : Of(h)' = Of(h)

Counts(g) ==
  /\ SameFrames /\ fCntUp' = fCntUp + 1 /\ cancelled' = cancelled /\ OthersStay(g)
  /\ Of(g).at = "count" /\ Of(g)' = At("address", Of(g).ack, Data(fCntUp, Of(g).ack, g, NoKeys))

Pushes(g) ==
  /\ g \in Waiting /\ Of(g).at = "push" /\ fCntUp' = fCntUp /\ cancelled' = cancelled /\ OthersStay(g)
  /\ DataAt' = DataAt \cup {Len(Line) + 1} /\ (\A i \in DataAt : Line'[i] = Line[i])
  /\ Line'[Len(Line) + 1] = Of(g).frame
  /\ Of(g)' = At(IF g = Location THEN "top" ELSE "ended", FALSE, NoFrame)

Loses ==
  /\ cancelled' /\ fCntUp' = fCntUp /\ \A g \in Goroutine : Of(g)' = Of(g)
  /\ Len(published) \in Nat
  /\ \A i \in DataAt' : /\ i \in Nat /\ ShiftPast(Len(published), i) \in DataAt
                        /\ Line'[i] = Line[ShiftPast(Len(published), i)]

\* The goroutines, one by one.
LEMMA HandsOf ==
  /\ Of(Location) = uplink /\ \A c \in Command : Of(c) = answer[c]
  /\ Of(Location)' = uplink' /\ \A c \in Command : Of(c)' = answer'[c]
  /\ \A g \in Goroutine : g = Location \/ g \in Command
BY Numbers DEF Of

\* The same line has the same data frames.
LEMMA LineKept == Line' = Line => SameFrames
BY DEF SameFrames, DataAt, IsData

\* Who touches none of its parts keeps the line.
LEMMA LineUntouched ==
  ASSUME UNCHANGED <<published, sender, outboundUplinks>>
  PROVE  SameFrames
BY LineKept DEF Line, Held

\* What a pushed frame adds to the data frames: itself, if it is one.
LEMMA DataPushed ==
  ASSUME SimTypes, NEW f \in UplinkFrame, Line' = Append(Line, f)
  PROVE  /\ \A i \in DataAt : Line'[i] = Line[i]
         /\ Line'[Len(Line) + 1] = f
         /\ IsData(f) => DataAt' = DataAt \cup {Len(Line) + 1}
         /\ ~ IsData(f) => DataAt' = DataAt
<1>1. Line \in Seq(UplinkFrame) /\ Len(Line) \in Nat /\ DOMAIN Line = 1 .. Len(Line) BY LineFacts
<1>2. /\ DOMAIN Line' = 1 .. Len(Line) + 1 /\ Line'[Len(Line) + 1] = f
      /\ \A i \in 1 .. Len(Line) : Line'[i] = Line[i]
  BY <1>1
<1>3. DOMAIN Line' = DOMAIN Line \cup {Len(Line) + 1} BY <1>1, <1>2
<1>4. DataAt = {i \in DOMAIN Line : IsData(Line[i])} /\ DataAt' = {i \in DOMAIN Line' : IsData(Line'[i])}
  BY DEF DataAt, IsData
<1> QED BY <1>1, <1>2, <1>3, <1>4

\* Every step is of one of the four kinds.
LEMMA Kinds ==
  ASSUME SimTypes, SimTypes', DownInv, [DeviceNext]_deviceVars
  PROVE  Quiet \/ (\E g \in Goroutine : Counts(g) \/ Pushes(g)) \/ Loses
<1> USE DEF loops, device, network, Holding
<1>0. /\ answer \in [Command -> AnswerState]
      /\ uplink.at = "push" => uplink.frame \in UplinkFrame
      /\ \A c \in Command : answer[c].at \in Holding => answer[c].frame \in DataFrame /\ IsData(answer[c].frame)
  BY DEF SimTypes, DataFrame, IsData
<1>1. CASE LoopTop \/ JoinRequest \/ UplinkTakesAck
  <2>1. SameFrames BY <1>1, LineUntouched DEF LoopTop, JoinRequest, UplinkTakesAck
  <2>2. answer' = answer /\ fCntUp' = fCntUp /\ cancelled' = cancelled
    BY <1>1 DEF LoopTop, JoinRequest, UplinkTakesAck
  <2>3. /\ uplink.at # "ended" /\ uplink.at \notin Holding
        /\ \/ uplink'.at \notin Holding \/ ~ IsData(uplink'.frame)
        /\ uplink'.at = "ended" => cancelled
    BY <1>1 DEF LoopTop, JoinRequest, UplinkTakesAck, At, Join, IsData, Parts
  <2>4. Location \notin Waiting /\ Location \notin Waiting' BY <2>3, HandsOf DEF Waiting, IsData
  <2>5. ASSUME NEW g \in Goroutine
        PROVE  \/ Of(g)' = Of(g)
               \/ /\ Of(g).at # "ended" /\ g \notin Waiting /\ g \notin Waiting'
                  /\ Of(g).at' = "ended" => cancelled
    BY <2>2, <2>3, <2>4, HandsOf
  <2> QED BY <2>1, <2>2, <2>5 DEF Quiet
<1>2. CASE UplinkTakesCount
  <2>1. SameFrames BY <1>2, LineUntouched DEF UplinkTakesCount
  <2>2. fCntUp' = fCntUp + 1 /\ cancelled' = cancelled /\ answer' = answer
    BY <1>2 DEF UplinkTakesCount, AfterFCnt
  <2>3. uplink.at = "count" /\ uplink' = At("address", uplink.ack, Data(fCntUp, uplink.ack, Location, NoKeys))
    BY <1>2 DEF UplinkTakesCount
  <2>4. OthersStay(Location) BY <2>2, HandsOf DEF OthersStay
  <2>5. Counts(Location) BY <2>1, <2>2, <2>3, <2>4, HandsOf DEF Counts
  <2> QED BY <2>5 DEF Goroutine
<1>3. CASE UplinkPushes
  <2> DEFINE f == uplink.frame
  <2>1. f \in UplinkFrame BY <1>0, <1>3 DEF UplinkPushes
  <2>2. Line' = Append(Line, f) BY <1>3, <2>1, LineGrows DEF UplinkPushes
  <2>3. fCntUp' = fCntUp /\ cancelled' = cancelled /\ answer' = answer
    BY <1>3 DEF UplinkPushes
  <2>4. uplink.at = "push" /\ uplink' = At("top", FALSE, NoFrame)
    BY <1>3 DEF UplinkPushes
  <2>5. OthersStay(Location) BY <2>3, HandsOf DEF OthersStay
  <2>6. CASE IsData(f)
    <3>1. Location \in Waiting BY <2>4, <2>6, HandsOf DEF Waiting, Goroutine
    <3>2. Of(Location)' = At(IF Location = Location THEN "top" ELSE "ended", FALSE, NoFrame) BY <2>4, HandsOf
    <3>3. DataAt' = DataAt \cup {Len(Line) + 1} /\ (\A i \in DataAt : Line'[i] = Line[i]) /\ Line'[Len(Line) + 1] = f
      BY <2>1, <2>2, <2>6, DataPushed
    <3>4. Of(Location).frame = f BY HandsOf
    <3>5. Pushes(Location) BY <2>3, <2>4, HandsOf, <2>5, <3>1, <3>2, <3>3, <3>4 DEF Pushes
    <3> QED BY <3>5 DEF Goroutine
  <2>7. CASE ~ IsData(f)
    <3>1. SameFrames BY <2>1, <2>2, <2>7, DataPushed DEF SameFrames
    <3>2. Location \notin Waiting /\ Location \notin Waiting' /\ uplink'.at = "top"
      BY <2>4, <2>7, HandsOf DEF Waiting, At, IsData, Parts
    <3>3. ASSUME NEW g \in Goroutine
          PROVE  \/ Of(g)' = Of(g)
                 \/ /\ Of(g).at # "ended" /\ g \notin Waiting /\ g \notin Waiting'
                    /\ Of(g).at' = "ended" => cancelled
      BY <2>3, <2>4, <3>2, HandsOf
    <3> QED BY <2>3, <3>1, <3>3 DEF Quiet
  <2> QED BY <2>6, <2>7
<1>30. CASE UplinkReadsPart
  <2>1. SameFrames BY <1>30, LineUntouched DEF UplinkReadsPart
  <2>2. fCntUp' = fCntUp /\ cancelled' = cancelled /\ answer' = answer
    BY <1>30 DEF UplinkReadsPart
  <2>3. /\ uplink.at \in Parts /\ uplink.frame \in DataFrame
        /\ uplink' = At(NextRead[uplink.at], uplink.ack, WithPart(uplink.frame, uplink.at))
    BY <1>30 DEF UplinkReadsPart, SimTypes
  <2>4. Reads(Location)
    <3>1. IsData(uplink.frame) BY <2>3 DEF DataFrame, IsData
    <3>2. IsData(WithPart(uplink.frame, uplink.at)) /\ NextRead[uplink.at] \in Holding BY <2>3, ReadTypes
    <3>3. uplink'.at \in Holding /\ IsData(uplink'.frame) BY <2>3, <3>2 DEF At
    <3>4. Location \in Waiting /\ Location \in Waiting'
      BY <2>3, <3>1, <3>3, HandsOf DEF Waiting, Goroutine, IsData
    <3> QED BY <2>3, <3>4, HandsOf DEF Reads
  <2>5. ASSUME NEW g \in Goroutine PROVE Of(g)' = Of(g) \/ Reads(g)
    BY <2>2, <2>4, HandsOf
  <2> QED BY <2>1, <2>2, <2>5 DEF Quiet
<1>31. ASSUME NEW c \in Command, AnswerReadsPart(c) PROVE Quiet
  <2>1. SameFrames BY <1>31, LineUntouched DEF AnswerReadsPart
  <2>2. fCntUp' = fCntUp /\ cancelled' = cancelled /\ uplink' = uplink
    BY <1>31 DEF AnswerReadsPart
  <2>3. /\ answer[c].at \in Parts /\ answer[c].frame \in DataFrame
        /\ answer'[c] = At(NextRead[answer[c].at], answer[c].ack, WithPart(answer[c].frame, answer[c].at))
        /\ \A d \in Command \ {c} : answer'[d] = answer[d]
    BY <1>0, <1>31 DEF AnswerReadsPart
  <2>4. Reads(c)
    <3>1. IsData(answer[c].frame) BY <2>3 DEF DataFrame, IsData
    <3>2. IsData(WithPart(answer[c].frame, answer[c].at)) /\ NextRead[answer[c].at] \in Holding BY <2>3, ReadTypes
    <3>3. answer'[c].at \in Holding /\ IsData(answer'[c].frame) BY <2>3, <3>2 DEF At
    <3>4. c \in Waiting /\ c \in Waiting'
      BY <2>3, <3>1, <3>3, HandsOf DEF Waiting, Goroutine, IsData
    <3> QED BY <2>3, <3>4, HandsOf DEF Reads
  <2>5. ASSUME NEW g \in Goroutine PROVE Of(g)' = Of(g) \/ Reads(g)
    BY <2>2, <2>3, <2>4, HandsOf
  <2> QED BY <2>1, <2>2, <2>5 DEF Quiet
<1>4. ASSUME NEW c \in Command, AnswerDelay(c) \/ AnswerTakesAck(c)
      PROVE  Quiet
  <2>1. SameFrames BY <1>4, LineUntouched DEF AnswerDelay, AnswerTakesAck
  <2>2. uplink' = uplink /\ fCntUp' = fCntUp /\ cancelled' = cancelled
    BY <1>4 DEF AnswerDelay, AnswerTakesAck
  <2>3. /\ answer[c].at # "ended" /\ answer[c].at \notin Holding /\ answer'[c].at \notin Holding /\ (answer'[c].at = "ended" => cancelled)
        /\ \A d \in Command \ {c} : answer'[d] = answer[d]
    <3>1. CASE AnswerDelay(c)
      <4>1. answer[c].at = "delay" BY <3>1 DEF AnswerDelay
      <4>2. PICK next \in {"ack"} \cup (IF cancelled THEN {"ended"} ELSE {}) : answer' = [answer EXCEPT ![c].at = next]
        BY <3>1 DEF AnswerDelay
      <4>3. answer[c] \in AnswerState BY <1>0
      <4>4. answer'[c].at = next BY <1>0, <4>2, <4>3 DEF AnswerState
      <4>5. \A d \in Command \ {c} : answer'[d] = answer[d] BY <1>0, <4>2
      <4>6. next = "ack" \/ (next = "ended" /\ cancelled) BY <4>2
      <4> QED BY <4>1, <4>4, <4>5, <4>6 DEF Parts
    <3>2. CASE AnswerTakesAck(c)
      BY <1>0, <3>2 DEF AnswerTakesAck, At, Parts
    <3> QED BY <1>4, <3>1, <3>2
  <2>4. c \notin Waiting /\ c \notin Waiting' BY <2>3, HandsOf DEF Waiting, IsData
  <2>5. ASSUME NEW g \in Goroutine
        PROVE  \/ Of(g)' = Of(g)
               \/ /\ Of(g).at # "ended" /\ g \notin Waiting /\ g \notin Waiting'
                  /\ Of(g).at' = "ended" => cancelled
    BY <2>2, <2>3, <2>4, HandsOf
  <2> QED BY <2>1, <2>2, <2>5 DEF Quiet
<1>5. ASSUME NEW c \in Command, AnswerTakesCount(c) PROVE Counts(c)
  <2>1. SameFrames BY <1>5, LineUntouched DEF AnswerTakesCount
  <2>2. fCntUp' = fCntUp + 1 /\ cancelled' = cancelled /\ uplink' = uplink
    BY <1>5 DEF AnswerTakesCount, AfterFCnt
  <2>3. /\ answer[c].at = "count" /\ answer'[c] = At("address", answer[c].ack, Data(fCntUp, answer[c].ack, c, NoKeys))
        /\ \A d \in Command \ {c} : answer'[d] = answer[d]
    BY <1>0, <1>5 DEF AnswerTakesCount
  <2>4. OthersStay(c) BY <2>2, <2>3, HandsOf DEF OthersStay
  <2> QED BY <2>1, <2>2, <2>3, <2>4, HandsOf DEF Counts
<1>6. ASSUME NEW c \in Command, AnswerPushes(c) PROVE Pushes(c)
  <2> DEFINE f == answer[c].frame
  <2>1. f \in UplinkFrame /\ IsData(f) /\ answer[c].at = "push" BY <1>0, <1>6 DEF AnswerPushes, UplinkFrame
  <2>2. Line' = Append(Line, f) BY <1>6, <2>1, LineGrows DEF AnswerPushes
  <2>3. fCntUp' = fCntUp /\ cancelled' = cancelled /\ uplink' = uplink
    BY <1>6 DEF AnswerPushes
  <2>4. answer'[c] = At("ended", FALSE, NoFrame) /\ \A d \in Command \ {c} : answer'[d] = answer[d]
    BY <1>0, <1>6 DEF AnswerPushes
  <2>5. OthersStay(c) BY <2>3, <2>4, HandsOf DEF OthersStay
  <2>6. c \in Waiting BY <2>1, HandsOf DEF Waiting, Goroutine
  <2>7. Of(c)' = At(IF c = Location THEN "top" ELSE "ended", FALSE, NoFrame) BY <2>4, HandsOf, Numbers
  <2>8. DataAt' = DataAt \cup {Len(Line) + 1} /\ (\A i \in DataAt : Line'[i] = Line[i]) /\ Line'[Len(Line) + 1] = f
    BY <2>1, <2>2, DataPushed
  <2>9. Of(c).frame = f BY HandsOf
  <2> QED BY <2>1, <2>3, HandsOf, <2>5, <2>6, <2>7, <2>8, <2>9 DEF Pushes
<1>7. CASE SenderFails
  <2>1. cancelled' /\ fCntUp' = fCntUp /\ uplink' = uplink /\ answer' = answer
    BY <1>7 DEF SenderFails
  <2>2. \A g \in Goroutine : Of(g)' = Of(g) BY <2>1, HandsOf
  <2>3. Len(published) \in Nat BY LineIndexes DEF LineShape
  <2>4. ASSUME NEW i \in DataAt'
        PROVE  /\ i \in Nat /\ ShiftPast(Len(published), i) \in DataAt
               /\ Line'[i] = Line[ShiftPast(Len(published), i)]
    <3>1. i \in DOMAIN Line' /\ IsData(Line'[i]) BY DEF DataAt, IsData
    <3>2. DOMAIN Line = 1 .. Len(Line) /\ Line \in Seq(UplinkFrame) BY LineFacts
    <3>3. Line' \in Seq(UplinkFrame)
      <4>1. Held' \in Seq(UplinkFrame) BY <1>7 DEF SenderFails, Held, At
      <4>2. published' \in Seq(UplinkFrame) /\ outboundUplinks' \in Seq(UplinkFrame) BY DEF SimTypes
      <4>3. Line' = (published' \o Held') \o outboundUplinks' BY DEF Line
      <4> QED BY <4>1, <4>2, <4>3
    <3>4. i \in 1 .. Len(Line') /\ i \in Nat BY <3>1, <3>3
    <3>5. /\ ShiftPast(Len(published), i) \in 1 .. Len(Line)
          /\ Line'[i] = Line[ShiftPast(Len(published), i)]
      BY <1>7, <3>4, LineLoses
    <3> QED BY <3>1, <3>2, <3>4, <3>5 DEF DataAt
  <2> QED BY <2>1, <2>2, <2>3, <2>4 DEF Loses
<1>8. CASE SenderTakes \/ SenderPublishes
  <2>1. SameFrames BY <1>8, LineStays, LineKept
  <2>2. fCntUp' = fCntUp /\ cancelled' = cancelled /\ uplink' = uplink /\ answer' = answer
    BY <1>8 DEF SenderTakes, SenderPublishes
  <2>3. \A g \in Goroutine : Of(g)' = Of(g) BY <2>2, HandsOf
  <2> QED BY <2>1, <2>2, <2>3 DEF Quiet
<1>9. CASE SenderEnds
  <2>1. Held' = Held /\ published' = published /\ outboundUplinks' = outboundUplinks
    BY <1>9 DEF SenderEnds, Held, At
  <2>2. SameFrames BY <2>1, LineKept DEF Line
  <2>3. fCntUp' = fCntUp /\ cancelled' = cancelled /\ uplink' = uplink /\ answer' = answer
    BY <1>9 DEF SenderEnds
  <2>4. \A g \in Goroutine : Of(g)' = Of(g) BY <2>3, HandsOf
  <2> QED BY <2>2, <2>3, <2>4 DEF Quiet
<1>10. CASE DownlinkEnds \/ JoinAccept \/ InvalidMic \/ Cancel \/ UNCHANGED deviceVars
  <2>1. SameFrames
    BY <1>10, LineUntouched DEF DownlinkEnds, JoinAccept, JoinAcceptArrives, DerivesAppSKey, DerivesNwkSKey, StoresPart, JoinAcceptActivates, InvalidMic, Cancel, deviceVars
  <2>2. fCntUp' = fCntUp /\ uplink' = uplink /\ answer' = answer /\ (cancelled' = cancelled \/ cancelled' = TRUE)
    BY <1>10 DEF DownlinkEnds, JoinAccept, JoinAcceptArrives, DerivesAppSKey, DerivesNwkSKey, StoresPart, JoinAcceptActivates, InvalidMic, Cancel, deviceVars
  <2>3. \A g \in Goroutine : Of(g)' = Of(g) BY <2>2, HandsOf
  <2>4. cancelled => cancelled' BY <2>2
  <2> QED BY <2>1, <2>2, <2>3, <2>4 DEF Quiet
<1>11. CASE DownlinkData
  <2> DEFINE c == Arrived.command
  <2>1. c \in Command /\ answer[c].at = "none" BY <1>11, ArrivedFacts DEF DownlinkData
  <2>2. SameFrames BY <1>11, LineUntouched DEF DownlinkData
  <2>3. fCntUp' = fCntUp /\ cancelled' = cancelled /\ uplink' = uplink
    BY <1>11 DEF DownlinkData
  <2>4. answer'[c].at \in {"delay", "silent"} /\ \A d \in Command \ {c} : answer'[d] = answer[d]
    BY <1>0, <1>11, <2>1 DEF DownlinkData, At
  <2> HIDE DEF c
  <2>5. c \notin Waiting /\ c \notin Waiting' BY <2>1, <2>4, HandsOf DEF Waiting, IsData, Parts
  <2>6. ASSUME NEW g \in Goroutine
        PROVE  \/ Of(g)' = Of(g)
               \/ /\ Of(g).at # "ended" /\ g \notin Waiting /\ g \notin Waiting'
                  /\ Of(g).at' = "ended" => cancelled
    BY <2>1, <2>3, <2>4, <2>5, HandsOf
  <2> QED BY <2>2, <2>3, <2>6 DEF Quiet
<1>12. ASSUME (\E n \in 1 .. MaxJoins : AcceptJoin(n)) \/ (\E b \in BOOLEAN : CommandArrives(b))
       PROVE  Quiet
  <2>1. SameFrames BY <1>12, LineUntouched DEF AcceptJoin, CommandArrives
  <2>2. fCntUp' = fCntUp /\ cancelled' = cancelled /\ uplink' = uplink /\ answer' = answer
    BY <1>12 DEF AcceptJoin, CommandArrives
  <2>3. \A g \in Goroutine : Of(g)' = Of(g) BY <2>2, HandsOf
  <2> QED BY <2>1, <2>2, <2>3 DEF Quiet
<1>13. \A c \in Command : c \in Goroutine BY DEF Goroutine
<1> QED BY <1>1, <1>2, <1>3, <1>30, <1>31, <1>4, <1>5, <1>6, <1>7, <1>8, <1>9, <1>10, <1>11, <1>12, <1>13
        DEF DeviceNext, UplinkLoop, DownlinkLoop, SenderLoop, AnswerGoroutine

(* The numbered frames, in line and in the hands of the goroutines.        *)
FramesInv ==
  /\ \A i \in DataAt : Line[i].fcnt < fCntUp
  /\ \A g \in Waiting : Of(g).frame.fcnt < fCntUp /\ Of(g).frame.command = g
  /\ OneFramePerNumber
  /\ LocationsInOrder
  /\ Location \in Waiting =>
       \A i \in DataAt : Line[i].command = Location => Line[i].fcnt < Of(Location).frame.fcnt
  /\ AnsweredOnce
  /\ \A i \in DataAt : Line[i].command # Location => Of(Line[i].command).at = "ended"

\* Who waits is told by the goroutine's own state.
LEMMA WaitingStays ==
  ASSUME NEW g \in Goroutine, Of(g)' = Of(g)
  PROVE  g \in Waiting' <=> g \in Waiting
BY DEF Waiting, IsData

\* The types of frames, in line and in hands.
LEMMA FrameTypes ==
  ASSUME SimTypes
  PROVE  /\ \A i \in DataAt : /\ i \in Nat /\ i <= Len(Line) /\ Line[i].fcnt \in Nat
                              /\ Line[i].command \in Goroutine /\ Line[i].keys \in KeySet /\ Line[i].ack \in BOOLEAN
         /\ \A g \in Waiting : Of(g).frame \in DataFrame /\ Of(g).frame.fcnt \in Nat /\ g \in Goroutine
         /\ Len(Line) \in Nat /\ fCntUp \in Nat
<1>1. \A f \in DataFrame : f.fcnt \in Nat /\ f.command \in Goroutine /\ f.keys \in KeySet /\ f.ack \in BOOLEAN
  BY DEF DataFrame
<1>2. \A i \in DataAt : i \in 1 .. Len(Line) /\ Line[i] \in DataFrame BY LineFacts
<1>3. Len(Line) \in Nat BY LineFacts
<1>4. ASSUME NEW g \in Waiting PROVE Of(g).frame \in DataFrame /\ g \in Goroutine
  <2>1. g \in Goroutine /\ Of(g).at \in Holding /\ IsData(Of(g).frame) BY DEF Waiting
  <2>2. CASE g = Location
    <3>1. uplink.frame \in UplinkFrame /\ IsData(uplink.frame) BY <2>1, <2>2, HandsOf DEF SimTypes, Holding, UplinkFrame
    <3> QED BY <2>1, <2>2, <3>1, HandsOf DEF UplinkFrame, JoinFrame, IsData
  <2>3. CASE g \in Command BY <2>1, <2>3, HandsOf DEF SimTypes
  <2> QED BY <2>1, <2>2, <2>3, HandsOf
<1> QED BY <1>1, <1>2, <1>3, <1>4 DEF SimTypes

\* Who reads a part keeps the frame's number, command and flag.
LEMMA ReadKeeps ==
  ASSUME SimTypes, NEW g \in Goroutine, Reads(g)
  PROVE  /\ g \in Waiting /\ g \in Waiting' /\ Of(g).at \in Parts /\ Of(g).at' \in Holding
         /\ Of(g).frame.fcnt' = Of(g).frame.fcnt /\ Of(g).frame.command' = Of(g).frame.command
         /\ Of(g).frame.ack' = Of(g).frame.ack /\ Of(g).ack' = Of(g).ack
         /\ Of(g).at' = NextRead[Of(g).at] /\ Of(g).frame.keys' = [Of(g).frame.keys EXCEPT ![Of(g).at] = keys[Of(g).at]]
<1>1. g \in Waiting /\ g \in Waiting' /\ Of(g).at \in Parts /\ Of(g).frame \in DataFrame BY FrameTypes DEF Reads
<1>2. Of(g)' = At(NextRead[Of(g).at], Of(g).ack, WithPart(Of(g).frame, Of(g).at)) BY DEF Reads
<1>3. Of(g).at' = NextRead[Of(g).at] /\ Of(g).ack' = Of(g).ack /\ Of(g).frame' = WithPart(Of(g).frame, Of(g).at)
  BY <1>2 DEF At
<1> QED BY <1>1, <1>3, ReadTypes

\* A quiet step keeps what is said of the frames.
LEMMA FramesQuiet ==
  ASSUME SimTypes, FramesInv, Quiet
  PROVE  FramesInv'
<1>1. DataAt' = DataAt /\ (\A i \in DataAt : Line'[i] = Line[i]) /\ fCntUp' = fCntUp /\ (~ cancelled' => ~ cancelled)
  BY DEF Quiet, SameFrames
<1>2. \A g \in Goroutine :
        /\ g \in Waiting' <=> g \in Waiting
        /\ g \in Waiting => Of(g).frame.fcnt' = Of(g).frame.fcnt /\ Of(g).frame.command' = Of(g).frame.command
  BY WaitingStays, ReadKeeps DEF Quiet
<1>3. Waiting' = Waiting /\ Waiting \subseteq Goroutine
  BY <1>2 DEF Waiting
<1>4. \A g \in Goroutine : (Of(g).at = "ended" => Of(g).at' = "ended") /\ (Of(g).at' = "ended" => Of(g).at = "ended" \/ cancelled)
  <2>1. \A g \in Goroutine : Of(g)' = Of(g) => (Of(g).at' = "ended" <=> Of(g).at = "ended") OBVIOUS
  <2>2. \A g \in Goroutine : Reads(g) => Of(g).at' # "ended" /\ Of(g).at # "ended"
    BY ReadKeeps DEF Holding, Parts
  <2> QED BY <2>1, <2>2 DEF Quiet
<1>5. (\A i \in DataAt : Line[i].fcnt < fCntUp)'
  BY <1>1 DEF FramesInv
<1>6. (\A g \in Waiting : Of(g).frame.fcnt < fCntUp /\ Of(g).frame.command = g)'
  BY <1>1, <1>2, <1>3 DEF FramesInv
<1>7. OneFramePerNumber'
  <2>1. (\A i, j \in DataAt : Line[i].fcnt = Line[j].fcnt => i = j)'
    BY <1>1 DEF FramesInv, OneFramePerNumber
  <2>2. (\A g \in Waiting, i \in DataAt : Line[i].fcnt # Of(g).frame.fcnt)'
    BY <1>1, <1>2, <1>3 DEF FramesInv, OneFramePerNumber
  <2>3. (\A g, h \in Waiting : Of(g).frame.fcnt = Of(h).frame.fcnt => g = h)'
    BY <1>2, <1>3 DEF FramesInv, OneFramePerNumber
  <2>4. ASSUME ~ cancelled', NEW n \in 0 .. fCntUp' - 1
        PROVE  ((\E i \in DataAt : Line[i].fcnt = n) \/ (\E g \in Waiting : Of(g).frame.fcnt = n))'
    <3>1. (\E i \in DataAt : Line[i].fcnt = n) \/ (\E g \in Waiting : Of(g).frame.fcnt = n)
      BY <1>1, <2>4 DEF FramesInv, OneFramePerNumber
    <3> QED BY <1>1, <1>2, <1>3, <3>1
  <2> QED BY <2>1, <2>2, <2>3, <2>4 DEF OneFramePerNumber
<1>8. LocationsInOrder'
  BY <1>1 DEF FramesInv, LocationsInOrder
<1>9. (Location \in Waiting => \A i \in DataAt : Line[i].command = Location => Line[i].fcnt < Of(Location).frame.fcnt)'
  BY <1>1, <1>2, <1>3 DEF FramesInv
<1>10. AnsweredOnce'
  <2>1. (\A i, j \in DataAt : Line[i].command = Line[j].command /\ Line[i].command # Location => i = j)'
    BY <1>1 DEF FramesInv, AnsweredOnce
  <2>2. ASSUME NEW c \in Command, answer'[c].at = "ended", ~ cancelled'
        PROVE  \E i \in DataAt' : Line'[i].command = c
    <3>1. c \in Goroutine /\ Of(c)' = answer'[c] /\ Of(c) = answer[c] BY HandsOf DEF Goroutine
    <3>2. Of(c).at' = "ended" BY <2>2, <3>1
    <3>3. answer[c].at = "ended" /\ ~ cancelled BY <1>1, <1>4, <2>2, <3>1, <3>2
    <3>4. \E i \in DataAt : Line[i].command = c BY <3>3 DEF FramesInv, AnsweredOnce
    <3> QED BY <1>1, <3>4
  <2> QED BY <2>1, <2>2 DEF AnsweredOnce
<1>11. (\A i \in DataAt : Line[i].command # Location => Of(Line[i].command).at = "ended")'
  <2>1. \A i \in DataAt : Line[i].command \in Goroutine BY FrameTypes
  <2>2. ASSUME NEW i \in DataAt', Line'[i].command # Location PROVE Of(Line[i].command).at' = "ended"
    <3>1. i \in DataAt /\ Line'[i] = Line[i] /\ Line[i].command \in Goroutine BY <1>1, <2>1, <2>2
    <3> QED BY <1>4, <2>2, <3>1 DEF FramesInv
  <2> QED BY <1>1, <2>2 DEF Of
<1> QED BY <1>5, <1>6, <1>7, <1>8, <1>9, <1>10, <1>11 DEF FramesInv

\* Nobody waited with the new number, and it is the greatest.
LEMMA FramesCounted ==
  ASSUME SimTypes, FramesInv, NEW g \in Goroutine, Counts(g)
  PROVE  FramesInv'
<1> DEFINE n == fCntUp
           new == Data(n, Of(g).ack, g, NoKeys)
<1>1. DataAt' = DataAt /\ (\A i \in DataAt : Line'[i] = Line[i]) /\ fCntUp' = n + 1 /\ cancelled' = cancelled
  BY DEF Counts, SameFrames
<1>2. n \in Nat /\ \A i \in DataAt : Line[i].fcnt \in Nat /\ Line[i].fcnt < n
  BY FrameTypes DEF FramesInv
<1>3. \A h \in Waiting : h \in Goroutine /\ Of(h).frame.fcnt \in Nat /\ Of(h).frame.fcnt < n /\ Of(h).frame.command = h
  BY FrameTypes DEF FramesInv
<1>4. g \notin Waiting /\ Of(g).at = "count" BY DEF Counts, Waiting, Holding, Parts
<1>5. /\ Of(g).at' = "address" /\ Of(g).frame' = new /\ new.fcnt = n /\ new.command = g /\ IsData(new)
  BY DEF Counts, At, Data, IsData
<1>6. g \in Waiting' BY <1>5 DEF Waiting, IsData, Holding, Parts
<1>7. \A h \in Goroutine \ {g} : Of(h)' = Of(h) /\ (h \in Waiting' <=> h \in Waiting)
  BY WaitingStays DEF Counts, OthersStay
<1>8. Waiting' = Waiting \cup {g}
  <2>1. Waiting \subseteq Goroutine /\ Waiting' \subseteq Goroutine BY DEF Waiting
  <2> QED BY <1>6, <1>7, <2>1
<1>9. \A h \in Waiting : Of(h)' = Of(h) BY <1>3, <1>4, <1>7
<1> HIDE DEF new
<1>10. (\A i \in DataAt : Line[i].fcnt < fCntUp)'
  BY <1>1, <1>2
<1>11. ASSUME NEW h \in Waiting'
       PROVE  Of(h).frame.fcnt' < fCntUp' /\ Of(h).frame.command' = h
  <2>1. CASE h = g BY <1>1, <1>2, <1>5, <2>1
  <2>2. CASE h \in Waiting BY <1>1, <1>2, <1>3, <1>9, <2>2
  <2> QED BY <1>8, <2>1, <2>2
<1>12. OneFramePerNumber'
  <2>1. (\A i, j \in DataAt : Line[i].fcnt = Line[j].fcnt => i = j)'
    BY <1>1 DEF FramesInv, OneFramePerNumber
  <2>2. ASSUME NEW h \in Waiting', NEW i \in DataAt' PROVE Line'[i].fcnt # Of(h).frame.fcnt'
    <3>1. CASE h = g BY <1>1, <1>2, <1>5, <3>1
    <3>2. CASE h \in Waiting BY <1>1, <1>9, <3>2 DEF FramesInv, OneFramePerNumber
    <3> QED BY <1>8, <3>1, <3>2
  <2>3. ASSUME NEW h \in Waiting', NEW k \in Waiting', Of(h).frame.fcnt' = Of(k).frame.fcnt' PROVE h = k
    <3>1. CASE h = g /\ k \in Waiting BY <1>2, <1>3, <1>5, <1>9, <2>3, <3>1
    <3>2. CASE h \in Waiting /\ k = g BY <1>2, <1>3, <1>5, <1>9, <2>3, <3>2
    <3>3. CASE h \in Waiting /\ k \in Waiting BY <1>9, <2>3, <3>3 DEF FramesInv, OneFramePerNumber
    <3> QED BY <1>8, <3>1, <3>2, <3>3
  <2>4. ASSUME ~ cancelled', NEW m \in 0 .. fCntUp' - 1
        PROVE  (\E i \in DataAt' : Line'[i].fcnt = m) \/ (\E h \in Waiting' : Of(h).frame.fcnt' = m)
    <3>1. CASE m = n BY <1>5, <1>6, <3>1
    <3>2. CASE m # n
      <4>1. m \in 0 .. n - 1 BY <1>1, <1>2, <3>2
      <4>2. (\E i \in DataAt : Line[i].fcnt = m) \/ (\E h \in Waiting : Of(h).frame.fcnt = m)
        BY <1>1, <2>4, <4>1 DEF FramesInv, OneFramePerNumber
      <4> QED BY <1>1, <1>8, <1>9, <4>2
    <3> QED BY <3>1, <3>2
  <2> QED BY <2>1, <2>2, <2>3, <2>4 DEF OneFramePerNumber
<1>13. LocationsInOrder'
  BY <1>1 DEF FramesInv, LocationsInOrder
<1>14. ASSUME Location \in Waiting', NEW i \in DataAt', Line'[i].command = Location
       PROVE  Line'[i].fcnt < Of(Location).frame.fcnt'
  <2>1. CASE g = Location BY <1>1, <1>2, <1>5, <2>1
  <2>2. CASE Location \in Waiting BY <1>1, <1>9, <1>14, <2>2 DEF FramesInv
  <2> QED BY <1>8, <1>14, <2>1, <2>2
<1>15. \A h \in Goroutine : Of(h).at' = "ended" <=> Of(h).at = "ended"
  <2>1. \A h \in Goroutine \ {g} : Of(h).at' = Of(h).at BY <1>7
  <2> QED BY <1>4, <1>5, <2>1
<1>16. AnsweredOnce'
  <2>1. (\A i, j \in DataAt : Line[i].command = Line[j].command /\ Line[i].command # Location => i = j)'
    BY <1>1 DEF FramesInv, AnsweredOnce
  <2>2. ASSUME NEW c \in Command, answer'[c].at = "ended", ~ cancelled'
        PROVE  \E i \in DataAt' : Line'[i].command = c
    <3>1. c \in Goroutine /\ Of(c)' = answer'[c] /\ Of(c) = answer[c] BY HandsOf DEF Goroutine
    <3>2. answer[c].at = "ended" /\ ~ cancelled BY <1>1, <1>15, <2>2, <3>1
    <3>3. \E i \in DataAt : Line[i].command = c BY <3>2 DEF FramesInv, AnsweredOnce
    <3> QED BY <1>1, <3>3
  <2> QED BY <2>1, <2>2 DEF AnsweredOnce
<1>17. ASSUME NEW i \in DataAt', Line'[i].command # Location PROVE Of(Line[i].command).at' = "ended"
  <2>1. i \in DataAt /\ Line'[i] = Line[i] /\ Line[i].command \in Goroutine BY <1>1, <1>17, FrameTypes
  <2>2. Of(Line[i].command).at = "ended" BY <1>17, <2>1 DEF FramesInv
  <2> QED BY <1>15, <2>1, <2>2
<1>18. (\A h \in Waiting : Of(h).frame.fcnt < fCntUp /\ Of(h).frame.command = h)'
  BY <1>11
<1>19. (\A i \in DataAt : Line[i].command # Location => Of(Line[i].command).at = "ended")'
  BY <1>17 DEF Of
<1>20. (Location \in Waiting => \A i \in DataAt : Line[i].command = Location => Line[i].fcnt < Of(Location).frame.fcnt)'
  BY <1>14
<1> QED BY <1>10, <1>12, <1>13, <1>16, <1>18, <1>19, <1>20 DEF FramesInv

\* The frame that waited is in line, behind all others.
LEMMA FramesPushed ==
  ASSUME SimTypes, FramesInv, NEW g \in Goroutine, Pushes(g)
  PROVE  FramesInv'
<1> DEFINE z == Len(Line) + 1
           f == Of(g).frame
<1>1. /\ DataAt' = DataAt \cup {z} /\ (\A i \in DataAt : Line'[i] = Line[i]) /\ Line'[z] = f
      /\ fCntUp' = fCntUp /\ cancelled' = cancelled /\ g \in Waiting
  BY DEF Pushes
<1>2. z \in Nat /\ \A i \in DataAt : i \in Nat /\ i < z /\ Line[i].fcnt \in Nat
  BY FrameTypes
<1>3. f.command = g /\ f.fcnt < fCntUp /\ f.fcnt \in Nat BY <1>1, FrameTypes DEF FramesInv
<1>4. Of(g).at \in Holding /\ Of(g).at # "ended" BY <1>1 DEF Waiting, Holding, Parts
<1>5. /\ Of(g).at' \notin Holding /\ (g # Location => Of(g).at' = "ended") /\ (Of(g).at' = "ended" => g # Location)
  BY DEF Pushes, At, Holding, Parts
<1>6. \A h \in Goroutine \ {g} : Of(h)' = Of(h) /\ (h \in Waiting' <=> h \in Waiting)
  BY WaitingStays DEF Pushes, OthersStay
<1>7. Waiting' = Waiting \ {g} /\ Waiting \subseteq Goroutine
  <2>1. Waiting \subseteq Goroutine /\ Waiting' \subseteq Goroutine BY DEF Waiting
  <2>2. g \notin Waiting' BY <1>5 DEF Waiting
  <2> QED BY <1>6, <2>1, <2>2
<1>8. \A h \in Waiting' : h \in Waiting /\ h # g /\ Of(h)' = Of(h) BY <1>6, <1>7
<1>9. \A i \in DataAt : Line[i].fcnt # f.fcnt BY <1>1 DEF FramesInv, OneFramePerNumber
<1> HIDE DEF z, f
<1>10. \A i \in DataAt' : (i \in DataAt /\ Line'[i] = Line[i]) \/ (i = z /\ Line'[i] = f)
  BY <1>1
<1>11. (\A i \in DataAt : Line[i].fcnt < fCntUp)'
  BY <1>1, <1>3, <1>10 DEF FramesInv
<1>12. (\A h \in Waiting : Of(h).frame.fcnt < fCntUp /\ Of(h).frame.command = h)'
  BY <1>1, <1>8 DEF FramesInv
<1>13. OneFramePerNumber'
  <2>1. ASSUME NEW i \in DataAt', NEW j \in DataAt', Line'[i].fcnt = Line'[j].fcnt PROVE i = j
    <3>1. CASE i \in DataAt /\ j \in DataAt BY <1>1, <2>1, <3>1 DEF FramesInv, OneFramePerNumber
    <3>2. CASE i = z /\ j \in DataAt BY <1>1, <1>9, <2>1, <3>2
    <3>3. CASE i \in DataAt /\ j = z BY <1>1, <1>9, <2>1, <3>3
    <3> QED BY <1>10, <3>1, <3>2, <3>3
  <2>2. ASSUME NEW h \in Waiting', NEW i \in DataAt' PROVE Line'[i].fcnt # Of(h).frame.fcnt'
    <3>1. h \in Waiting /\ h # g /\ Of(h)' = Of(h) BY <1>8
    <3>2. CASE i \in DataAt BY <1>1, <3>1, <3>2 DEF FramesInv, OneFramePerNumber
    <3>3. CASE i = z
      <4>1. f.fcnt # Of(h).frame.fcnt BY <1>1, <3>1 DEF FramesInv, OneFramePerNumber, f
      <4> QED BY <1>1, <3>1, <3>3, <4>1
    <3> QED BY <1>10, <3>2, <3>3
  <2>3. (\A h, k \in Waiting : Of(h).frame.fcnt = Of(k).frame.fcnt => h = k)'
    BY <1>8 DEF FramesInv, OneFramePerNumber
  <2>4. ASSUME ~ cancelled', NEW m \in 0 .. fCntUp' - 1
        PROVE  (\E i \in DataAt' : Line'[i].fcnt = m) \/ (\E h \in Waiting' : Of(h).frame.fcnt' = m)
    <3>1. (\E i \in DataAt : Line[i].fcnt = m) \/ (\E h \in Waiting : Of(h).frame.fcnt = m)
      BY <1>1, <2>4 DEF FramesInv, OneFramePerNumber
    <3>2. CASE \E i \in DataAt : Line[i].fcnt = m BY <1>1, <3>2
    <3>3. CASE \E h \in Waiting : Of(h).frame.fcnt = m
      <4>1. PICK h \in Waiting : Of(h).frame.fcnt = m BY <3>3
      <4>2. CASE h = g BY <1>1, <4>1, <4>2 DEF f
      <4>3. CASE h # g
        <5>1. h \in Waiting' /\ Of(h)' = Of(h) BY <1>7, <1>8, <4>3
        <5>2. Of(h).frame.fcnt' = m BY <4>1, <5>1
        <5> QED BY <5>1, <5>2
      <4> QED BY <4>2, <4>3
    <3> QED BY <3>1, <3>2, <3>3
  <2> QED BY <2>1, <2>2, <2>3, <2>4 DEF OneFramePerNumber
<1>14. LocationsInOrder'
  <2>1. ASSUME NEW i \in DataAt', NEW j \in DataAt', i < j, Line'[i].command = Location, Line'[j].command = Location
        PROVE  Line'[i].fcnt < Line'[j].fcnt
    <3>1. CASE i \in DataAt /\ j \in DataAt BY <1>1, <2>1, <3>1 DEF FramesInv, LocationsInOrder
    <3>2. CASE i = z BY <1>2, <1>10, <2>1, <3>2
    <3>3. CASE i \in DataAt /\ j = z
      <4>1. g = Location BY <1>1, <1>3, <2>1, <3>3
      <4>2. Line[i].fcnt < f.fcnt BY <1>1, <2>1, <3>3, <4>1 DEF FramesInv, f
      <4> QED BY <1>1, <3>3, <4>2
    <3> QED BY <1>10, <3>1, <3>2, <3>3
  <2> QED BY <2>1 DEF LocationsInOrder
<1>15. (Location \in Waiting => \A i \in DataAt : Line[i].command = Location => Line[i].fcnt < Of(Location).frame.fcnt)'
  <2> SUFFICES ASSUME Location \in Waiting', NEW i \in DataAt', Line'[i].command = Location
      PROVE  Line'[i].fcnt < Of(Location).frame.fcnt'
    OBVIOUS
  <2>1. Location \in Waiting /\ Location # g /\ Of(Location)' = Of(Location) BY <1>8
  <2>2. i \in DataAt /\ Line'[i] = Line[i] BY <1>3, <1>10, <2>1
  <2> QED BY <2>1, <2>2 DEF FramesInv
<1>16. \A h \in Goroutine \ {g} : Of(h).at' = Of(h).at BY <1>6
<1>17. AnsweredOnce'
  <2>1. ASSUME NEW i \in DataAt', NEW j \in DataAt', Line'[i].command = Line'[j].command, Line'[i].command # Location
        PROVE  i = j
    <3>1. CASE i \in DataAt /\ j \in DataAt BY <1>1, <2>1, <3>1 DEF FramesInv, AnsweredOnce
    <3>2. CASE (i = z /\ j \in DataAt) \/ (i \in DataAt /\ j = z)
      <4>1. PICK k \in DataAt : Line[k].command = g /\ g # Location BY <1>1, <1>3, <2>1, <3>2
      <4>2. Of(g).at = "ended" BY <4>1 DEF FramesInv
      <4> QED BY <1>4, <4>2
    <3> QED BY <1>10, <3>1, <3>2
  <2>2. ASSUME NEW c \in Command, answer'[c].at = "ended", ~ cancelled'
        PROVE  \E i \in DataAt' : Line'[i].command = c
    <3>1. c \in Goroutine /\ Of(c)' = answer'[c] /\ Of(c) = answer[c] BY HandsOf DEF Goroutine
    <3>2. CASE c = g BY <1>1, <1>3, <3>2
    <3>3. CASE c # g
      <4>1. answer[c].at = "ended" /\ ~ cancelled BY <1>1, <1>16, <2>2, <3>1, <3>3
      <4>2. \E i \in DataAt : Line[i].command = c BY <4>1 DEF FramesInv, AnsweredOnce
      <4> QED BY <1>1, <4>2
    <3> QED BY <3>2, <3>3
  <2> QED BY <2>1, <2>2 DEF AnsweredOnce
<1>18. ASSUME NEW i \in DataAt', Line'[i].command # Location PROVE Of(Line[i].command).at' = "ended"
  <2>1. CASE i \in DataAt /\ Line'[i] = Line[i]
    <3>1. Line[i].command \in Goroutine /\ Of(Line[i].command).at = "ended" BY <1>18, <2>1, FrameTypes DEF FramesInv
    <3>2. Line[i].command # g BY <1>4, <3>1
    <3> QED BY <1>16, <2>1, <3>1, <3>2
  <2>2. CASE i = z /\ Line'[i] = f BY <1>3, <1>5, <1>18, <2>2
  <2> QED BY <1>10, <2>1, <2>2
<1>19. (\A i \in DataAt : Line[i].command # Location => Of(Line[i].command).at = "ended")'
  BY <1>18 DEF Of
<1> QED BY <1>11, <1>12, <1>13, <1>14, <1>15, <1>17, <1>19 DEF FramesInv

\* A frame is lost only when the device stops; the others keep their order.
LEMMA FramesLost ==
  ASSUME SimTypes, FramesInv, Loses
  PROVE  FramesInv'
<1> DEFINE old(i) == ShiftPast(Len(published), i)
<1>1. /\ cancelled' /\ fCntUp' = fCntUp /\ \A g \in Goroutine : Of(g)' = Of(g)
      /\ \A i \in DataAt' : old(i) \in DataAt /\ Line'[i] = Line[old(i)]
  BY DEF Loses
<1>2. \A i, j \in DataAt' : (i < j => old(i) < old(j)) /\ (old(i) = old(j) => i = j)
  <2>1. \A i \in DataAt' : i \in Nat BY DEF Loses
  <2>2. Len(published) \in Nat BY DEF Loses
  <2> QED BY <2>1, <2>2 DEF ShiftPast
<1> HIDE DEF old
<1>3. Waiting' = Waiting /\ Waiting \subseteq Goroutine
  <2>1. Waiting \subseteq Goroutine /\ Waiting' \subseteq Goroutine BY DEF Waiting
  <2> QED BY <1>1, <2>1, WaitingStays
<1>4. \A h \in Waiting : Of(h)' = Of(h) BY <1>1, <1>3
<1>5. (\A i \in DataAt : Line[i].fcnt < fCntUp)'
  BY <1>1 DEF FramesInv
<1>6. (\A h \in Waiting : Of(h).frame.fcnt < fCntUp /\ Of(h).frame.command = h)'
  BY <1>1, <1>3, <1>4 DEF FramesInv
<1>7. OneFramePerNumber'
  <2>1. (\A i, j \in DataAt : Line[i].fcnt = Line[j].fcnt => i = j)'
    BY <1>1, <1>2 DEF FramesInv, OneFramePerNumber
  <2>2. (\A h \in Waiting, i \in DataAt : Line[i].fcnt # Of(h).frame.fcnt)'
    BY <1>1, <1>3, <1>4 DEF FramesInv, OneFramePerNumber
  <2>3. (\A h, k \in Waiting : Of(h).frame.fcnt = Of(k).frame.fcnt => h = k)'
    BY <1>3, <1>4 DEF FramesInv, OneFramePerNumber
  <2> QED BY <1>1, <2>1, <2>2, <2>3 DEF OneFramePerNumber
<1>8. LocationsInOrder'
  BY <1>1, <1>2 DEF FramesInv, LocationsInOrder
<1>9. (Location \in Waiting => \A i \in DataAt : Line[i].command = Location => Line[i].fcnt < Of(Location).frame.fcnt)'
  BY <1>1, <1>3, <1>4 DEF FramesInv
<1>10. AnsweredOnce'
  <2>1. (\A i, j \in DataAt : Line[i].command = Line[j].command /\ Line[i].command # Location => i = j)'
    BY <1>1, <1>2 DEF FramesInv, AnsweredOnce
  <2> QED BY <1>1, <2>1 DEF AnsweredOnce
<1>11. ASSUME NEW i \in DataAt', Line'[i].command # Location PROVE Of(Line[i].command).at' = "ended"
  <2>1. old(i) \in DataAt /\ Line'[i] = Line[old(i)] BY <1>1
  <2>2. Line[old(i)].command \in Goroutine BY <2>1, FrameTypes
  <2>3. Of(Line[old(i)].command).at = "ended" BY <1>11, <2>1 DEF FramesInv
  <2> QED BY <1>1, <2>1, <2>2, <2>3
<1>12. (\A i \in DataAt : Line[i].command # Location => Of(Line[i].command).at = "ended")'
  BY <1>11 DEF Of
<1> QED BY <1>5, <1>6, <1>7, <1>8, <1>9, <1>10, <1>12 DEF FramesInv

\* So what is said of the frames is kept by every step.
LEMMA NextFrames == SimTypes /\ SimTypes' /\ DownInv /\ FramesInv /\ [DeviceNext]_deviceVars => FramesInv'
BY Kinds, FramesQuiet, FramesCounted, FramesPushed, FramesLost

(* Keys: those of the device, those a goroutine reads, those of frames.    *)
Complete == \A p \in Parts : keys[p].accept \in accepted

InUse ==
  \/ activated
  \/ uplink.at \in {"ack", "count"} \cup Parts
  \/ \E c \in Command : answer[c].at \in {"delay", "ack", "count"} \cup Parts

Given(k) == k.accept \in accepted /\ k.request <= MaxJoins

KeysInv ==
  /\ devNonce <= MaxJoins /\ (uplink.at = "join" => devNonce < MaxJoins)
  /\ \A p \in Parts : keys[p].accept \in accepted \cup {0} /\ keys[p].request <= MaxJoins
  /\ InUse => Complete
  /\ downlink.at # "store" => activated \/ keys = NoKeys
  /\ downlink.at \in {"appSKey", "nwkSKey"} => downlink.frame.nonce \in accepted
  /\ downlink.at = "nwkSKey" => \A p \in {"address", "appSKey"} : Given(downlink.derived[p])
  /\ downlink.at = "store" => \A p \in Parts :
       (downlink.derived[p] = NoPart /\ keys[p].accept \in accepted) \/ Given(downlink.derived[p])

\* The parts that a goroutine has read before it comes to where it is.
ReadBefore(where) ==
  IF where = "address" THEN {} ELSE IF where = "appSKey" THEN {"address"}
  ELSE IF where = "nwkSKey" THEN {"address", "appSKey"} ELSE Parts

FrameKeysInv ==
  /\ \A i \in DataAt, p \in Parts : Line[i].keys[p].accept \in accepted
  /\ \A g \in Waiting : \A p \in ReadBefore(Of(g).at) : Of(g).frame.keys[p].accept \in accepted

ChannelsInv == Len(outboundUplinks) <= Capacity /\ Len(downlinkFrames) <= Capacity

\* Nobody appends to a channel that is full.
LEMMA NextChannels == SimTypes /\ ChannelsInv /\ [DeviceNext]_deviceVars => ChannelsInv'
<1> SUFFICES ASSUME SimTypes, ChannelsInv, [DeviceNext]_deviceVars PROVE ChannelsInv'
  OBVIOUS
<1> USE DEF loops, device, network
<1>1. /\ outboundUplinks \in Seq(UplinkFrame) /\ downlinkFrames \in Seq(AcceptFrame \cup CommandFrame)
      /\ Len(outboundUplinks) \in Nat /\ Len(downlinkFrames) \in Nat /\ Capacity \in Nat
  BY CapacityIsPositive DEF SimTypes
<1>2. \/ outboundUplinks' = outboundUplinks
      \/ Len(outboundUplinks) < Capacity /\ \E f : outboundUplinks' = Append(outboundUplinks, f)
      \/ outboundUplinks # <<>> /\ outboundUplinks' = Tail(outboundUplinks)
  BY DEF DeviceNext, UplinkLoop, LoopTop, JoinRequest, UplinkTakesAck, UplinkTakesCount, UplinkReadsPart, UplinkPushes,
         SenderLoop, SenderTakes, SenderPublishes, SenderFails, SenderEnds, Cancel, deviceVars,
         DownlinkLoop, DownlinkEnds, JoinAccept, JoinAcceptArrives, DerivesAppSKey, DerivesNwkSKey, StoresPart, JoinAcceptActivates, DownlinkData, InvalidMic,
         AnswerGoroutine, AnswerDelay, AnswerTakesAck, AnswerTakesCount, AnswerReadsPart, AnswerPushes, AcceptJoin, CommandArrives
<1>3. \/ downlinkFrames' = downlinkFrames
      \/ Len(downlinkFrames) < Capacity /\ \E f : downlinkFrames' = Append(downlinkFrames, f)
      \/ downlinkFrames # <<>> /\ downlinkFrames' = Tail(downlinkFrames)
  BY DEF DeviceNext, UplinkLoop, LoopTop, JoinRequest, UplinkTakesAck, UplinkTakesCount, UplinkReadsPart, UplinkPushes,
         SenderLoop, SenderTakes, SenderPublishes, SenderFails, SenderEnds, Cancel, deviceVars,
         DownlinkLoop, DownlinkEnds, JoinAccept, JoinAcceptArrives, DerivesAppSKey, DerivesNwkSKey, StoresPart, JoinAcceptActivates, DownlinkData, InvalidMic,
         AnswerGoroutine, AnswerDelay, AnswerTakesAck, AnswerTakesCount, AnswerReadsPart, AnswerPushes, AcceptJoin, CommandArrives
<1>4. ASSUME NEW S, NEW s \in Seq(S), NEW t, Len(s) <= Capacity,
             \/ t = s
             \/ Len(s) < Capacity /\ \E f : t = Append(s, f)
             \/ s # <<>> /\ t = Tail(s)
      PROVE  Len(t) <= Capacity
  <2>0. Len(s) \in Nat /\ Capacity \in Nat BY <1>1, <1>4
  <2>1. CASE t = s BY <1>4, <2>1
  <2>2. CASE Len(s) < Capacity /\ \E f : t = Append(s, f)
    <3>1. PICK f : t = Append(s, f) BY <2>2
    <3>2. Len(t) = Len(s) + 1 BY <3>1
    <3> QED BY <2>0, <2>2, <3>2
  <2>3. CASE s # <<>> /\ t = Tail(s)
    <3>1. Len(t) = Len(s) - 1 BY <2>3, HeadTailProperties
    <3> QED BY <1>4, <2>0, <3>1
  <2> QED BY <1>4, <2>1, <2>2, <2>3
<1>5. Len(outboundUplinks') <= Capacity BY <1>1, <1>2, <1>4 DEF ChannelsInv
<1>6. Len(downlinkFrames') <= Capacity BY <1>1, <1>3, <1>4 DEF ChannelsInv
<1> QED BY <1>5, <1>6 DEF ChannelsInv

\* The nonces and the session only go on.
LEMMA KeysGoOn ==
  ASSUME SimTypes, [DeviceNext]_deviceVars
  PROVE  accepted \subseteq accepted' /\ devNonce \in Nat /\ devNonce' \in Nat /\ devNonce <= devNonce'
<1> USE DEF loops, device, network
<1>1. devNonce \in Nat BY DEF SimTypes
<1>2. accepted' = accepted \/ \E n \in 1 .. MaxJoins : accepted' = accepted \cup {n}
  BY DEF DeviceNext, UplinkLoop, LoopTop, JoinRequest, UplinkTakesAck, UplinkTakesCount, UplinkReadsPart, UplinkPushes,
         SenderLoop, SenderTakes, SenderPublishes, SenderFails, SenderEnds, Cancel, deviceVars,
         DownlinkLoop, DownlinkEnds, JoinAccept, JoinAcceptArrives, DerivesAppSKey, DerivesNwkSKey, StoresPart, JoinAcceptActivates, DownlinkData, InvalidMic,
         AnswerGoroutine, AnswerDelay, AnswerTakesAck, AnswerTakesCount, AnswerReadsPart, AnswerPushes, AcceptJoin, CommandArrives
<1>3. devNonce' = devNonce \/ devNonce' = devNonce + 1
  BY DEF DeviceNext, UplinkLoop, LoopTop, JoinRequest, UplinkTakesAck, UplinkTakesCount, UplinkReadsPart, UplinkPushes,
         SenderLoop, SenderTakes, SenderPublishes, SenderFails, SenderEnds, Cancel, deviceVars,
         DownlinkLoop, DownlinkEnds, JoinAccept, JoinAcceptArrives, DerivesAppSKey, DerivesNwkSKey, StoresPart, JoinAcceptActivates, DownlinkData, InvalidMic,
         AnswerGoroutine, AnswerDelay, AnswerTakesAck, AnswerTakesCount, AnswerReadsPart, AnswerPushes, AcceptJoin, CommandArrives
<1> QED BY <1>1, <1>2, <1>3

\* The keys stay, and nobody begins to use them who may not.
LEMMA KeysStay ==
  ASSUME SimTypes, KeysInv, UNCHANGED <<downlink, activated, keys>>, accepted \subseteq accepted',
         devNonce' <= MaxJoins, uplink'.at = "join" => devNonce' < MaxJoins, InUse' => InUse \/ Complete
  PROVE  KeysInv'
<1>1. Complete => Complete' BY DEF Complete
<1>2. \A k : Given(k) => Given(k)' BY DEF Given
<1>3. (InUse => Complete)' BY <1>1 DEF KeysInv
<1>4. (\A p \in Parts : keys[p].accept \in accepted \cup {0} /\ keys[p].request <= MaxJoins)' BY DEF KeysInv
<1>5. (downlink.at = "nwkSKey" => \A p \in {"address", "appSKey"} : Given(downlink.derived[p]))' BY <1>2 DEF KeysInv, Given
<1>6. (downlink.at = "store" => \A p \in Parts :
         (downlink.derived[p] = NoPart /\ keys[p].accept \in accepted) \/ Given(downlink.derived[p]))'
  BY <1>2 DEF KeysInv, Given
<1>7. (downlink.at # "store" => activated \/ keys = NoKeys)' BY DEF KeysInv
<1>8. (downlink.at \in {"appSKey", "nwkSKey"} => downlink.frame.nonce \in accepted)' BY DEF KeysInv
<1> QED BY <1>3, <1>4, <1>5, <1>6, <1>7, <1>8 DEF KeysInv

\* The steps of joinAccept.
LEMMA JoinKeys ==
  ASSUME SimTypes, DownInv, KeysInv, JoinAccept
  PROVE  KeysInv'
<1> USE DEF loops, device, network
<1>0. /\ UNCHANGED <<uplink, answer, accepted, devNonce>> /\ devNonce \in Nat /\ MaxJoins \in Nat
      /\ accepted \subseteq 1 .. MaxJoins /\ \A n \in accepted : n \in Nat /\ n <= MaxJoins
      /\ devNonce <= MaxJoins /\ (uplink.at = "join" => devNonce < MaxJoins)
  <2>1. UNCHANGED <<uplink, answer, accepted, devNonce>>
    BY DEF JoinAccept, JoinAcceptArrives, DerivesAppSKey, DerivesNwkSKey, StoresPart, JoinAcceptActivates
  <2>2. accepted \subseteq 1 .. MaxJoins /\ devNonce \in Nat BY DEF SimTypes
  <2> QED BY <2>1, <2>2, BoundsAreNumbers DEF KeysInv
<1>1. ASSUME UNCHANGED <<activated, keys>>
      PROVE  /\ (\A p \in Parts : keys[p].accept \in accepted \cup {0} /\ keys[p].request <= MaxJoins)'
             /\ (InUse => Complete)'
  BY <1>0, <1>1 DEF KeysInv, InUse, Complete
<1>2. CASE JoinAcceptArrives
  <2>1. UNCHANGED <<activated, keys>> /\ downlink.at = "idle" /\ downlink'.at = "appSKey" /\ downlink'.frame = Arrived
    BY <1>2 DEF JoinAcceptArrives
  <2>2. Arrived.nonce \in accepted BY <1>2, ArrivedFacts DEF JoinAcceptArrives
  <2>3. activated \/ keys = NoKeys BY <2>1 DEF KeysInv
  <2> QED BY <1>0, <1>1, <2>1, <2>2, <2>3 DEF KeysInv
<1>3. CASE DerivesAppSKey
  <2> DEFINE n == downlink.frame.nonce
  <2>1. UNCHANGED <<activated, keys>> /\ downlink.at = "appSKey" /\ downlink'.at = "nwkSKey" /\ downlink'.frame = downlink.frame
    BY <1>3 DEF DerivesAppSKey
  <2>2. downlink'.derived["address"] = Part(n, n) /\ downlink'.derived["appSKey"] = Part(n, devNonce)
    BY <1>3 DEF DerivesAppSKey
  <2>3. n \in accepted BY <2>1 DEF KeysInv
  <2>4. activated \/ keys = NoKeys BY <2>1 DEF KeysInv
  <2>5. downlink'.frame.nonce \in accepted' BY <1>0, <2>1, <2>3
  <2> HIDE DEF n
  <2>6. Given(Part(n, n)) /\ Given(Part(n, devNonce)) BY <1>0, <2>3 DEF Given, Part
  <2>7. (\A p \in {"address", "appSKey"} : Given(downlink.derived[p]))' BY <1>0, <2>2, <2>6 DEF Given
  <2> QED BY <1>0, <1>1, <2>1, <2>4, <2>5, <2>7 DEF KeysInv
<1>4. CASE DerivesNwkSKey
  <2> DEFINE last == Part(downlink.frame.nonce, devNonce)
  <2>1. UNCHANGED <<activated, keys>> /\ downlink.at = "nwkSKey" /\ downlink'.at = "store"
    BY <1>4 DEF DerivesNwkSKey
  <2>2. downlink' = [at |-> "store", frame |-> downlink.frame, derived |-> [downlink.derived EXCEPT !.nwkSKey = last]]
    BY <1>4 DEF DerivesNwkSKey
  <2>3. downlink.derived \in KeySet BY DEF SimTypes, DownlinkState
  <2>4. downlink.frame.nonce \in accepted BY <2>1 DEF KeysInv
  <2>5. Given(last) BY <1>0, <2>4 DEF Given, Part
  <2> HIDE DEF last
  <2>6. \A p \in Parts : downlink'.derived[p] = IF p = "nwkSKey" THEN last ELSE downlink.derived[p]
    BY <2>2, <2>3 DEF KeySet
  <2>7. \A p \in {"address", "appSKey"} : Given(downlink.derived[p]) BY <2>1 DEF KeysInv
  <2>8. \A p \in Parts : Given(downlink'.derived[p]) BY <2>5, <2>6, <2>7 DEF Parts
  <2>9. (\A p \in Parts : Given(downlink.derived[p]))' BY <1>0, <2>8 DEF Given
  <2> QED BY <1>0, <1>1, <2>1, <2>9 DEF KeysInv
<1>5. ASSUME NEW p \in Parts, StoresPart(p) PROVE KeysInv'
  <2>1. /\ downlink.at = "store" /\ downlink.derived[p] # NoPart /\ activated' = activated
        /\ keys' = [keys EXCEPT ![p] = downlink.derived[p]]
        /\ downlink' = [downlink EXCEPT !.derived = [@ EXCEPT ![p] = NoPart]]
    BY <1>5 DEF StoresPart
  <2>2. downlink \in DownlinkState /\ keys \in KeySet BY DEF SimTypes
  <2>3. /\ keys'[p] = downlink.derived[p] /\ \A q \in Parts \ {p} : keys'[q] = keys[q]
        /\ downlink'.at = "store" /\ downlink'.derived[p] = NoPart
        /\ \A q \in Parts \ {p} : downlink'.derived[q] = downlink.derived[q]
    BY <2>1, <2>2 DEF DownlinkState, KeySet
  <2>4. Given(keys'[p]) BY <2>1, <2>3 DEF KeysInv
  <2>5. (\A q \in Parts : keys[q].accept \in accepted \cup {0} /\ keys[q].request <= MaxJoins)'
    BY <1>0, <2>3, <2>4 DEF KeysInv, Given
  <2>6. Complete => Complete' BY <1>0, <2>3, <2>4 DEF Complete, Given
  <2>7. InUse' => InUse BY <1>0, <2>1 DEF InUse
  <2>8. (\A q \in Parts : (downlink.derived[q] = NoPart /\ keys[q].accept \in accepted) \/ Given(downlink.derived[q]))'
    <3> SUFFICES ASSUME NEW q \in Parts
                 PROVE  (downlink'.derived[q] = NoPart /\ keys'[q].accept \in accepted) \/ Given(downlink'.derived[q])
      BY <1>0 DEF Given
    <3>1. CASE q = p BY <2>3, <2>4, <3>1 DEF Given
    <3>2. CASE q # p BY <2>1, <2>3, <3>2 DEF KeysInv
    <3> QED BY <3>1, <3>2
  <2>9. (InUse => Complete)' BY <2>6, <2>7 DEF KeysInv
  <2> QED BY <1>0, <2>3, <2>5, <2>8, <2>9 DEF KeysInv
<1>6. CASE JoinAcceptActivates
  <2>1. downlink.at = "store" /\ downlink.derived = NoKeys /\ activated' = TRUE /\ keys' = keys /\ downlink'.at = "idle"
    BY <1>6 DEF JoinAcceptActivates
  <2>2. \A p \in Parts : downlink.derived[p] = NoPart BY <2>1 DEF NoKeys
  <2>3. ~ Given(NoPart) BY <1>0 DEF Given, NoPart, Part
  <2>4. Complete BY <2>1, <2>2, <2>3 DEF KeysInv, Complete
  <2>5. (InUse => Complete)' BY <1>0, <2>1, <2>4 DEF Complete
  <2>6. (\A p \in Parts : keys[p].accept \in accepted \cup {0} /\ keys[p].request <= MaxJoins)'
    BY <1>0, <2>1 DEF KeysInv
  <2> QED BY <1>0, <2>1, <2>5, <2>6 DEF KeysInv
<1> QED BY <1>2, <1>3, <1>4, <1>5, <1>6 DEF JoinAccept

\* The keys of the device are those of accepted joins when they are used.
LEMMA NextKeys == SimTypes /\ DownInv /\ KeysInv /\ [DeviceNext]_deviceVars => KeysInv'
<1> SUFFICES ASSUME SimTypes, DownInv, KeysInv, [DeviceNext]_deviceVars PROVE KeysInv'
  OBVIOUS
<1> USE DEF loops, device, network
<1>0. /\ answer \in [Command -> AnswerState] /\ devNonce \in Nat /\ MaxJoins \in Nat
      /\ devNonce <= MaxJoins /\ (uplink.at = "join" => devNonce < MaxJoins)
  BY BoundsAreNumbers DEF SimTypes, KeysInv
<1>1. CASE LoopTop
  <2>1. UNCHANGED <<answer, downlink, activated, devNonce, keys, accepted>> BY <1>1 DEF LoopTop
  <2>2. uplink'.at = IF cancelled THEN "ended" ELSE IF activated THEN "ack" ELSE "join"
    BY <1>1 DEF LoopTop, At
  <2>3. uplink'.at = "join" => devNonce < MaxJoins
    BY <1>1, <2>2 DEF LoopTop, MayGoOn
  <2>4. InUse' => InUse BY <2>1, <2>2 DEF InUse, Parts
  <2> QED BY <1>0, <2>1, <2>3, <2>4, KeysStay
<1>2. CASE JoinRequest
  <2>1. UNCHANGED <<answer, downlink, activated, keys, accepted>> /\ devNonce' = devNonce + 1 /\ uplink'.at = "push"
    BY <1>2 DEF JoinRequest, At
  <2>2. devNonce < MaxJoins BY <1>2 DEF JoinRequest, KeysInv
  <2>3. InUse' => InUse BY <2>1 DEF InUse, Parts
  <2>4. devNonce' <= MaxJoins BY <1>0, <2>1, <2>2
  <2> QED BY <2>1, <2>3, <2>4, KeysStay
<1>3. CASE UplinkTakesAck \/ UplinkTakesCount \/ UplinkReadsPart \/ UplinkPushes
  <2>1. UNCHANGED <<answer, downlink, activated, devNonce, keys, accepted>>
    BY <1>3 DEF UplinkTakesAck, UplinkTakesCount, UplinkReadsPart, UplinkPushes
  <2>2. CASE UplinkPushes
    <3>1. uplink'.at = "top" BY <2>2 DEF UplinkPushes, At
    <3>2. InUse' => InUse BY <2>1, <3>1 DEF InUse, Parts
    <3> QED BY <1>0, <2>1, <3>1, <3>2, KeysStay
  <2>3. CASE UplinkTakesAck \/ UplinkTakesCount \/ UplinkReadsPart
    <3>1. uplink.at \in {"ack", "count"} \cup Parts
      BY <2>3 DEF UplinkTakesAck, UplinkTakesCount, UplinkReadsPart
    <3>2. uplink'.at # "join"
      BY <2>3 DEF UplinkTakesAck, UplinkTakesCount, UplinkReadsPart, At, NextRead, Parts
    <3> QED BY <1>0, <2>1, <3>1, <3>2, KeysStay DEF InUse
  <2> QED BY <1>3, <2>2, <2>3
<1>4. ASSUME NEW c \in Command, AnswerGoroutine(c) PROVE KeysInv'
  <2>1. UNCHANGED <<uplink, downlink, activated, devNonce, keys, accepted>>
    BY <1>4 DEF AnswerGoroutine, AnswerDelay, AnswerTakesAck, AnswerTakesCount, AnswerReadsPart, AnswerPushes
  <2>2. CASE AnswerPushes(c)
    <3>1. answer'[c].at = "ended" /\ \A d \in Command \ {c} : answer'[d] = answer[d]
      BY <1>0, <2>2 DEF AnswerPushes, At
    <3>2. InUse' => InUse BY <2>1, <3>1 DEF InUse, Parts
    <3> QED BY <1>0, <2>1, <3>2, KeysStay
  <2>3. CASE AnswerDelay(c) \/ AnswerTakesAck(c) \/ AnswerTakesCount(c) \/ AnswerReadsPart(c)
    <3>1. answer[c].at \in {"delay", "ack", "count"} \cup Parts
      BY <2>3 DEF AnswerDelay, AnswerTakesAck, AnswerTakesCount, AnswerReadsPart
    <3>2. InUse BY <3>1 DEF InUse
    <3> QED BY <1>0, <2>1, <3>2, KeysStay
  <2> QED BY <1>4, <2>2, <2>3 DEF AnswerGoroutine
<1>5. CASE SenderLoop \/ Cancel \/ UNCHANGED deviceVars
  <2>1. UNCHANGED <<uplink, answer, downlink, activated, devNonce, keys, accepted>>
    BY <1>5 DEF SenderLoop, SenderTakes, SenderPublishes, SenderFails, SenderEnds, Cancel, deviceVars
  <2>2. InUse' => InUse BY <2>1 DEF InUse
  <2> QED BY <1>0, <2>1, <2>2, KeysStay
<1>6. CASE DownlinkEnds \/ InvalidMic
  <2>1. UNCHANGED <<uplink, answer, activated, devNonce, keys, accepted>> /\ downlink.at = "idle" /\ downlink'.at = "ended"
    BY <1>6 DEF DownlinkEnds, InvalidMic, SimTypes, DownlinkState
  <2>2. activated \/ keys = NoKeys BY <2>1 DEF KeysInv
  <2>3. (InUse => Complete)' BY <2>1 DEF KeysInv, InUse, Complete
  <2> QED BY <2>1, <2>2, <2>3 DEF KeysInv
<1>7. CASE JoinAccept BY <1>7, JoinKeys
<1>9. CASE DownlinkData
  <2>1. UNCHANGED <<uplink, downlink, activated, devNonce, keys, accepted>> /\ downlink.at = "idle"
    BY <1>9 DEF DownlinkData
  <2>2. Arrived.session \in accepted BY <1>9, ArrivedFacts DEF DownlinkData
  <2>3. keys["nwkSKey"] = Part(Arrived.session, Arrived.session) BY <1>9 DEF DownlinkData, Heard
  <2>4. Arrived.session # 0 BY <2>2 DEF SimTypes
  <2>5. keys # NoKeys
    <3>1. keys["nwkSKey"].accept # 0 BY <2>3, <2>4 DEF Part
    <3>2. NoKeys["nwkSKey"].accept = 0 BY DEF NoKeys, NoPart, Part, Parts
    <3> QED BY <3>1, <3>2
  <2>6. activated BY <2>1, <2>5 DEF KeysInv
  <2> QED BY <1>0, <2>1, <2>6, KeysStay DEF InUse
<1>10. ASSUME (\E n \in 1 .. MaxJoins : AcceptJoin(n)) \/ (\E b \in BOOLEAN : CommandArrives(b)) PROVE KeysInv'
  <2>1. UNCHANGED <<uplink, answer, downlink, activated, devNonce, keys>> /\ accepted \subseteq accepted'
    BY <1>10 DEF AcceptJoin, CommandArrives
  <2>2. InUse' => InUse BY <2>1 DEF InUse
  <2> QED BY <1>0, <2>1, <2>2, KeysStay
<1> QED BY <1>1, <1>2, <1>3, <1>4, <1>5, <1>6, <1>7, <1>9, <1>10
        DEF DeviceNext, UplinkLoop, DownlinkLoop

\* And so are those of the frames: a part is read when there is one.
LEMMA NextFrameKeys ==
  SimTypes /\ SimTypes' /\ DownInv /\ KeysInv /\ FrameKeysInv /\ [DeviceNext]_deviceVars => FrameKeysInv'
<1> SUFFICES ASSUME SimTypes, SimTypes', DownInv, KeysInv, FrameKeysInv, [DeviceNext]_deviceVars PROVE FrameKeysInv'
  OBVIOUS
<1>1. accepted \subseteq accepted' BY KeysGoOn
<1>2. Waiting' \subseteq Goroutine BY DEF Waiting
<1>3. ASSUME NEW g \in Goroutine, Of(g)' = Of(g), g \in Waiting'
      PROVE  (\A p \in ReadBefore(Of(g).at) : Of(g).frame.keys[p].accept \in accepted)'
  <2>1. g \in Waiting BY <1>3, WaitingStays
  <2>2. Of(g).at' = Of(g).at /\ Of(g).frame' = Of(g).frame BY <1>3
  <2> QED BY <1>1, <2>1, <2>2 DEF FrameKeysInv, ReadBefore
<1>4. ASSUME \A i \in DataAt' : \E j \in DataAt : Line'[i] = Line[j]
      PROVE  (\A i \in DataAt, p \in Parts : Line[i].keys[p].accept \in accepted)'
  BY <1>1, <1>4 DEF FrameKeysInv
<1>5. ASSUME NEW g \in Goroutine, g \in Waiting, Of(g).at = "push"
      PROVE  \A p \in Parts : Of(g).frame.keys[p].accept \in accepted
  BY <1>5 DEF FrameKeysInv, ReadBefore
<1>6. CASE Quiet
  <2>1. DataAt' = DataAt /\ \A i \in DataAt : Line'[i] = Line[i] BY <1>6 DEF Quiet, SameFrames
  <2>2. ASSUME NEW g \in Waiting' PROVE (\A p \in ReadBefore(Of(g).at) : Of(g).frame.keys[p].accept \in accepted)'
    <3>1. g \in Goroutine /\ (Of(g)' = Of(g) \/ Reads(g)) BY <1>2, <1>6, <2>2 DEF Quiet
    <3>2. CASE Of(g)' = Of(g) BY <1>3, <2>2, <3>1, <3>2
    <3>3. CASE Reads(g)
      <4> DEFINE q == Of(g).at
      <4>1. /\ g \in Waiting /\ q \in Parts /\ Of(g).at' = NextRead[q]
            /\ Of(g).frame.keys' = [Of(g).frame.keys EXCEPT ![q] = keys[q]]
        BY <3>1, <3>3, ReadKeeps
      <4>2. Complete
        <5>1. InUse BY <3>1, <4>1, HandsOf DEF InUse
        <5> QED BY <5>1 DEF KeysInv
      <4>3. Of(g).frame.keys \in KeySet BY <4>1, FrameTypes DEF DataFrame
      <4>4. ReadBefore(NextRead[q]) = ReadBefore(q) \cup {q} BY <4>1 DEF ReadBefore, NextRead, Parts
      <4>5. \A p \in ReadBefore(q) : p \in Parts /\ Of(g).frame.keys[p].accept \in accepted
        BY <4>1 DEF FrameKeysInv, ReadBefore, Parts
      <4>6. keys[q].accept \in accepted BY <4>1, <4>2 DEF Complete
      <4> HIDE DEF q
      <4>7. \A p \in ReadBefore(q) \cup {q} : Of(g).frame.keys'[p].accept \in accepted
        BY <4>1, <4>3, <4>5, <4>6 DEF KeySet
      <4>8. ReadBefore(Of(g).at') = ReadBefore(q) \cup {q} BY <4>1, <4>4
      <4> QED BY <1>1, <4>7, <4>8
    <3> QED BY <3>1, <3>2, <3>3
  <2>3. (\A i \in DataAt, p \in Parts : Line[i].keys[p].accept \in accepted)' BY <1>4, <2>1
  <2> QED BY <2>2, <2>3 DEF FrameKeysInv
<1>7. ASSUME NEW g \in Goroutine, Counts(g) PROVE FrameKeysInv'
  <2>1. DataAt' = DataAt /\ \A i \in DataAt : Line'[i] = Line[i] BY <1>7 DEF Counts, SameFrames
  <2>2. Of(g).at' = "address" BY <1>7 DEF Counts, At
  <2>3. ASSUME NEW h \in Waiting' PROVE (\A p \in ReadBefore(Of(h).at) : Of(h).frame.keys[p].accept \in accepted)'
    <3>1. CASE h = g BY <2>2, <3>1 DEF ReadBefore
    <3>2. CASE h # g BY <1>2, <1>3, <1>7, <2>3, <3>2 DEF Counts, OthersStay
    <3> QED BY <3>1, <3>2
  <2>4. (\A i \in DataAt, p \in Parts : Line[i].keys[p].accept \in accepted)' BY <1>4, <2>1
  <2> QED BY <2>3, <2>4 DEF FrameKeysInv
<1>8. ASSUME NEW g \in Goroutine, Pushes(g) PROVE FrameKeysInv'
  <2>1. \A i \in DataAt' : (i \in DataAt /\ Line'[i] = Line[i]) \/ Line'[i] = Of(g).frame
    BY <1>8 DEF Pushes
  <2>2. g \in Waiting /\ Of(g).at = "push" BY <1>8 DEF Pushes
  <2>3. ASSUME NEW h \in Waiting' PROVE (\A p \in ReadBefore(Of(h).at) : Of(h).frame.keys[p].accept \in accepted)'
    <3>1. Of(g).at' \notin Holding BY <1>8 DEF Pushes, At, Holding, Parts
    <3>2. g \notin Waiting' BY <3>1 DEF Waiting
    <3>3. h \in Goroutine /\ h # g BY <1>2, <2>3, <3>2
    <3>4. Of(h)' = Of(h) BY <1>8, <3>3 DEF Pushes, OthersStay
    <3> QED BY <1>3, <2>3, <3>3, <3>4
  <2>4. ASSUME NEW i \in DataAt', NEW p \in Parts PROVE Line'[i].keys[p].accept \in accepted
    <3>1. CASE i \in DataAt /\ Line'[i] = Line[i] BY <2>4, <3>1 DEF FrameKeysInv
    <3>2. CASE Line'[i] = Of(g).frame BY <1>5, <2>2, <2>4, <3>2
    <3> QED BY <2>1, <2>4, <3>1, <3>2
  <2>5. (\A i \in DataAt, p \in Parts : Line[i].keys[p].accept \in accepted)' BY <1>1, <2>4
  <2> QED BY <2>3, <2>5 DEF FrameKeysInv
<1>9. CASE Loses
  <2>1. \A i \in DataAt' : \E j \in DataAt : Line'[i] = Line[j] BY <1>9 DEF Loses
  <2>2. ASSUME NEW h \in Waiting' PROVE (\A p \in ReadBefore(Of(h).at) : Of(h).frame.keys[p].accept \in accepted)'
    BY <1>2, <1>3, <1>9, <2>2 DEF Loses
  <2>3. (\A i \in DataAt, p \in Parts : Line[i].keys[p].accept \in accepted)' BY <1>4, <2>1
  <2> QED BY <2>2, <2>3 DEF FrameKeysInv
<1> QED BY <1>6, <1>7, <1>8, <1>9, Kinds

(* The acknowledgements: in line, taken by a goroutine, still in the flag; *)
(* and the confirmed downlinks that the device has heard.                  *)
AckAt == {i \in DataAt : Line[i].ack}
AckTaken == {g \in Goroutine : Of(g).at \in {"count"} \cup Holding /\ Of(g).ack}
AckFlag == IF pendingAck THEN 1 ELSE 0
Confirmed == {c \in DOMAIN downs : downs[c]}
HeardConfirmed == {c \in Confirmed : answer[c].at # "none"}
AcksSent == Cardinality(AckAt)
AcksTaken == Cardinality(AckTaken)
AcksDue == Cardinality(HeardConfirmed)

AcksInv ==
  /\ \A g \in Waiting : Of(g).frame.ack = Of(g).ack
  /\ AcksSent + AcksTaken + AckFlag <= AcksDue

AckSizes ==
  /\ IsFiniteSet(AckAt) /\ IsFiniteSet(AckTaken) /\ IsFiniteSet(Confirmed) /\ IsFiniteSet(HeardConfirmed)
  /\ AcksSent \in Nat /\ AcksTaken \in Nat /\ AcksDue \in Nat
  /\ Confirmed \subseteq Command

\* All of these are finite.
LEMMA AckSets == SimTypes => AckSizes
<1> SUFFICES ASSUME SimTypes
    PROVE  /\ IsFiniteSet(AckAt) /\ IsFiniteSet(AckTaken) /\ IsFiniteSet(Confirmed) /\ IsFiniteSet(HeardConfirmed)
           /\ Confirmed \subseteq Command
  BY FS_CardinalityType DEF AckSizes, AcksSent, AcksTaken, AcksDue
<1>1. AckAt \subseteq 1 .. Len(Line) /\ Len(Line) \in Nat BY LineFacts DEF AckAt
<1>2. IsFiniteSet(AckAt)
  <2>1. IsFiniteSet(1 .. Len(Line)) BY <1>1, FS_Interval
  <2> QED BY <1>1, <2>1, FS_Subset
<1>3. AckTaken \subseteq Goroutine BY DEF AckTaken
<1>4. IsFiniteSet(AckTaken) BY <1>3, Numbers, FS_Subset
<1>5. DOMAIN downs = 1 .. Len(downs) /\ Len(downs) \in Nat /\ Len(downs) <= MaxDownlinks BY DEF SimTypes
<1>6. Confirmed \subseteq Command
  <2>1. MaxDownlinks \in Nat /\ Command = 1 .. MaxDownlinks BY Numbers
  <2>2. 1 .. Len(downs) \subseteq 1 .. MaxDownlinks BY <1>5, <2>1
  <2>3. Confirmed \subseteq DOMAIN downs BY DEF Confirmed
  <2> QED BY <1>5, <2>1, <2>2, <2>3
<1>7. IsFiniteSet(Confirmed) BY <1>6, Numbers, FS_Subset
<1>8. IsFiniteSet(HeardConfirmed) BY <1>7, FS_Subset DEF HeardConfirmed
<1> QED BY <1>2, <1>4, <1>6, <1>7, <1>8

\* What was heard stays heard.
LEMMA HeardStays ==
  ASSUME SimTypes, DownInv, [DeviceNext]_deviceVars
  PROVE  HeardConfirmed \subseteq HeardConfirmed'
<1> USE DEF loops, device, network
<1>0. answer \in [Command -> AnswerState] /\ downs \in Seq(BOOLEAN) BY DEF SimTypes
<1>1. \A c \in DOMAIN downs : c \in DOMAIN downs' /\ downs'[c] = downs[c]
  <2>1. downs' = downs \/ \E b \in BOOLEAN : downs' = Append(downs, b)
    BY DEF DeviceNext, UplinkLoop, LoopTop, JoinRequest, UplinkTakesAck, UplinkTakesCount, UplinkReadsPart, UplinkPushes,
           SenderLoop, SenderTakes, SenderPublishes, SenderFails, SenderEnds, Cancel, deviceVars,
           DownlinkLoop, DownlinkEnds, JoinAccept, JoinAcceptArrives, DerivesAppSKey, DerivesNwkSKey, StoresPart, JoinAcceptActivates, DownlinkData, InvalidMic,
           AnswerGoroutine, AnswerDelay, AnswerTakesAck, AnswerTakesCount, AnswerReadsPart, AnswerPushes, AcceptJoin, CommandArrives
  <2> QED BY <1>0, <2>1
<1>2. \A c \in Command : answer[c].at # "none" => answer'[c].at # "none"
  <2>1. CASE answer' = answer BY <2>1
  <2>2. ASSUME NEW c \in Command, AnswerGoroutine(c)
        PROVE  answer'[c].at # "none" /\ \A d \in Command \ {c} : answer'[d] = answer[d]
    <3>1. CASE AnswerDelay(c)
      <4>1. PICK next \in {"ack", "ended"} : answer' = [answer EXCEPT ![c].at = next]
        BY <3>1 DEF AnswerDelay
      <4>2. answer[c] \in AnswerState BY <1>0
      <4>3. answer'[c].at = next BY <1>0, <4>1, <4>2 DEF AnswerState
      <4>4. \A d \in Command \ {c} : answer'[d] = answer[d] BY <1>0, <4>1
      <4> QED BY <4>1, <4>3, <4>4
    <3>2. CASE AnswerTakesAck(c) \/ AnswerTakesCount(c) \/ AnswerPushes(c)
      BY <1>0, <3>2 DEF AnswerTakesAck, AnswerTakesCount, AnswerPushes, At
    <3>3. CASE AnswerReadsPart(c)
      <4>1. NextRead[answer[c].at] # "none" BY <3>3 DEF AnswerReadsPart, NextRead, Parts
      <4>2. At(NextRead[answer[c].at], answer[c].ack, WithPart(answer[c].frame, answer[c].at)).at # "none" BY <4>1 DEF At
      <4> QED BY <1>0, <3>3, <4>2 DEF AnswerReadsPart
    <3> QED BY <2>2, <3>1, <3>2, <3>3 DEF AnswerGoroutine
  <2>3. CASE DownlinkData
    <3>1. /\ Arrived.command \in Command
          /\ \E next \in {"delay", "silent"} : answer' = [answer EXCEPT ![Arrived.command] = At(next, FALSE, NoFrame)]
      BY <2>3, ArrivedFacts DEF DownlinkData
    <3> QED BY <1>0, <3>1 DEF At
  <2>4. answer' = answer \/ DownlinkData \/ \E c \in Command : AnswerGoroutine(c)
    BY DEF DeviceNext, UplinkLoop, LoopTop, JoinRequest, UplinkTakesAck, UplinkTakesCount, UplinkReadsPart, UplinkPushes,
           SenderLoop, SenderTakes, SenderPublishes, SenderFails, SenderEnds, Cancel, deviceVars,
           DownlinkLoop, DownlinkEnds, JoinAccept, JoinAcceptArrives, DerivesAppSKey, DerivesNwkSKey, StoresPart, JoinAcceptActivates, InvalidMic,
           AcceptJoin, CommandArrives
  <2> QED BY <2>1, <2>2, <2>3, <2>4
<1> QED BY <1>1, <1>2, AckSets DEF AckSizes, HeardConfirmed, Confirmed

\* A goroutine that holds an acknowledgement had it, but for the two steps
\* that take the flag.
Takes(g) == Of(g).at = "ack" /\ Of(g)' = At("count", pendingAck, NoFrame) /\ ~ pendingAck' /\ OthersStay(g) /\ SameFrames

\* The flag is raised by a confirmed downlink that was not heard before.
LEMMA FlagMoves ==
  ASSUME SimTypes, DownInv, [DeviceNext]_deviceVars
  PROVE  \/ \E g \in Goroutine : Takes(g)
         \/ DownlinkData
         \/ pendingAck' = pendingAck
<1> USE DEF loops, device, network
<1>1. CASE UplinkTakesAck
  <2>1. SameFrames BY <1>1, LineUntouched DEF UplinkTakesAck
  <2>2. uplink.at = "ack" /\ uplink' = At("count", pendingAck, NoFrame) /\ ~ pendingAck' /\ answer' = answer
    BY <1>1 DEF UplinkTakesAck, AfterConsume
  <2>3. OthersStay(Location) BY <2>2, HandsOf DEF OthersStay
  <2>4. Takes(Location) BY <2>1, <2>2, <2>3, HandsOf DEF Takes
  <2> QED BY <2>4 DEF Goroutine
<1>2. ASSUME NEW c \in Command, AnswerTakesAck(c) PROVE Takes(c)
  <2>1. SameFrames BY <1>2, LineUntouched DEF AnswerTakesAck
  <2>2. answer \in [Command -> AnswerState] BY DEF SimTypes
  <2>3. /\ answer[c].at = "ack" /\ answer'[c] = At("count", pendingAck, NoFrame) /\ ~ pendingAck' /\ uplink' = uplink
        /\ \A d \in Command \ {c} : answer'[d] = answer[d]
    BY <1>2, <2>2 DEF AnswerTakesAck, AfterConsume
  <2>4. OthersStay(c) BY <2>3, HandsOf DEF OthersStay
  <2> QED BY <2>1, <2>3, <2>4, HandsOf DEF Takes
<1>3. UplinkTakesAck \/ (\E c \in Command : AnswerTakesAck(c)) \/ DownlinkData \/ pendingAck' = pendingAck
  BY DEF DeviceNext, UplinkLoop, LoopTop, JoinRequest, UplinkTakesCount, UplinkReadsPart, UplinkPushes,
         SenderLoop, SenderTakes, SenderPublishes, SenderFails, SenderEnds, Cancel, deviceVars,
         DownlinkLoop, DownlinkEnds, JoinAccept, JoinAcceptArrives, DerivesAppSKey, DerivesNwkSKey, StoresPart, JoinAcceptActivates, InvalidMic,
         AnswerGoroutine, AnswerDelay, AnswerTakesCount, AnswerReadsPart, AnswerPushes, AcceptJoin, CommandArrives
<1>4. Command \subseteq Goroutine BY DEF Goroutine
<1> QED BY <1>1, <1>2, <1>3, <1>4

LEMMA TakenMoves ==
  ASSUME SimTypes, DownInv, [DeviceNext]_deviceVars, \A g \in Goroutine : ~ Takes(g)
  PROVE  \A g \in Goroutine : g \in AckTaken' => g \in AckTaken
<1> USE DEF loops, device, network
<1> SUFFICES ASSUME NEW g \in Goroutine,
                    \/ Of(g)' = Of(g)
                    \/ ~ (Of(g).at' \in {"count"} \cup Holding /\ Of(g).ack')
                    \/ Of(g).at \in {"count"} \cup Holding /\ Of(g).ack' = Of(g).ack,
                    g \in AckTaken'
             PROVE  g \in AckTaken
  <2> SUFFICES ASSUME NEW g \in Goroutine
               PROVE  \/ Of(g)' = Of(g)
                      \/ ~ (Of(g).at' \in {"count"} \cup Holding /\ Of(g).ack')
                      \/ Of(g).at \in {"count"} \cup Holding /\ Of(g).ack' = Of(g).ack
    OBVIOUS
  <2>0. /\ answer \in [Command -> AnswerState] BY DEF SimTypes
  <2>1. CASE UplinkLoop
    <3>1. answer' = answer BY <2>1 DEF UplinkLoop, LoopTop, JoinRequest, UplinkTakesAck, UplinkTakesCount, UplinkReadsPart, UplinkPushes
    <3>2. ~ UplinkTakesAck
      <4> SUFFICES ASSUME UplinkTakesAck PROVE FALSE OBVIOUS
      <4>1. SameFrames BY LineUntouched DEF UplinkTakesAck
      <4>2. uplink.at = "ack" /\ uplink' = At("count", pendingAck, NoFrame) /\ ~ pendingAck'
        BY DEF UplinkTakesAck, AfterConsume
      <4>3. OthersStay(Location) BY <3>1, HandsOf DEF OthersStay
      <4>4. Takes(Location) BY <4>1, <4>2, <4>3, HandsOf DEF Takes
      <4> QED BY <4>4 DEF Goroutine
    <3>3. \/ ~ (uplink'.at \in {"count"} \cup Holding /\ uplink'.ack)
          \/ uplink.at \in {"count"} \cup Holding /\ uplink'.ack = uplink.ack
      <4>1. CASE UplinkTakesCount \/ UplinkReadsPart
        BY <4>1 DEF UplinkTakesCount, UplinkReadsPart, At, Holding
      <4>2. CASE LoopTop \/ JoinRequest \/ UplinkPushes
        BY <4>2 DEF LoopTop, JoinRequest, UplinkPushes, At
      <4> QED BY <2>1, <3>2, <4>1, <4>2 DEF UplinkLoop
    <3>4. CASE g = Location BY <3>3, <3>4, HandsOf
    <3>5. CASE g \in Command BY <3>1, <3>5, HandsOf
    <3> QED BY <3>4, <3>5, HandsOf
  <2>2. ASSUME NEW c \in Command, AnswerGoroutine(c)
        PROVE  \/ Of(g)' = Of(g)
               \/ ~ (Of(g).at' \in {"count"} \cup Holding /\ Of(g).ack')
               \/ Of(g).at \in {"count"} \cup Holding /\ Of(g).ack' = Of(g).ack
    <3>1. uplink' = uplink /\ \A d \in Command \ {c} : answer'[d] = answer[d]
      BY <2>0, <2>2 DEF AnswerGoroutine, AnswerDelay, AnswerTakesAck, AnswerTakesCount, AnswerReadsPart, AnswerPushes
    <3>2. ~ AnswerTakesAck(c)
      <4> SUFFICES ASSUME AnswerTakesAck(c) PROVE FALSE OBVIOUS
      <4>1. SameFrames BY LineUntouched DEF AnswerTakesAck
      <4>2. answer[c].at = "ack" /\ answer'[c] = At("count", pendingAck, NoFrame) /\ ~ pendingAck'
        BY <2>0 DEF AnswerTakesAck, AfterConsume
      <4>3. OthersStay(c) BY <3>1, HandsOf DEF OthersStay
      <4>4. Takes(c) BY <4>1, <4>2, <4>3, HandsOf DEF Takes
      <4> QED BY <4>4 DEF Goroutine
    <3>3. \/ ~ (answer'[c].at \in {"count"} \cup Holding /\ answer'[c].ack)
          \/ answer[c].at \in {"count"} \cup Holding /\ answer'[c].ack = answer[c].ack
      <4>1. CASE AnswerDelay(c)
        <5>1. PICK next \in {"ack", "ended"} : answer' = [answer EXCEPT ![c].at = next]
          BY <4>1 DEF AnswerDelay
        <5>2. answer[c] \in AnswerState BY <2>0
        <5>3. answer'[c].at = next BY <2>0, <5>1, <5>2 DEF AnswerState
        <5> QED BY <5>3 DEF Holding, Parts
      <4>2. CASE AnswerTakesCount(c) \/ AnswerReadsPart(c)
        BY <2>0, <4>2 DEF AnswerTakesCount, AnswerReadsPart, At, Holding
      <4>3. CASE AnswerPushes(c)
        BY <2>0, <4>3 DEF AnswerPushes, At
      <4> QED BY <2>2, <3>2, <4>1, <4>2, <4>3 DEF AnswerGoroutine
    <3>4. CASE g = Location BY <3>1, <3>4, HandsOf
    <3>5. CASE g = c BY <3>3, <3>5, HandsOf
    <3>6. CASE g \in Command \ {c} BY <3>1, <3>6, HandsOf
    <3> QED BY <3>4, <3>5, <3>6, HandsOf
  <2>3. CASE DownlinkData
    <3>1. uplink' = uplink /\ Arrived.command \in Command
          /\ \E next \in {"delay", "silent"} : answer' = [answer EXCEPT ![Arrived.command] = At(next, FALSE, NoFrame)]
      BY <2>3, ArrivedFacts DEF DownlinkData
    <3>2. ~ answer'[Arrived.command].ack /\ \A d \in Command \ {Arrived.command} : answer'[d] = answer[d]
      BY <2>0, <3>1 DEF At
    <3>3. CASE g = Location BY <3>1, <3>3, HandsOf
    <3>4. CASE g \in Command /\ g = Arrived.command BY <3>2, <3>4, HandsOf
    <3>5. CASE g \in Command /\ g # Arrived.command BY <3>2, <3>5, HandsOf
    <3> QED BY <3>3, <3>4, <3>5, HandsOf
  <2>4. CASE uplink' = uplink /\ answer' = answer BY <2>4, HandsOf
  <2>5. UplinkLoop \/ DownlinkData \/ (\E c \in Command : AnswerGoroutine(c)) \/ (uplink' = uplink /\ answer' = answer)
    BY DEF DeviceNext,
           SenderLoop, SenderTakes, SenderPublishes, SenderFails, SenderEnds, Cancel, deviceVars,
           DownlinkLoop, DownlinkEnds, JoinAccept, JoinAcceptArrives, DerivesAppSKey, DerivesNwkSKey, StoresPart, JoinAcceptActivates, InvalidMic,
           AcceptJoin, CommandArrives
  <2> QED BY <2>1, <2>2, <2>3, <2>4, <2>5
<1>1. Of(g).at' \in {"count"} \cup Holding /\ Of(g).ack' BY DEF AckTaken
<1>2. CASE Of(g)' = Of(g) BY <1>1, <1>2 DEF AckTaken
<1>3. CASE Of(g).at \in {"count"} \cup Holding /\ Of(g).ack' = Of(g).ack BY <1>1, <1>3 DEF AckTaken
<1> QED BY <1>1, <1>2, <1>3

\* One more element makes a set greater by one at most.
LEMMA OneMore ==
  ASSUME NEW S, NEW x, IsFiniteSet(S)
  PROVE  /\ IsFiniteSet(S \cup {x}) /\ Cardinality(S \cup {x}) \in Nat
         /\ Cardinality(S \cup {x}) <= Cardinality(S) + 1
<1>1. IsFiniteSet(S \cup {x}) /\ Cardinality(S \cup {x}) = IF x \in S THEN Cardinality(S) ELSE Cardinality(S) + 1
  BY FS_AddElement
<1>2. Cardinality(S) \in Nat BY FS_CardinalityType
<1> QED BY <1>1, <1>2

\* The frames in line that acknowledge: no more of them, but for one pushed.
LEMMA AckLine ==
  ASSUME SimTypes
  PROVE  /\ SameFrames => AckAt' = AckAt
         /\ Loses => Cardinality(AckAt') <= Cardinality(AckAt)
<1>1. SameFrames => AckAt' = AckAt BY DEF SameFrames, AckAt
<1>2. ASSUME Loses PROVE Cardinality(AckAt') <= Cardinality(AckAt)
  <2> DEFINE old == [i \in AckAt' |-> ShiftPast(Len(published), i)]
  <2>1. \A i \in AckAt' : i \in DataAt' /\ Line'[i].ack BY DEF AckAt
  <2>2. \A i \in AckAt' : i \in Nat /\ ShiftPast(Len(published), i) \in AckAt
    BY <1>2, <2>1 DEF Loses, AckAt
  <2>3. Len(published) \in Nat BY <1>2 DEF Loses
  <2>4. \A i, j \in AckAt' : old[i] = old[j] => i = j
    BY <2>2, <2>3 DEF ShiftPast
  <2>5. old \in [AckAt' -> AckAt] BY <2>2
  <2>6. old \in Injection(AckAt', AckAt) BY <2>4, <2>5 DEF Injection, IsInjective
  <2> HIDE DEF old
  <2> QED BY <2>6, AckSets, FS_Injection DEF AckSizes
<1> QED BY <1>1, <1>2

\* A goroutine that pushes gives up what it took.
LEMMA AckHands ==
  ASSUME SimTypes, AcksInv,
         Quiet \/ (\E g \in Goroutine : Counts(g) \/ Pushes(g)) \/ Loses
  PROVE  (\A g \in Waiting : Of(g).frame.ack = Of(g).ack)'
<1> SUFFICES ASSUME NEW h \in Waiting' PROVE Of(h).frame.ack' = Of(h).ack'
  OBVIOUS
<1>1. h \in Goroutine /\ Of(h).at' \in Holding BY DEF Waiting
<1>2. ASSUME Of(h)' = Of(h) PROVE Of(h).frame.ack' = Of(h).ack'
  <2>1. h \in Waiting BY <1>1, <1>2, WaitingStays
  <2> QED BY <1>2, <2>1 DEF AcksInv
<1>3. CASE Quiet
  <2>1. CASE Reads(h) BY <1>1, <2>1, ReadKeeps DEF AcksInv
  <2> QED BY <1>1, <1>2, <1>3, <2>1 DEF Quiet
<1>4. CASE Loses BY <1>1, <1>2, <1>4 DEF Loses
<1>5. ASSUME NEW g \in Goroutine, Counts(g) PROVE Of(h).frame.ack' = Of(h).ack'
  <2>1. CASE h = g BY <1>5, <2>1 DEF Counts, At, Data
  <2>2. CASE h # g BY <1>1, <1>2, <1>5, <2>2 DEF Counts, OthersStay
  <2> QED BY <2>1, <2>2
<1>6. ASSUME NEW g \in Goroutine, Pushes(g) PROVE Of(h).frame.ack' = Of(h).ack'
  <2>1. CASE h = g BY <1>1, <1>6, <2>1 DEF Pushes, At, Holding, Parts
  <2>2. CASE h # g BY <1>1, <1>2, <1>6, <2>2 DEF Pushes, OthersStay
  <2> QED BY <2>1, <2>2
<1> QED BY <1>3, <1>4, <1>5, <1>6

\* An acknowledgement moves from the flag to a goroutine to the line.
LEMMA NextAcks ==
  SimTypes /\ SimTypes' /\ DownInv /\ AcksInv /\ [DeviceNext]_deviceVars => AcksInv'
<1> SUFFICES ASSUME SimTypes, SimTypes', DownInv, AcksInv, [DeviceNext]_deviceVars PROVE AcksInv'
  OBVIOUS
<1>1. (\A g \in Waiting : Of(g).frame.ack = Of(g).ack)' BY AckHands, Kinds
<1>2. /\ IsFiniteSet(AckAt) /\ IsFiniteSet(AckTaken) /\ IsFiniteSet(HeardConfirmed)
      /\ AcksSent \in Nat /\ AcksTaken \in Nat /\ AcksDue \in Nat
  BY AckSets DEF AckSizes
<1>3. /\ IsFiniteSet(AckAt') /\ IsFiniteSet(AckTaken') /\ IsFiniteSet(HeardConfirmed')
      /\ AcksSent' \in Nat /\ AcksTaken' \in Nat /\ AcksDue' \in Nat
  <2>1. AckSizes' BY AckSets, PTL
  <2> QED BY <2>1 DEF AckSizes
<1>4. AcksSent + AcksTaken + AckFlag <= AcksDue BY DEF AcksInv
<1>5. HeardConfirmed \subseteq HeardConfirmed' BY HeardStays
<1>6. AcksDue <= AcksDue' BY <1>3, <1>5, FS_Subset DEF AcksDue
<1>7. AckFlag \in {0, 1} /\ (AckFlag = 1 <=> pendingAck) /\ AckFlag' \in {0, 1} /\ (AckFlag' = 1 <=> pendingAck')
  BY DEF AckFlag
<1>8. PICK a \in Nat, b \in Nat, f \in Nat, d \in Nat, a1 \in Nat, b1 \in Nat, f1 \in Nat, d1 \in Nat :
        /\ a = AcksSent /\ b = AcksTaken /\ f = AckFlag /\ d = AcksDue
        /\ a1 = AcksSent' /\ b1 = AcksTaken' /\ f1 = AckFlag' /\ d1 = AcksDue'
  BY <1>2, <1>3, <1>7
<1>9. a + b + f <= d /\ d <= d1 BY <1>4, <1>6, <1>8
<1> SUFFICES a1 + b1 + f1 <= d1
  BY <1>1, <1>8 DEF AcksInv
<1>10. ASSUME NEW g \in Goroutine, Takes(g) PROVE a1 + b1 + f1 <= d1
  <2>1. AcksSent' = AcksSent BY <1>10, AckLine DEF Takes, AcksSent
  <2>2. ~ pendingAck' BY <1>10 DEF Takes
  <2>3. \A h \in AckTaken' : h \in AckTaken \/ (h = g /\ pendingAck)
    <3> SUFFICES ASSUME NEW h \in AckTaken', h \notin AckTaken PROVE h = g /\ pendingAck
      OBVIOUS
    <3>1. h \in Goroutine /\ Of(h).at' \in {"count"} \cup Holding /\ Of(h).ack' BY DEF AckTaken
    <3>2. h = g
      <4> SUFFICES ASSUME h # g PROVE FALSE OBVIOUS
      <4>1. Of(h)' = Of(h) BY <1>10, <3>1 DEF Takes, OthersStay
      <4> QED BY <3>1, <4>1 DEF AckTaken
    <3>3. Of(g).ack' = pendingAck BY <1>10 DEF Takes, At
    <3> QED BY <3>1, <3>2, <3>3
  <2>4. AcksTaken' <= AcksTaken + AckFlag
    <3>1. CASE pendingAck
      <4>1. IsFiniteSet(AckTaken \cup {g}) /\ Cardinality(AckTaken \cup {g}) <= AcksTaken + 1
        BY <1>2, OneMore DEF AcksTaken
      <4>2. AckTaken' \subseteq AckTaken \cup {g} BY <2>3
      <4>3. AcksTaken' <= Cardinality(AckTaken \cup {g}) BY <4>1, <4>2, FS_Subset DEF AcksTaken
      <4>4. Cardinality(AckTaken \cup {g}) \in Nat BY <4>1, FS_CardinalityType
      <4> QED BY <1>2, <1>3, <1>7, <3>1, <4>1, <4>3, <4>4
    <3>2. CASE ~ pendingAck
      <4>1. AckTaken' \subseteq AckTaken BY <2>3, <3>2
      <4>2. AcksTaken' <= AcksTaken BY <1>2, <4>1, FS_Subset DEF AcksTaken
      <4> QED BY <1>2, <1>3, <1>7, <3>2, <4>2
    <3> QED BY <3>1, <3>2
  <2>5. AckFlag' = 0 BY <1>7, <2>2
  <2>6. a1 = a /\ b1 <= b + f /\ f1 = 0 BY <1>8, <2>1, <2>4, <2>5
  <2> QED BY <1>9, <2>6
<1>11. CASE \A g \in Goroutine : ~ Takes(g)
  <2>1. AckTaken' \subseteq AckTaken
    <3>1. AckTaken' \subseteq Goroutine BY DEF AckTaken
    <3> QED BY <1>11, <3>1, TakenMoves
  <2>2. AcksTaken' <= AcksTaken BY <1>2, <2>1, FS_Subset DEF AcksTaken
  <2>3. CASE DownlinkData
    <3> DEFINE c == Arrived.command
    <3>1. SameFrames BY <2>3, LineUntouched DEF DownlinkData
    <3>2. AcksSent' = AcksSent BY <3>1, AckLine DEF AcksSent
    <3>3. /\ c \in Command /\ c <= Len(downs) /\ Arrived.confirmed = downs[c] /\ answer[c].at = "none"
          /\ Arrived.confirmed \in BOOLEAN
      <4>1. downlinkFrames # <<>> /\ Arrived.kind = "command" BY <2>3 DEF DownlinkData
      <4>2. Arrived \in CommandFrame BY <4>1, ArrivedFacts
      <4> QED BY <4>1, <4>2, ArrivedFacts DEF CommandFrame
    <3>4. pendingAck' = (pendingAck \/ Arrived.confirmed) /\ downs' = downs /\ answer'[c].at # "none"
      BY <2>3, <3>3 DEF DownlinkData, network, SimTypes, At
    <3>5. CASE Arrived.confirmed
      <4>1. c \in Confirmed /\ c \in Confirmed'
        <5>1. c \in DOMAIN downs
          <6>1. c \in Nat /\ 1 <= c BY <3>3, Numbers
          <6>2. DOMAIN downs = 1 .. Len(downs) /\ Len(downs) \in Nat BY DEF SimTypes
          <6> QED BY <3>3, <6>1, <6>2
        <5> QED BY <3>3, <3>4, <3>5, <5>1 DEF Confirmed
      <4>2. c \notin HeardConfirmed /\ c \in HeardConfirmed' BY <3>3, <3>4, <4>1 DEF HeardConfirmed
      <4>3. HeardConfirmed \cup {c} \subseteq HeardConfirmed' BY <1>5, <4>2
      <4>4. IsFiniteSet(HeardConfirmed \cup {c}) /\ Cardinality(HeardConfirmed \cup {c}) = AcksDue + 1
        BY <1>2, <4>2, FS_AddElement DEF AcksDue
      <4>5. AcksDue + 1 <= AcksDue' BY <1>3, <4>3, <4>4, FS_Subset DEF AcksDue
      <4>6. AckFlag' <= AckFlag + 1 BY <1>7
      <4>7. a1 = a /\ b1 <= b /\ f1 <= f + 1 /\ d + 1 <= d1 BY <1>8, <2>2, <3>2, <4>5, <4>6
      <4> QED BY <1>9, <4>7
    <3>6. CASE ~ Arrived.confirmed
      <4>1. pendingAck' => pendingAck BY <3>4, <3>6
      <4>2. AckFlag' <= AckFlag BY <1>7, <4>1
      <4>3. a1 = a /\ b1 <= b /\ f1 <= f BY <1>8, <2>2, <3>2, <4>2
      <4> QED BY <1>9, <4>3
    <3> QED BY <3>5, <3>6
  <2>4. CASE pendingAck' = pendingAck
    <3>1. AckFlag' = AckFlag BY <2>4 DEF AckFlag
    <3>2. CASE Quiet \/ (\E g \in Goroutine : Counts(g)) \/ Loses
      <4>1. AcksSent' <= AcksSent BY <1>2, <3>2, AckLine DEF Quiet, Counts, AcksSent
      <4>2. a1 <= a /\ b1 <= b /\ f1 = f BY <1>8, <2>2, <3>1, <4>1
      <4> QED BY <1>9, <4>2
    <3>3. ASSUME NEW g \in Goroutine, Pushes(g) PROVE a1 + b1 + f1 <= d1
      <4> DEFINE z == Len(Line) + 1
      <4>1. /\ DataAt' = DataAt \cup {z} /\ (\A i \in DataAt : Line'[i] = Line[i]) /\ Line'[z] = Of(g).frame
            /\ g \in Waiting
        BY <3>3 DEF Pushes
      <4>2. Of(g).frame.ack = Of(g).ack /\ Of(g).at \in Holding BY <4>1 DEF AcksInv, Waiting
      <4>3. \A i \in AckAt' : i \in AckAt \/ (i = z /\ Of(g).ack) BY <4>1, <4>2 DEF AckAt
      <4>4. g \notin AckTaken'
        <5>1. Of(g).at' \in {"top", "ended"} BY <3>3 DEF Pushes, At
        <5> QED BY <5>1 DEF AckTaken, Holding, Parts
      <4> HIDE DEF z
      <4>5. CASE Of(g).ack
        <5>1. g \in AckTaken BY <4>2, <4>5 DEF AckTaken
        <5>2. AckTaken' \subseteq AckTaken \ {g} BY <2>1, <4>4
        <5>3. IsFiniteSet(AckTaken \ {g}) /\ Cardinality(AckTaken \ {g}) = AcksTaken - 1
          BY <1>2, <5>1, FS_RemoveElement DEF AcksTaken
        <5>4. AcksTaken' <= AcksTaken - 1 BY <5>2, <5>3, FS_Subset DEF AcksTaken
        <5>5. IsFiniteSet(AckAt \cup {z}) /\ Cardinality(AckAt \cup {z}) <= AcksSent + 1 /\ Cardinality(AckAt \cup {z}) \in Nat
          BY <1>2, OneMore DEF AcksSent
        <5>6. AckAt' \subseteq AckAt \cup {z} BY <4>3
        <5>7. AcksSent' <= Cardinality(AckAt \cup {z}) BY <5>5, <5>6, FS_Subset DEF AcksSent
        <5>8. AcksSent' <= AcksSent + 1 BY <1>2, <1>3, <5>5, <5>7
        <5>9. a1 <= a + 1 /\ b1 <= b - 1 /\ f1 = f BY <1>8, <3>1, <5>4, <5>8
        <5> QED BY <1>9, <5>9
      <4>6. CASE ~ Of(g).ack
        <5>1. AckAt' \subseteq AckAt BY <4>3, <4>6
        <5>2. AcksSent' <= AcksSent BY <1>2, <5>1, FS_Subset DEF AcksSent
        <5>3. a1 <= a /\ b1 <= b /\ f1 = f BY <1>8, <2>2, <3>1, <5>2
        <5> QED BY <1>9, <5>3
      <4> QED BY <4>5, <4>6
    <3> QED BY <3>2, <3>3, Kinds
  <2> QED BY <1>11, <2>3, <2>4, FlagMoves
<1> QED BY <1>10, <1>11

SimIInv == SimTypes /\ ChannelsInv /\ DownInv /\ KeysInv /\ FrameKeysInv /\ FramesInv /\ AcksInv

\* The device starts with nothing under way.
LEMMA SimStart == DeviceInit => SimIInv
<1> SUFFICES ASSUME DeviceInit PROVE SimIInv
  OBVIOUS
<1>1. SimTypes BY InitTypes
<1>2. /\ outboundUplinks = <<>> /\ downlinkFrames = <<>> /\ published = <<>> /\ downs = <<>>
      /\ accepted = {} /\ devNonce = 0 /\ activated = FALSE /\ pendingAck = FALSE /\ fCntUp = 0 /\ keys = NoKeys
  BY DEF DeviceInit
<1>3. /\ uplink.at = "top" /\ sender.at = "idle" /\ downlink.at = "idle"
      /\ \A c \in Command : answer[c].at = "none"
  BY DEF DeviceInit, At
<1>4. ChannelsInv
  <2>1. Len(<<>>) = 0 /\ 0 <= Capacity BY CapacityIsPositive
  <2> QED BY <1>2, <2>1 DEF ChannelsInv
<1>5. DownInv
  <2>1. DOMAIN downlinkFrames = {} BY <1>2
  <2> QED BY <1>3, <2>1 DEF DownInv
<1>6. KeysInv
  <2>1. \A p \in Parts : keys[p].accept = 0 /\ keys[p].request = 0 BY <1>2 DEF NoKeys, NoPart, Part
  <2>2. 0 <= MaxJoins BY BoundsAreNumbers
  <2>3. ~ InUse BY <1>2, <1>3 DEF InUse, Parts
  <2> QED BY <1>2, <1>3, <2>1, <2>2, <2>3 DEF KeysInv
<1>7. DataAt = {} /\ Waiting = {}
  <2>1. Held = <<>> BY <1>3 DEF Held
  <2>2. Len(Line) = 0
    <3>1. Len(Line) = Len(published) + Len(Held) + Len(outboundUplinks) BY <1>1, LineIndexes DEF LineShape
    <3> QED BY <1>2, <2>1, <3>1
  <2>3. DOMAIN Line = {} BY <1>1, <2>2, LineFacts
  <2>4. \A g \in Goroutine : Of(g).at \notin Holding BY <1>3, HandsOf DEF Holding, Parts
  <2> QED BY <2>3, <2>4 DEF DataAt, Waiting
<1>8. FrameKeysInv BY <1>7 DEF FrameKeysInv
<1>9. FramesInv
  <2>1. OneFramePerNumber
    <3>1. 0 .. fCntUp - 1 = {} BY <1>2
    <3> QED BY <1>7, <3>1 DEF OneFramePerNumber
  <2>2. LocationsInOrder BY <1>7 DEF LocationsInOrder
  <2>3. AnsweredOnce BY <1>3, <1>7 DEF AnsweredOnce
  <2> QED BY <1>7, <2>1, <2>2, <2>3 DEF FramesInv
<1>10. AcksInv
  <2>1. AckAt = {} BY <1>7 DEF AckAt
  <2>2. AckTaken = {}
    <3>1. \A g \in Goroutine : Of(g).at \notin {"count"} \cup Holding BY <1>3, HandsOf DEF Holding, Parts
    <3> QED BY <3>1 DEF AckTaken
  <2>3. AcksSent = 0 /\ AcksTaken = 0 /\ AckFlag = 0
    BY <1>2, <2>1, <2>2, FS_EmptySet DEF AcksSent, AcksTaken, AckFlag
  <2>4. AcksDue \in Nat BY <1>1, AckSets DEF AckSizes
  <2> QED BY <1>7, <2>3, <2>4 DEF AcksInv
<1> QED BY <1>1, <1>4, <1>5, <1>6, <1>8, <1>9, <1>10 DEF SimIInv

\* Each part is kept, given the others.
LEMMA SimStep == SimIInv /\ [DeviceNext]_deviceVars => SimIInv'
BY NextTypes, NextChannels, NextDown, NextKeys, NextFrameKeys, NextFrames, NextAcks DEF SimIInv

\* Hence it holds always.
LEMMA SimInvariant == DeviceSpec => []SimIInv
<1>1. DeviceInit => SimIInv BY SimStart
<1>2. SimIInv /\ [DeviceNext]_deviceVars => SimIInv' BY SimStep
<1> QED BY <1>1, <1>2, PTL DEF DeviceSpec

\* Channels never hold more than their capacity, and what the session's address
\* and keys hold comes from an accepted join (device.go:236, 387).
THEOREM SimulatorTypes == DeviceSpec => []DeviceTypeOK
<1>1. SimIInv => DeviceTypeOK
  <2> SUFFICES ASSUME SimIInv PROVE DeviceTypeOK
    OBVIOUS
  <2>1. SimTypes /\ ChannelsInv /\ KeysInv BY DEF SimIInv
  <2>2. /\ uplink.at \in {"top", "join", "ack", "count", "push", "ended"} \cup Parts
        /\ sender.at \in {"idle", "publish", "ended"} /\ downlink.at \in {"idle", "appSKey", "nwkSKey", "store", "ended"}
    BY <2>1 DEF SimTypes, UplinkState, DownlinkState, Holding
  <2>3. \A c \in Command : answer[c].at \in {"none", "silent", "delay", "ack", "count", "push", "ended"} \cup Parts
    <3>1. \A s \in AnswerState : s.at \in {"none", "silent", "delay", "ack", "count", "push", "ended"} \cup Parts
      BY DEF AnswerState, Holding
    <3> QED BY <2>1, <3>1 DEF SimTypes
  <2>4. devNonce \in 0 .. MaxJoins
    BY <2>1, BoundsAreNumbers DEF SimTypes, KeysInv
  <2>5. \A p \in Parts : keys[p].accept \in accepted \cup {0} /\ keys[p].request \in 0 .. MaxJoins
    BY <2>1, BoundsAreNumbers DEF SimTypes, KeySet, KeyPair, KeysInv
  <2>6. cancelled \in BOOLEAN /\ activated \in BOOLEAN /\ pendingAck \in BOOLEAN BY <2>1 DEF SimTypes
  <2> QED BY <2>1, <2>2, <2>3, <2>4, <2>5, <2>6 DEF DeviceTypeOK, ChannelsInv
<1> QED BY <1>1, SimInvariant, PTL

\* Whatever the goroutines do between the mutex of the counter and the channel,
\* every number is that of one frame, and none is lost while the device runs
\* (device.go:344, 374, 387).
THEOREM OneFrameForEachNumber == DeviceSpec => []OneFramePerNumber
<1>1. SimIInv => OneFramePerNumber BY DEF SimIInv, FramesInv
<1> QED BY <1>1, SimInvariant, PTL

\* The locations reach the network in the order of their numbers: only answers
\* overtake (device.go:140, 387).
THEOREM LocationsKeepOrder == DeviceSpec => []LocationsInOrder
<1>1. SimIInv => LocationsInOrder BY DEF SimIInv, FramesInv
<1> QED BY <1>1, SimInvariant, PTL

\* A command has one answer at most, and one when its goroutine has ended,
\* unless the device is stopped (device.go:319).
THEOREM OneAnswerPerCommand == DeviceSpec => []AnsweredOnce
<1>1. SimIInv => AnsweredOnce BY DEF SimIInv, FramesInv
<1> QED BY <1>1, SimInvariant, PTL

\* The device acknowledges no more than the confirmed downlinks it was sent,
\* whichever goroutines take the flag (device.go:344, 444).
THEOREM AcknowledgementsAreOwed == DeviceSpec => []AcksAreOwed
<1>1. SimIInv => AcksAreOwed
  <2> SUFFICES ASSUME SimIInv PROVE AcksAreOwed
    OBVIOUS
  <2>1. AckSizes /\ AcksSent + AcksTaken + AckFlag <= AcksDue
    BY AckSets DEF SimIInv, AcksInv
  <2>2. AcksDue <= Cardinality(Confirmed) /\ Cardinality(Confirmed) \in Nat
    BY <2>1, FS_Subset, FS_CardinalityType DEF AckSizes, AcksDue, HeardConfirmed
  <2>3. AckFlag \in Nat BY DEF AckFlag
  <2>4. AcksSent <= Cardinality(Confirmed)
    <3>1. PICK a \in Nat, b \in Nat, f \in Nat, d \in Nat :
            a = AcksSent /\ b = AcksTaken /\ f = AckFlag /\ d = AcksDue
      BY <2>1, <2>3 DEF AckSizes
    <3>2. a + b + f <= d BY <2>1, <3>1
    <3>3. a <= d BY <3>2
    <3> QED BY <2>2, <3>1, <3>3
  <2>5. AckAt = {i \in DataAt : Line[i].ack} /\ Confirmed = {c \in DOMAIN downs : downs[c]}
    BY DEF AckAt, Confirmed
  <2> QED BY <2>4, <2>5 DEF AcksAreOwed, AcksSent
<1> QED BY <1>1, SimInvariant, PTL

\* What the network sees of a device is sound whichever goroutine goes first:
\* one frame for each number, locations in order, one answer for a command, no
\* acknowledgement that is not owed; and the address and the keys of a frame,
\* read one by one while another accept may be stored, each come from an
\* accepted join (device.go:236, 344-367).
THEOREM DeviceFramesSound == DeviceSpec => []FramesSound
<1>1. SimIInv => FramesHaveKeys BY DEF SimIInv, FrameKeysInv, FramesHaveKeys
<1>2. DeviceSpec => []FramesHaveKeys BY <1>1, SimInvariant, PTL
<1> QED BY <1>2, OneFrameForEachNumber, LocationsKeepOrder, OneAnswerPerCommand, AcknowledgementsAreOwed, PTL
        DEF FramesSound
=============================================================================
