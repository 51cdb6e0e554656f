------------------------------ MODULE Provisioning ------------------------------
(***************************************************************************)
(* Provisioning of devices: a row of devices is committed as PENDING, the  *)
(* device and its keys are made in ChirpStack call by call, and the outcome*)
(* is committed; an administrator retries what failed, and may edit the    *)
(* row.  No call is undone, and no transaction is open during the calls.   *)
(*                                                                         *)
(* The ORM writes the attributes that differ from what its object was last *)
(* loaded with.  A call that fails may have had its effect, or may have it *)
(* later: the deadline ends the waiting, not the call.                     *)
(***************************************************************************)
EXTENDS Integers, FiniteSets

CONSTANTS
  Request, Device, Eui, Key,
  Place,     \* an application with a device profile
  NoEui, NoKey,
  MaxLate    \* bound: calls given up that have not taken effect yet

ASSUME ConstantsOK == NoEui \notin Eui /\ NoKey \notin Key /\ MaxLate \in Nat

VARIABLES
  row,       \* rows of devices
  remote,    \* the devices of ChirpStack and their keys
  late,      \* calls given up that may still take effect
  req,       \* requests; .was is the object as it was last loaded
  overlap,   \* history: devices that two requests were about at once
  edited,    \* history: devices whose identity changed since the last load
  tardy      \* history: a call took effect after it was given up

history == <<overlap, edited, tardy>>
vars == <<row, remote, late, req, history>>

NoRow == [there |-> FALSE, eui |-> NoEui, place |-> NoEui, status |-> "NOT_PROVISIONED",
          at |-> FALSE, error |-> FALSE, last4 |-> NoKey]
Identified(e, p) == [NoRow EXCEPT !.there = TRUE, !.eui = e, !.place = p]
NotRemote == [there |-> FALSE, place |-> NoEui, key |-> NoKey]
RemoteAt(p) == [there |-> TRUE, place |-> p, key |-> NoKey]

Idle == [step |-> "idle", device |-> NoEui, key |-> NoKey, was |-> NoRow, erred |-> FALSE]

(* A row may be older than provisioning, and ChirpStack may have the device*)
(* already, made there by hand.                                            *)
Init ==
  /\ row \in [Device -> {NoRow} \cup {Identified(e, p) : e \in Eui, p \in Place}]
  /\ \A c, d \in Device : row[c].there /\ row[d].there /\ row[c].eui = row[d].eui => c = d
  /\ remote \in [Eui -> {NotRemote} \cup {RemoteAt(p) : p \in Place}]
  /\ late = {}
  /\ req = [r \in Request |-> Idle]
  /\ overlap = {} /\ edited = {} /\ tardy = FALSE

Running(r) == req[r].step \notin {"idle", "done"}
About(d) == {r \in Request : Running(r) /\ req[r].device = d}
Go(r, step) == req' = [req EXCEPT ![r].step = step]
Settled(d) == row[d].status = "PROVISIONED"
(* Requests meet on a row, or on a DevEUI that has changed rows.           *)
Others(r, d, e) ==
  {s \in Request \ {r} : Running(s) /\ req[s].device = d}
    \cup {s \in Request \ {r} : Running(s) /\ e # NoEui /\ req[s].was.eui = e}
Meets(r, d, e) ==
  overlap' = IF Others(r, d, e) = {} THEN overlap
             ELSE overlap \cup {d} \cup {req[s].device : s \in Others(r, d, e)}

(* The commit of an object: what differs from the object as it was loaded. *)
Merge(d, was, now) ==
  [f \in DOMAIN was |-> IF now[f] = was[f] THEN row[d][f] ELSE now[f]]

Free(e, d) == e = NoEui \/ \A c \in Device \ {d} : ~ (row[c].there /\ row[c].eui = e)

-----------------------------------------------------------------------------
(* The row before the calls.                                               *)

(* create_initial_assignment, refused by the unique index on the DevEUI.   *)
ProvisionDevice(r) ==
  \E d \in Device, e \in Eui, p \in Place, k \in Key :
    /\ req[r].step = "idle" /\ ~ row[d].there /\ Free(e, d)
    /\ row' = [row EXCEPT ![d] = [Identified(e, p) EXCEPT !.status = "PENDING"]]
    /\ req' = [req EXCEPT ![r] = [Idle EXCEPT !.step = "load", !.device = d, !.key = k]]
    /\ Meets(r, d, e)
    /\ UNCHANGED <<remote, late, edited, tardy>>

RetryProvisioning(r) ==
  \E d \in Device, k \in Key \cup {NoKey} :
    /\ req[r].step = "idle" /\ row[d].there
    /\ row[d].status # "PROVISIONED" /\ row[d].eui # NoEui
    /\ req' = [req EXCEPT ![r] = [Idle EXCEPT !.step = "pend", !.device = d, !.key = k,
                                              !.was = row[d]]]
    /\ Meets(r, d, row[d].eui)
    /\ UNCHANGED <<row, remote, late, edited, tardy>>

MarkPending(r) ==
  LET d == req[r].device  was == req[r].was IN
  /\ req[r].step = "pend"
  /\ row' = [row EXCEPT ![d] = Merge(d, was, [was EXCEPT !.status = "PENDING", !.error = FALSE])]
  /\ Go(r, "load")
  /\ UNCHANGED <<remote, late, history>>

Load(r) ==
  LET d == req[r].device IN
  /\ req[r].step = "load"
  /\ req' = [req EXCEPT ![r].step = "create", ![r].was = row[d]]
  /\ edited' = IF Settled(d) \/ About(d) # {r} THEN edited ELSE edited \ {d}
  /\ Meets(r, d, row[d].eui)
  /\ UNCHANGED <<row, remote, late, tardy>>

-----------------------------------------------------------------------------
(* The calls to ChirpStack, each with the values of the object.            *)

Call(r) == [op |-> req[r].step, eui |-> req[r].was.eui, place |-> req[r].was.place,
            key |-> req[r].key]

(* What a call changes in ChirpStack; what exists already is not made.     *)
Applied(c) ==
  IF c.eui = NoEui THEN remote
  ELSE CASE c.op = "create" /\ ~ remote[c.eui].there ->
              [remote EXCEPT ![c.eui] = RemoteAt(c.place)]
         [] c.op = "keys" /\ c.key # NoKey /\ remote[c.eui].there /\ remote[c.eui].key = NoKey ->
              [remote EXCEPT ![c.eui].key = c.key]
         [] c.op = "rekey" /\ remote[c.eui].key # NoKey ->
              [remote EXCEPT ![c.eui].key = c.key]
         [] OTHER -> remote

Answered(r, next) ==
  /\ remote' = Applied(Call(r))
  /\ Go(r, next)
  /\ UNCHANGED <<row, late, history>>

CreateDevice(r) ==
  LET e == req[r].was.eui IN
  /\ req[r].step = "create"
  /\ Answered(r, IF e = NoEui THEN "failed" ELSE IF remote[e].there THEN "get" ELSE "keys")

\* Mutant: the remote device is taken over wherever it is.
AnyPlace(r) ==
  /\ req[r].step = "get"
  /\ Answered(r, "update")

GetDevice(r) ==
  LET o == req[r].was IN
  /\ req[r].step = "get"
  /\ Answered(r, IF remote[o.eui].place = o.place THEN "update" ELSE "failed")

(* Name, description and is_disabled are brought up to date.               *)
UpdateDevice(r) ==
  /\ req[r].step = "update"
  /\ Answered(r, "keys")

\* Mutant: keys that exist are an error.
KeysOnce(r) ==
  LET has == remote[req[r].was.eui].key # NoKey  k == req[r].key IN
  /\ req[r].step = "keys"
  /\ Answered(r, IF (k = NoKey) # has THEN "failed" ELSE "made")

\* Mutant: keys that exist are left as they are.
KeysKept(r) ==
  LET has == remote[req[r].was.eui].key # NoKey  k == req[r].key IN
  /\ req[r].step = "keys"
  /\ Answered(r, IF k = NoKey /\ ~ has THEN "failed" ELSE "made")

EnsureKeys(r) ==
  LET has == remote[req[r].was.eui].key # NoKey  k == req[r].key IN
  /\ req[r].step = "keys"
  /\ Answered(r, CASE k = NoKey -> IF has THEN "made" ELSE "failed"
                   [] k # NoKey -> IF has THEN "rekey" ELSE "made")

UpdateKeys(r) ==
  /\ req[r].step = "rekey"
  /\ Answered(r, "made")

CallFails(r) ==
  /\ req[r].step \in {"create", "get", "update", "keys", "rekey"}
  /\ req[r].was.eui # NoEui
  /\ \/ remote' = remote /\ late' = late
     \/ remote' = Applied(Call(r)) /\ late' = late
     \/ remote' = remote /\ late' = late \cup {Call(r)} /\ Cardinality(late') <= MaxLate
  /\ req' = [req EXCEPT ![r].step = "failed", ![r].erred = TRUE]
  /\ UNCHANGED <<row, history>>

TakesEffectLate ==
  \E c \in late :
    /\ remote' = Applied(c)
    /\ late' = late \ {c}
    /\ tardy' = (tardy \/ Applied(c) # remote)
    /\ UNCHANGED <<row, req, overlap, edited>>

-----------------------------------------------------------------------------
(* The outcome.                                                            *)

MarkFailed(r) ==
  LET d == req[r].device  was == req[r].was
      now == [was EXCEPT !.status = "FAILED", !.at = FALSE, !.error = TRUE] IN
  /\ req[r].step = "failed"
  /\ row' = [row EXCEPT ![d] = Merge(d, was, now)]
  /\ Go(r, "done")
  /\ UNCHANGED <<remote, late, history>>

(* provisioned_at is the time of day, which always differs.                *)
MarkProvisioned(r) ==
  LET d == req[r].device  was == req[r].was  k == req[r].key
      now == [was EXCEPT !.status = "PROVISIONED", !.error = FALSE,
                         !.last4 = IF k = NoKey THEN @ ELSE k] IN
  /\ req[r].step = "made"
  /\ row' = [row EXCEPT ![d] = [Merge(d, was, now) EXCEPT !.at = TRUE]]
  /\ Go(r, "done")
  /\ UNCHANGED <<remote, late, history>>

(* The process dies, or the database refuses: what was committed stays.    *)
Abort(r) ==
  /\ Running(r)
  /\ Go(r, "done")
  /\ UNCHANGED <<row, remote, late, history>>

(* admin.py update_device: identity may change whatever the status is.     *)
EditDevice(r) ==
  \E d \in Device, e \in Eui \cup {NoEui}, p \in Place :
    /\ req[r].step = "idle" /\ row[d].there /\ Free(e, d)
    /\ row' = [row EXCEPT ![d].eui = e, ![d].place = p]
    /\ Go(r, "done")
    /\ edited' = IF row' = row THEN edited ELSE edited \cup {d}
    /\ UNCHANGED <<remote, late, overlap, tardy>>

RequestStep(r) ==
  \/ ProvisionDevice(r) \/ RetryProvisioning(r) \/ EditDevice(r)
  \/ MarkPending(r) \/ Load(r)
  \/ CreateDevice(r) \/ GetDevice(r) \/ UpdateDevice(r) \/ EnsureKeys(r) \/ UpdateKeys(r)
  \/ CallFails(r) \/ MarkFailed(r) \/ MarkProvisioned(r) \/ Abort(r)

Next == TakesEffectLate \/ \E r \in Request : RequestStep(r)

Spec == Init /\ [][Next]_vars

-----------------------------------------------------------------------------
Row == [there : BOOLEAN, eui : Eui \cup {NoEui}, place : Place \cup {NoEui},
        status : {"NOT_PROVISIONED", "PENDING", "PROVISIONED", "FAILED"},
        at : BOOLEAN, error : BOOLEAN, last4 : Key \cup {NoKey}]
SagaSteps == {"idle", "pend", "load", "create", "get", "update", "keys", "rekey",
          "failed", "made", "done"}

TypeOK ==
  /\ row \in [Device -> Row]
  /\ remote \in [Eui -> [there : BOOLEAN, place : Place \cup {NoEui}, key : Key \cup {NoKey}]]
  /\ late \subseteq [op : SagaSteps, eui : Eui, place : Place \cup {NoEui}, key : Key \cup {NoKey}]
  /\ req \in [Request -> [step : SagaSteps, device : Device \cup {NoEui}, key : Key \cup {NoKey},
                          was : Row, erred : BOOLEAN]]
  /\ overlap \subseteq Device /\ edited \subseteq Device /\ tardy \in BOOLEAN

(* A device shown as PROVISIONED (device_provisioning_service.py:268) is in*)
(* ChirpStack with keys, in the application and profile of its row, however*)
(* retries overlap, calls fail or processes die - unless the identity in   *)
(* the row was edited since the request that provisioned it read it.       *)
ProvisionedIsThere ==
  \A d \in Device \ edited : row[d].status = "PROVISIONED" =>
    LET e == row[d].eui IN e # NoEui /\ remote[e].place = row[d].place /\ remote[e].key # NoKey

(* The four digits shown with it are those of the key ChirpStack holds,    *)
(* unless two requests were about the device at once or a call that was    *)
(* given up took effect later.                                             *)
KeyShown ==
  \A d \in Device \ (edited \cup overlap) :
    row[d].status = "PROVISIONED" /\ ~ tardy =>
      row[d].last4 \in {NoKey, remote[row[d].eui].key}

(* The saga can be repeated from wherever it stopped: a request ends in    *)
(* FAILED only if a call failed, if ChirpStack has the device elsewhere, or*)
(* if a key or the DevEUI is missing.                                      *)
RetryCompletes ==
  [][\A r \in Request : MarkFailed(r) =>
       LET o == req[r].was IN
       \/ req[r].erred \/ req[r].key = NoKey \/ o.eui = NoEui
       \/ remote[o.eui].place # o.place]_vars

(* A device that failed has no provisioned_at                              *)
(* (test_chirpstack_device_provisioning_service.py:266).                   *)
FailedHasNoTime == \A d \in Device : row[d].status = "FAILED" => ~ row[d].at
=============================================================================
