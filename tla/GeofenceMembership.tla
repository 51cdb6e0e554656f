--------------------------- MODULE GeofenceMembership ---------------------------
(***************************************************************************)
(* Which assets a geofence watches: members of groups, groups assigned to  *)
(* fences, assets assigned directly, and the stored states that a removal  *)
(* cleans up.  Requests of one client overlap under READ COMMITTED; the    *)
(* sessions do not autoflush, so all a request writes reaches the database *)
(* at its commit and its own queries do not see it before.                 *)
(*                                                                         *)
(* The three association tables have one shape: rows that are dead or live *)
(* under a key that a partial unique index allows one live row.  Assets and*)
(* groups are never deleted.                                               *)
(***************************************************************************)
EXTENDS Integers, Sequences, FiniteSets

CONSTANTS
  Request, Asset, Group, Fence,
  History,     \* what earlier requests may have left under a key
  MaxRows,     \* bound: rows of one key
  NoPair

Pair == Fence \X Asset

MemberKey(g) == {<<"member", g, a>> : a \in Asset}
LinkKey(f) == {<<"link", f, g>> : g \in Group}
DirectKey(f) == {<<"direct", f, a>> : a \in Asset}
Key == UNION ({MemberKey(g) : g \in Group} \cup {LinkKey(f) : f \in Fence}
              \cup {DirectKey(f) : f \in Fence})

AtMostOne(h) == \A m, n \in DOMAIN h : h[m] /\ h[n] => m = n

ASSUME ConstantsOK ==
  /\ MaxRows \in Nat \ {0}
  /\ \A h \in History : h \in Seq(BOOLEAN) /\ AtMostOne(h) /\ Len(h) <= MaxRows
  /\ NoPair \notin Pair

VARIABLES
  rows,      \* rows[k], liveness of the rows of key k in the order of insertion
  group,     \* "absent", or whether the group is "active"
  fence,     \* the same, and deleted
  states,    \* pairs that have a row in geofence_asset_states
  looking,   \* the pair an evaluation saw in effect and has no state for
  req,       \* what each request has read and is about to write
  rival,     \* history: keys that others changed since the request began
  lapsed     \* history: pairs that were out of effect since it began

tables == <<rows, group, fence, states>>
history == <<rival, lapsed>>
vars == <<tables, looking, req, history>>

Live(k) == \E n \in DOMAIN rows[k] : rows[k][n]
LiveRows(ks) ==
  {row \in ks \X (1 .. MaxRows) : row[2] \in DOMAIN rows[row[1]] /\ rows[row[1]][row[2]]}
Members(g) == {a \in Asset : Live(<<"member", g, a>>)}
Usable(f) == fence[f].there /\ ~ fence[f].deleted

Covered(f, a) ==
  \/ Live(<<"direct", f, a>>)
  \/ \E g \in Group : group[g] = "active" /\ Live(<<"link", f, g>>) /\ a \in Members(g)
Effective(p) == Usable(p[1]) /\ fence[p[1]].active /\ Covered(p[1], p[2])

Quiet == [op |-> "none", step |-> "idle", at |-> NoPair, keys |-> {}, flag |-> FALSE,
          fences |-> {}, kill |-> {}, revive |-> {}, insert |-> {},
          groups |-> {}, pairs |-> {}, judged |-> NoPair, drop |-> {}]

NewFence == [there |-> FALSE, active |-> FALSE, deleted |-> FALSE]

Init ==
  /\ rows \in [Key -> History]
  /\ group \in [Group -> {"absent", "active"}]
  /\ fence \in [Fence -> {NewFence, [NewFence EXCEPT !.there = TRUE, !.active = TRUE]}]
  /\ \A k \in Key : rows[k] # <<>> =>
       /\ k[1] \in {"link", "direct"} => fence[k[2]].there
       /\ k[1] = "link" => group[k[3]] = "active"
       /\ k[1] = "member" => group[k[2]] = "active"
  /\ states \in SUBSET {p \in Pair : Effective(p)}
  /\ looking = NoPair
  /\ req = [r \in Request |-> Quiet]
  /\ rival = [r \in Request |-> {}]
  /\ lapsed = [r \in Request |-> {}]

Running(r) == req[r].step \notin {"idle", "committed", "refused"}
Over(step) == [Quiet EXCEPT !.step = step]

(* A state that another request deletes is gone for those that found it.   *)
Finish(r, step, gone) ==
  \E changed \in {{k \in Key : rows'[k] # rows[k]}} :
  \E out \in {{p \in Pair : ~ Effective(p)'}} :
    LET others == {s \in Request \ {r} : Running(s)} IN
    /\ req' = [s \in Request |-> IF s = r THEN Over(step) ELSE [req[s] EXCEPT !.drop = @ \ gone]]
    /\ rival' = [s \in Request |-> IF s \in others THEN rival[s] \cup changed ELSE {}]
    /\ lapsed' = [s \in Request |-> IF s \in others THEN lapsed[s] \cup out ELSE {}]

-----------------------------------------------------------------------------
(* Requests begin with the group or fence they are about.                  *)

Begin(r, request) ==
  /\ req[r].step = "idle"
  /\ req' = [req EXCEPT ![r] = request]
  /\ rival' = [rival EXCEPT ![r] = {}]
  /\ lapsed' = [lapsed EXCEPT ![r] = {p \in Pair : ~ Effective(p)}]
  /\ UNCHANGED <<tables, looking>>

ReplaceMembers(r) ==
  \E g \in Group : \E ks \in SUBSET MemberKey(g) :
    /\ group[g] # "absent"
    /\ Begin(r, [Quiet EXCEPT !.op = "replace", !.step = "fences", !.at = g, !.keys = ks])

AddMembers(r) ==
  \E g \in Group : \E ks \in SUBSET MemberKey(g) \ {{}} :
    /\ group[g] # "absent"
    /\ Begin(r, [Quiet EXCEPT !.op = "add", !.step = "rows", !.at = g, !.keys = ks])

RemoveMembers(r) ==
  \E g \in Group : \E ks \in SUBSET MemberKey(g) \ {{}} :
    /\ group[g] # "absent"
    /\ Begin(r, [Quiet EXCEPT !.op = "remove", !.step = "fences", !.at = g, !.keys = ks])

(* Only an attribute that differs from what was read is written.           *)
SetGroupActive(r) ==
  \E g \in Group, flag \in BOOLEAN :
    /\ group[g] # "absent"
    /\ LET was == group[g] = "active" IN
       Begin(r, [Quiet EXCEPT !.op = IF was = flag THEN "none" ELSE "setGroup",
                              !.step = IF was /\ ~ flag THEN "fences" ELSE "commit",
                              !.at = g, !.flag = flag])

AssignGroups(r) ==
  \E f \in Fence : \E ks \in SUBSET LinkKey(f) \ {{}} :
    /\ Usable(f)
    /\ \A k \in ks : group[k[3]] # "absent"
    /\ Begin(r, [Quiet EXCEPT !.op = "assign", !.step = "validate", !.at = f, !.keys = ks])

RemoveGroups(r) ==
  \E f \in Fence : \E ks \in SUBSET LinkKey(f) \ {{}} :
    /\ Usable(f)
    /\ Begin(r, [Quiet EXCEPT !.op = "unassign", !.step = "rows", !.at = f, !.keys = ks])

AssignAssets(r) ==
  \E f \in Fence : \E ks \in SUBSET DirectKey(f) \ {{}} :
    /\ Usable(f)
    /\ Begin(r, [Quiet EXCEPT !.op = "assign", !.step = "rows", !.at = f, !.keys = ks])

DeactivateAssignment(r) ==
  \E f \in Fence : \E k \in DirectKey(f) : \E n \in DOMAIN rows[k] :
    /\ Usable(f)
    /\ Begin(r, [Quiet EXCEPT !.op = "unassign", !.step = "check", !.at = f,
                              !.keys = {k}, !.kill = IF rows[k][n] THEN {<<k, n>>} ELSE {},
                              !.pairs = {<<f, k[3]>>}])

SetFenceActive(r) ==
  \E f \in Fence, flag \in BOOLEAN :
    /\ Usable(f)
    /\ Begin(r, [Quiet EXCEPT !.op = IF fence[f].active = flag THEN "none" ELSE "setFence",
                              !.step = "commit", !.at = f, !.flag = flag])

DeleteFence(r) ==
  \E f \in Fence :
    /\ Usable(f)
    /\ Begin(r, [Quiet EXCEPT !.op = IF fence[f].active THEN "setFence" ELSE "none",
                              !.step = "delete", !.at = f])

-----------------------------------------------------------------------------
(* What they read, each query in a snapshot of its own.                    *)

ReadFences(r) ==
  LET fences == {f \in Fence : Live(<<"link", f, req[r].at>>)} IN
  /\ req[r].step = "fences"
  /\ req' = [req EXCEPT ![r].fences = fences, ![r].step = "rows"]
  /\ UNCHANGED <<tables, looking, history>>

Validate(r) ==
  LET ok == \A k \in req[r].keys : group[k[3]] = "active" IN
  /\ req[r].step = "validate"
  /\ UNCHANGED <<tables, looking>>
  /\ IF ok THEN req' = [req EXCEPT ![r].step = "rows"] /\ UNCHANGED history
     ELSE Finish(r, "refused", {})

Known(ks) == {k \in ks : rows[k] # <<>>}

(* Of several rows of one asset the dictionary keeps any one.              *)
ReadMembers(r) ==
  LET q == req[r] IN
  /\ q.step = "rows" /\ q.op \in {"replace", "add"}
  /\ \E pick \in [Known(q.keys) -> 1 .. MaxRows] :
       /\ \A k \in Known(q.keys) : pick[k] \in DOMAIN rows[k]
       /\ LET kill == IF q.op = "add" THEN {} ELSE LiveRows(MemberKey(q.at) \ q.keys)
              revive == {<<k, pick[k]>> : k \in {j \in Known(q.keys) : ~ rows[j][pick[j]]}}
          IN req' = [req EXCEPT ![r].kill = kill, ![r].revive = revive,
                                ![r].insert = q.keys \ Known(q.keys),
                                ![r].pairs = q.fences \X {row[1][3] : row \in kill},
                                ![r].step = "check"]
  /\ UNCHANGED <<tables, looking, history>>

ReadRemoved(r) ==
  LET kill == LiveRows(req[r].keys) IN
  /\ req[r].step = "rows" /\ req[r].op = "remove"
  /\ req' = [req EXCEPT ![r].kill = kill, ![r].step = "check",
                        ![r].pairs = req[r].fences \X {row[1][3] : row \in kill}]
  /\ UNCHANGED <<tables, looking, history>>

ReadGroupAssets(r) ==
  /\ req[r].step = "rows" /\ req[r].op = "setGroup"
  /\ req' = [req EXCEPT ![r].step = "check", ![r].pairs = req[r].fences \X Members(req[r].at)]
  /\ UNCHANGED <<tables, looking, history>>

ReadAssigned(r) ==
  /\ req[r].step = "rows" /\ req[r].op = "assign"
  /\ req' = [req EXCEPT ![r].step = "commit", ![r].insert = {k \in req[r].keys : ~ Live(k)}]
  /\ UNCHANGED <<tables, looking, history>>

ReadUnassigned(r) ==
  LET kill == LiveRows(req[r].keys) IN
  /\ req[r].step = "rows" /\ req[r].op = "unassign"
  /\ req' = [req EXCEPT ![r].kill = kill, ![r].step = "check",
                        ![r].groups = {row[1][3] : row \in kill}]
  /\ UNCHANGED <<tables, looking, history>>

ReadAssetsOfGroup(r) ==
  \E g \in req[r].groups :
    /\ req[r].step = "check"
    /\ req' = [req EXCEPT ![r].groups = @ \ {g},
                          ![r].pairs = @ \cup ({req[r].at} \X Members(g))]
    /\ UNCHANGED <<tables, looking, history>>

\* Mutant: only direct assignments are looked at.
DirectOnly(r) ==
  \E p \in req[r].pairs :
    /\ req[r].step = "check" /\ req[r].groups = {} /\ req[r].judged = NoPair
    /\ req' = [req EXCEPT ![r].pairs = @ \ {p},
                          ![r].judged = IF Live(<<"direct", p[1], p[2]>>) THEN NoPair ELSE p]
    /\ UNCHANGED <<tables, looking, history>>

(* delete_state_if_unassigned, its two queries one after the other.        *)
HasEffectiveAssignment(r) ==
  \E p \in req[r].pairs :
    /\ req[r].step = "check" /\ req[r].groups = {} /\ req[r].judged = NoPair
    /\ req' = [req EXCEPT ![r].pairs = @ \ {p},
                          ![r].judged = IF Effective(p) THEN NoPair ELSE p]
    /\ UNCHANGED <<tables, looking, history>>

FindState(r) ==
  LET p == req[r].judged IN
  /\ req[r].step = "check" /\ p # NoPair
  /\ req' = [req EXCEPT ![r].judged = NoPair,
                        ![r].drop = IF p \in states THEN @ \cup {p} ELSE @]
  /\ UNCHANGED <<tables, looking, history>>

Checked(r) ==
  LET q == req[r] IN
  /\ q.step = "check" /\ q.groups = {} /\ q.pairs = {} /\ q.judged = NoPair
  /\ req' = [req EXCEPT ![r].step = "commit"]
  /\ UNCHANGED <<tables, looking, history>>

-----------------------------------------------------------------------------
(* The commit.  Rows are written by primary key, whatever they are now; the*)
(* unique index refuses a second live row of a key.                        *)

\* Mutant: the unique index has lost its WHERE, and counts dead rows.
DeadRowsClash(q) ==
  {k \in q.insert : rows[k] # <<>>}
    \cup {row[1] : row \in {w \in q.revive : Len(rows[w[1]]) > 1}}

Clashes(q) ==
  {k \in q.insert : Live(k)}
    \cup {row[1] : row \in {w \in q.revive : \E n \in DOMAIN rows[w[1]] : n # w[2] /\ rows[w[1]][n]}}

\* Mutant: a dead row is found but not revived.
DeadRowLeft(q, k) ==
  LET old == [n \in DOMAIN rows[k] |-> rows[k][n] /\ <<k, n>> \notin q.kill]
  IN IF k \in q.insert THEN Append(old, TRUE) ELSE old

Rewrite(q, k) ==
  LET old == [n \in DOMAIN rows[k] |-> \/ <<k, n>> \in q.revive
                                       \/ rows[k][n] /\ <<k, n>> \notin q.kill]
  IN IF k \in q.insert THEN Append(old, TRUE) ELSE old

Written(q) == [k \in Key |-> Rewrite(q, k)]

\* Mutant: the row is written whole, as it was read.
WholeRowWritten(q) ==
  [NewFence EXCEPT !.there = TRUE, !.active = q.flag, !.deleted = q.step = "delete"]

FenceRow(q) ==
  LET row == fence[q.at] IN
  [row EXCEPT !.active = IF q.op = "setFence" THEN q.flag ELSE @,
              !.deleted = IF q.step = "delete" THEN TRUE ELSE @]

WriteTables(q) ==
  /\ rows' = Written(q)
  /\ group' = IF q.op = "setGroup"
              THEN [group EXCEPT ![q.at] = IF q.flag THEN "active" ELSE "inactive"]
              ELSE group
  /\ fence' = IF q.op = "setFence" \/ q.step = "delete"
              THEN [fence EXCEPT ![q.at] = FenceRow(q)] ELSE fence
  /\ states' = states \ q.drop

Commit(r) ==
  LET q == req[r] IN
  /\ q.step \in {"commit", "delete"}
  /\ Clashes(q) = {}
  /\ \A k \in q.insert : Len(rows[k]) < MaxRows
  /\ WriteTables(q)
  /\ Finish(r, "committed", q.drop)
  /\ UNCHANGED looking

Refuse(r) ==
  /\ req[r].step = "commit"
  /\ Clashes(req[r]) # {}
  /\ UNCHANGED <<tables, looking>>
  /\ Finish(r, "refused", {})

(* A new group or fence: nobody knows it before it is committed.           *)
CreateGroup(r) ==
  \E g \in Group : \E ks \in SUBSET MemberKey(g) :
    /\ req[r].step = "idle" /\ group[g] = "absent"
    /\ group' = [group EXCEPT ![g] = "active"]
    /\ rows' = [k \in Key |-> IF k \in ks THEN <<TRUE>> ELSE rows[k]]
    /\ UNCHANGED <<fence, states, looking>>
    /\ Finish(r, "committed", {})

CreateFence(r) ==
  \E f \in Fence, flag \in BOOLEAN :
    /\ req[r].step = "idle" /\ ~ fence[f].there
    /\ fence' = [fence EXCEPT ![f] = [NewFence EXCEPT !.there = TRUE, !.active = flag]]
    /\ UNCHANGED <<rows, group, states, looking>>
    /\ Finish(r, "committed", {})

(* An evaluation stores a state for a pair it saw in effect a query before.*)
Look ==
  \E p \in Pair \ states :
    /\ looking = NoPair /\ Effective(p)
    /\ looking' = p
    /\ UNCHANGED <<tables, req, history>>

StoreState ==
  /\ looking # NoPair
  /\ states' = states \cup {looking}
  /\ looking' = NoPair
  /\ UNCHANGED <<rows, group, fence, req, history>>

BeginStep(r) ==
  \/ ReplaceMembers(r) \/ AddMembers(r) \/ RemoveMembers(r) \/ SetGroupActive(r)
  \/ AssignGroups(r) \/ RemoveGroups(r) \/ AssignAssets(r) \/ DeactivateAssignment(r)
  \/ SetFenceActive(r) \/ DeleteFence(r)

ReadStep(r) ==
  \/ ReadFences(r) \/ Validate(r) \/ ReadMembers(r) \/ ReadRemoved(r) \/ ReadGroupAssets(r)
  \/ ReadAssigned(r) \/ ReadUnassigned(r) \/ ReadAssetsOfGroup(r)
  \/ HasEffectiveAssignment(r) \/ FindState(r) \/ Checked(r)

EndStep(r) == Commit(r) \/ Refuse(r) \/ CreateGroup(r) \/ CreateFence(r)

Next ==
  \/ \E r \in Request : BeginStep(r) \/ ReadStep(r) \/ EndStep(r)
  \/ Look \/ StoreState

Spec == Init /\ [][Next]_vars

-----------------------------------------------------------------------------
TypeOK ==
  /\ rows \in [Key -> Seq(BOOLEAN)]
  /\ group \in [Group -> {"absent", "active", "inactive"}]
  /\ fence \in [Fence -> [there : BOOLEAN, active : BOOLEAN, deleted : BOOLEAN]]
  /\ states \subseteq Pair /\ looking \in Pair \cup {NoPair}
  /\ rival \in [Request -> SUBSET Key] /\ lapsed \in [Request -> SUBSET Pair]

(* The keys a request decides about, and the liveness it is asked to leave.*)
Asked(q) ==
  CASE q.op = "replace" -> MemberKey(q.at)
    [] q.op = "unassign" /\ q.keys \subseteq DirectKey(q.at) -> {row[1] : row \in q.kill}
    [] OTHER -> q.keys
Wanted(q, k) == q.op \in {"replace", "add", "assign"} /\ k \in q.keys

(* When a request of asset_group_service.py or crud_geofence.py commits,   *)
(* every key that no other request changed meanwhile is as it was asked:   *)
(* members not listed are out, those listed are in, dead rows or not.      *)
OutcomeAsAsked ==
  [][\A r \in Request : Running(r) /\ req'[r].step = "committed" =>
       \A k \in Asked(req[r]) \ rival[r] : Live(k)' = Wanted(req[r], k)]_vars

(* The unique index refuses a request (routers/asset_group.py:53, 136) only*)
(* when another one changed one of its keys meanwhile, or when the key has *)
(* several rows of which the dictionary kept a dead one.                   *)
RefusedForARival ==
  [][\A r \in Request : req[r].step = "commit" /\ req'[r].step = "refused" =>
       \E k \in Clashes(req[r]) : k \in rival[r] \/ Len(rows[k]) > 1]_vars

(* delete_state_if_unassigned: the state of a pair that was in effect all  *)
(* through the request is kept, whatever is unassigned beside it.          *)
StateSurvivesCover ==
  [][\A r \in Request, p \in states \ states' :
       Running(r) /\ req'[r].step = "committed" => p \in lapsed[r]]_vars

(* A deleted fence stays deleted and watches nothing, whatever request was *)
(* about to switch it on or to assign to it when it was deleted.           *)
DeletedWatchesNothing ==
  [][\A f \in Fence : fence[f].deleted =>
       fence'[f].deleted /\ \A a \in Asset : ~ Effective(<<f, a>>)']_vars

(* One live row per key, so a direct assignment, a link or a membership is *)
(* ended by ending the one row a request found.                            *)
OneLiveRow == \A k \in Key : AtMostOne(rows[k])
=============================================================================
