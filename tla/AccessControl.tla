----------------------------- MODULE AccessControl -----------------------------
(***************************************************************************)
(* Services, roles and users: who may use what.  The requests that create  *)
(* roles and services and assign them run at once; each looks for the row  *)
(* it is about to write before it writes it, and the unique constraints    *)
(* decide between two that found none.  A user is let in to a service by   *)
(* the rows there are when the request is checked.                         *)
(***************************************************************************)
EXTENDS Integers, FiniteSets

CONSTANTS
  Users, Roles, Services,      \* Roles and Services are the names, unique in their tables
  SeededRoles, SeededServices, \* the rows that migrations create
  Requests,                    \* requests of the administrators
  None

ASSUME SeededAreNames == SeededRoles \subseteq Roles /\ SeededServices \subseteq Services

VARIABLES
  roles, services,     \* committed rows of the two tables
  inactive,            \* users whose row is marked deleted
  assignments,         \* committed rows of user_roles and service_roles
  request,             \* per request: what it asks for, where it is, its answer
  nextId               \* the next id of a row of assignments
accessVars == <<roles, services, inactive, assignments, request, nextId>>

NoRequest == [at |-> "idle", kind |-> None, subject |-> None, object |-> None, found |-> 0, answer |-> 0]

AccessInit ==
  /\ roles = SeededRoles /\ services = SeededServices /\ inactive = {}
  /\ assignments = {} /\ nextId = 1
  /\ request = [r \in Requests |-> NoRequest]

Step(r, where) == request' = [request EXCEPT ![r].at = where]
Reply(r, code) == request' = [request EXCEPT ![r].at = "answered", ![r].answer = code]

RowsOf(kind, subject, object) ==
  {row \in assignments : row.kind = kind /\ row.subject = subject /\ row.object = object}

-----------------------------------------------------------------------------
(* A request arrives, for a new name or for a pair.                        *)
Ask(r) ==
  /\ request[r].at = "idle"
  /\ \E pair \in ({"role"} \X {None} \X Roles) \cup ({"service"} \X {None} \X Services)
                   \cup ({"user_role"} \X Users \X Roles) \cup ({"service_role"} \X Services \X Roles) :
       request' = [request EXCEPT ![r] =
         [at |-> IF pair[1] \in {"role", "service"} THEN "create" ELSE "first",
          kind |-> pair[1], subject |-> pair[2], object |-> pair[3], found |-> 0, answer |-> 0]]
  /\ UNCHANGED <<roles, services, inactive, assignments, nextId>>

(* create_role and create_service: the insert meets the unique name.       *)
Create(r) ==
  LET q == request[r]
      taken == q.object \in (IF q.kind = "role" THEN roles ELSE services) IN
  /\ q.at = "create"
  /\ Reply(r, IF taken THEN 409 ELSE 201)
  /\ roles' = IF q.kind = "role" THEN roles \cup {q.object} ELSE roles
  /\ services' = IF q.kind = "service" THEN services \cup {q.object} ELSE services
  /\ UNCHANGED <<inactive, assignments, nextId>>

(* assign_role_to_user and assign_service_to_role: the user and the role,  *)
(* or the role and the service, each by its key.                           *)
RoleThere(q) == q.object \in roles
FirstThere(q) == IF q.kind = "user_role" THEN q.subject \notin inactive ELSE RoleThere(q)
SecondThere(q) == IF q.kind = "user_role" THEN RoleThere(q) ELSE q.subject \in services

CheckFirst(r) ==
  /\ request[r].at = "first"
  /\ IF FirstThere(request[r]) THEN Step(r, "second") ELSE Reply(r, 404)
  /\ UNCHANGED <<roles, services, inactive, assignments, nextId>>

CheckSecond(r) ==
  /\ request[r].at = "second"
  /\ IF SecondThere(request[r]) THEN Step(r, "select") ELSE Reply(r, 404)
  /\ UNCHANGED <<roles, services, inactive, assignments, nextId>>

(* scalar_one_or_none: two rows would be an error of the server.           *)
SelectAssignment(r) ==
  LET rows == RowsOf(request[r].kind, request[r].subject, request[r].object) IN
  /\ request[r].at = "select"
  /\ \/ Cardinality(rows) > 1 /\ Reply(r, 500)
     \/ rows = {} /\ Step(r, "write")
     \/ \E row \in rows : /\ rows = {row}
                          /\ request' = [request EXCEPT ![r].at = "write", ![r].found = row.id]
  /\ UNCHANGED <<roles, services, inactive, assignments, nextId>>

\* Mutant: the constraint covers the role alone.
RoleTaken(q) == \E row \in assignments : row.kind = q.kind /\ row.object = q.object

Taken(q) == RowsOf(q.kind, q.subject, q.object) # {}

(* The row is inserted, or the one that was found is marked as not deleted *)
(* once more: nothing marks a row whose service stays, so it has no effect.*)
Write(r) ==
  LET q == request[r] IN
  /\ q.at = "write"
  /\ \/ q.found # 0 /\ Reply(r, 201) /\ UNCHANGED <<assignments, nextId>>
     \/ q.found = 0 /\ Taken(q) /\ Reply(r, 409) /\ UNCHANGED <<assignments, nextId>>
     \/ /\ q.found = 0 /\ ~Taken(q) /\ Reply(r, 201)
        /\ assignments' = assignments \cup
             {[id |-> nextId, kind |-> q.kind, subject |-> q.subject, object |-> q.object]}
        /\ nextId' = nextId + 1
  /\ UNCHANGED <<roles, services, inactive>>

(* deactivate_user and reactivate_user, for what this module reads of them.*)
ToggleUser(u) ==
  /\ inactive' = IF u \in inactive THEN inactive \ {u} ELSE inactive \cup {u}
  /\ UNCHANGED <<roles, services, assignments, request, nextId>>

AccessNext ==
  \/ \E r \in Requests : Ask(r) \/ Create(r) \/ CheckFirst(r) \/ CheckSecond(r) \/ SelectAssignment(r) \/ Write(r)
  \/ \E u \in Users : ToggleUser(u)

AccessSpec == AccessInit /\ [][AccessNext]_accessVars

-----------------------------------------------------------------------------
(* validate_user_service_access, for a user who is not an administrator.   *)
HasAccess(u, s) ==
  \E role \in Roles :
    /\ \E row \in assignments : row.kind = "user_role" /\ row.subject = u /\ row.object = role
    /\ \E row \in assignments : row.kind = "service_role" /\ row.subject = s /\ row.object = role
    /\ s \in services

AccessTypeOK ==
  /\ roles \subseteq Roles /\ services \subseteq Services /\ inactive \subseteq Users
  /\ \A r \in Requests : request[r].answer \in {0, 201, 404, 409, 500}
  /\ \A row \in assignments : row.id \in 1 .. nextId - 1

(* Two administrators who assign the same pair at once, both having found  *)
(* no row, leave one row: the next request would fail with an error of the *)
(* server otherwise, and every one after it (rbac_service.py:63).          *)
OneRowPerPair ==
  /\ \A a, b \in assignments : a.kind = b.kind /\ a.subject = b.subject /\ a.object = b.object => a = b
  /\ \A r \in Requests : request[r].answer # 500

(* An answer can be relied on: after "created" and after "already assigned"*)
(* alike, of the role to the user and of the service to the role, the user *)
(* has access (rbac_service.py:82, 118, validations.py:18).                *)
AnswersGiveAccess ==
  \A q, p \in Requests :
    /\ request[q].answer \in {201, 409} /\ request[q].kind = "user_role"
    /\ request[p].answer \in {201, 409} /\ request[p].kind = "service_role"
    /\ request[q].object = request[p].object
    => HasAccess(request[q].subject, request[p].subject)
=============================================================================
