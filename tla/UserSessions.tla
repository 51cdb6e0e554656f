------------------------------ MODULE UserSessions ------------------------------
(***************************************************************************)
(* The refresh sessions of one user: login, rotation with its grace period,*)
(* logout, deactivation and reactivation of the user, and the clean-up job.*)
(* Only the clean-up ever touches two users' rows, each for itself, so one *)
(* user shows what there is to see.                                        *)
(*                                                                         *)
(* A refresh token is the session it belongs to.  Transactions run under   *)
(* READ COMMITTED: a statement that locks rows takes a snapshot, then locks*)
(* the rows it saw one by one, and looks again at one it had to wait for.  *)
(* What a request changes is visible from its commit on.                   *)
(***************************************************************************)
EXTENDS Integers, Sequences, FiniteSets

CONSTANTS
  Request, Nobody,
  MaxActive,      \* USER_SESSION_MAX_ACTIVE_SESSIONS
  Grace,          \* REFRESH_TOKEN_REUSE_GRACE_SECONDS
  Lifetime,       \* JWT_REFRESH_TOKEN_EXPIRE_DAYS
  Retention,      \* USER_SESSION_CLEANUP_RETENTION_DAYS
  MaxRequests,    \* bound: requests ever made
  MaxTime         \* bound: the last instant of the clock

ASSUME ConstantsOK ==
  /\ Nobody \notin Request
  /\ MaxActive \in Nat \ {0}
  /\ {Grace, Lifetime, Retention, MaxRequests, MaxTime} \subseteq Nat

Time == 0 .. MaxTime
Never == MaxTime + 1    \* revoked_at NULL
None == 0               \* replaced_by_session_id NULL
Kind == {"login", "refresh", "logout", "deactivate", "reactivate", "clean"}

VARIABLES
  sessions,     \* rows of user_sessions by id_session, in the order of insertion
  userActive,   \* users.deleted = "N"
  owner,        \* the request that holds the user's row FOR UPDATE
  clock, made,
  step, kind,
  token,        \* token[r], the session whose token the request presents
  now,          \* now[r], the time it took when it began
  mark,         \* mark[r], the time its set of sessions was read
  todo,         \* todo[r], rows of its statement's snapshot still to be locked
  held,         \* held[r], the rows it has locked
  seen,         \* seen[r], ids that an earlier statement read
  met,          \* history: a logout or deactivation was in progress during r
  ended,        \* history: logins ended by a logout or a deactivation
  answers       \* history: <<token, session>> of the refreshes answered

table == <<sessions, userActive>>
locks == <<owner, held, todo>>
reads == <<now, mark, seen>>
history == <<met, ended, answers>>
request == <<kind, token>>
vars == <<table, locks, reads, history, clock, made, step, request>>

Id == DOMAIN sessions

Init ==
  /\ sessions = <<>> /\ userActive = TRUE
  /\ owner = Nobody
  /\ clock = 0 /\ made = 0
  /\ step = [r \in Request |-> "idle"] /\ kind = [r \in Request |-> "login"]
  /\ token = [r \in Request |-> None]
  /\ now = [r \in Request |-> 0] /\ mark = [r \in Request |-> 0]
  /\ todo = [r \in Request |-> {}] /\ held = [r \in Request |-> {}]
  /\ seen = [r \in Request |-> {}]
  /\ met = [r \in Request |-> FALSE]
  /\ ended = {} /\ answers = {}

Tick ==
  /\ clock < MaxTime
  /\ clock' = clock + 1
  /\ UNCHANGED <<table, locks, reads, history, made, step, request>>

-----------------------------------------------------------------------------
(* What the queries ask of a row.                                          *)

Unrevoked(s) == sessions[s].there /\ sessions[s].revoked = Never

Live(s, t) == Unrevoked(s) /\ sessions[s].expires > t

Stale(t) ==
  {s \in Id : /\ sessions[s].there
              /\ sessions[s].issued < t - Retention
              /\ sessions[s].revoked # Never \/ sessions[s].expires < t}

Free(r, s) == \A u \in Request \ {r} : s \notin held[u]

-----------------------------------------------------------------------------
(* Requests.                                                               *)

Goto(r, place) == step' = [step EXCEPT ![r] = place]

InProgress(K) == {u \in Request : step[u] # "idle" /\ kind[u] \in K}
Enders == {"logout", "deactivate"}
Makers == {"login", "refresh"}

\* auth_user and deactivate_user want an active user; to reactivate an active
\* one writes nothing.
Ask(r, k, t) ==
  /\ step[r] = "idle" /\ made < MaxRequests
  /\ CASE k \in {"login", "deactivate"} -> userActive /\ t = None
       [] k = "reactivate" -> ~userActive /\ t = None
       [] k = "clean" -> t = None
       [] OTHER -> t \in Id
  /\ Goto(r, CASE k = "login" -> "count" [] k = "deactivate" -> "mark"
               [] k = "reactivate" -> "on" [] k = "clean" -> "unlink"
               [] OTHER -> "find")
  /\ made' = made + 1
  /\ kind' = [kind EXCEPT ![r] = k]
  /\ token' = [token EXCEPT ![r] = t]
  /\ now' = [now EXCEPT ![r] = clock]
  /\ met' = [u \in Request |->
               IF u = r THEN k \in Makers /\ InProgress(Enders) # {}
               ELSE met[u] \/ (k \in Enders /\ u \in InProgress(Makers))]
  /\ UNCHANGED <<table, locks, clock, mark, seen, ended, answers>>

\* Mutant: a refused request keeps the user's row.
KeepUser(r) == owner

FreeUser(r) == IF owner = r THEN Nobody ELSE owner

\* The end of a transaction: its locks go.
End(r) ==
  /\ Goto(r, "idle")
  /\ kind' = [kind EXCEPT ![r] = "login"]
  /\ token' = [token EXCEPT ![r] = None]
  /\ now' = [now EXCEPT ![r] = 0] /\ mark' = [mark EXCEPT ![r] = 0]
  /\ todo' = [todo EXCEPT ![r] = {}] /\ held' = [held EXCEPT ![r] = {}]
  /\ seen' = [seen EXCEPT ![r] = {}]
  /\ met' = [met EXCEPT ![r] = FALSE]
  /\ owner' = FreeUser(r)
  /\ UNCHANGED <<clock, made>>

\* The statement's snapshot: the rows it will lock.
Snapshot(r, rows, place) ==
  /\ todo' = [todo EXCEPT ![r] = rows]
  /\ mark' = [mark EXCEPT ![r] = clock]
  /\ Goto(r, place)

\* enforce_active_session_limit locks in the order of issue, the UPDATEs in any.
Candidates(r) ==
  IF kind[r] \in Makers
    THEN {s \in todo[r] : \A u \in todo[r] : s <= u}
    ELSE todo[r]

LockNext(r, s) ==
  /\ step[r] \in {"lock", "erase"}
  /\ s \in Candidates(r)
  /\ Free(r, s)
  /\ todo' = [todo EXCEPT ![r] = @ \ {s}]
  /\ held' = [held EXCEPT ![r] = @ \cup {s}]
  /\ UNCHANGED <<table, owner, reads, history, clock, made, step, request>>

-----------------------------------------------------------------------------
(* Login and rotation.                                                     *)

\* The active sessions; a rotation has flushed the end of its own.
Count(r) ==
  /\ step[r] = "count"
  /\ Snapshot(r, {s \in Id \ {token[r]} : Live(s, clock)}, "lock")
  /\ UNCHANGED <<table, owner, held, now, seen, history, clock, made, request>>

\* Mutant: sessions_to_revoke is one too small.
OneTooMany(r) == MaxActive + 1

LeftAfter(r) == MaxActive

\* The oldest of the sessions counted, as many as make room for one more.
Excess(r) ==
  LET active == {s \in held[r] \ {token[r]} : Live(s, mark[r])}
  IN {s \in active :
        Cardinality({u \in active : u < s}) < Cardinality(active) - LeftAfter(r) + 1}

Revoke(rows, S, t) ==
  [s \in DOMAIN rows |-> IF s \in S THEN [rows[s] EXCEPT !.revoked = t] ELSE rows[s]]

NewSession(r, origin, since, m) ==
  [origin |-> origin, there |-> TRUE, issued |-> clock, expires |-> since + Lifetime,
   revoked |-> Never, next |-> None, met |-> m]

\* The foreign key of the new row waits for a rotation that holds the user;
\* t is the time taken for expires_at before that.
Login(r, t) ==
  LET id == Len(sessions) + 1 IN
  /\ step[r] = "lock" /\ kind[r] = "login"
  /\ todo[r] = {} /\ owner = Nobody
  /\ sessions' = Append(Revoke(sessions, Excess(r), mark[r]),
                        NewSession(r, id, t, met[r]))
  /\ End(r)
  /\ UNCHANGED <<userActive, ended, answers>>

\* rotate_refresh_session looks for the session and its user.
FindSession(r) ==
  /\ step[r] = "find" /\ kind[r] = "refresh"
  /\ Goto(r, IF Live(token[r], now[r]) /\ userActive THEN "row" ELSE "reuse")
  /\ UNCHANGED <<table, locks, reads, history, clock, made, request>>

\* Mutant: the session is not locked and not looked at again.
TakeUnlocked(r) ==
  /\ step[r] = "row"
  /\ Goto(r, "user")
  /\ UNCHANGED <<table, locks, reads, history, clock, made, request>>

\* FOR UPDATE of the join: the session's row, then the user's.  A row that no
\* longer qualifies stays locked.
LockSession(r) ==
  /\ step[r] = "row"
  /\ Free(r, token[r])
  /\ held' = [held EXCEPT ![r] = {token[r]}]
  /\ Goto(r, IF Live(token[r], now[r]) THEN "user" ELSE "reuse")
  /\ UNCHANGED <<table, owner, todo, reads, history, clock, made, request>>

LockUser(r) ==
  /\ step[r] = "user" /\ owner = Nobody
  /\ owner' = r
  /\ Goto(r, IF userActive THEN "count" ELSE "reuse")
  /\ UNCHANGED <<table, held, todo, reads, history, clock, made, request>>

\* Mutant: the old session is linked to its replacement but not revoked.
LinkOnly(rows, s, id, t) == [rows EXCEPT ![s].next = id]

Replace(rows, s, id, t) ==
  [rows EXCEPT ![s].revoked = t, ![s].next = id]

Rotate(r) ==
  LET id == Len(sessions) + 1
      old == token[r]
  IN
  /\ step[r] = "lock" /\ kind[r] = "refresh" /\ todo[r] = {}
  /\ sessions' = Append(Replace(Revoke(sessions, Excess(r), mark[r]), old, id, now[r]),
                        NewSession(r, sessions[old].origin, now[r],
                                   met[r] \/ sessions[old].met))
  /\ answers' = answers \cup {<<old, id>>}
  /\ End(r)
  /\ UNCHANGED <<userActive, ended>>

\* _reuse_recently_rotated_session: the token's session was rotated a moment ago,
Reusable(r) ==
  LET s == sessions[token[r]] IN
  /\ s.there /\ userActive /\ Grace >= 1
  /\ s.revoked # Never /\ s.revoked >= now[r] - Grace
  /\ s.next # None

\* by a client with the same fingerprint,
Reuse(r) ==
  /\ step[r] = "reuse" /\ Reusable(r)
  /\ seen' = [seen EXCEPT ![r] = {sessions[token[r]].next}]
  /\ Goto(r, "replacement")
  /\ UNCHANGED <<table, locks, now, mark, history, clock, made, request>>

\* and its replacement, looked up by a second query, is active.
AnswerReplacement(r, s) ==
  /\ step[r] = "replacement" /\ s \in seen[r] /\ Live(s, now[r])
  /\ answers' = answers \cup {<<token[r], s>>}
  /\ End(r)
  /\ UNCHANGED <<table, ended>>

\* 401: no such session, nothing to reuse, or another client's fingerprint.
Refuse(r) ==
  /\ \/ step[r] = "reuse"
     \/ step[r] = "replacement" /\ \A s \in seen[r] : ~Live(s, now[r])
  /\ End(r)
  /\ UNCHANGED <<table, ended, answers>>

-----------------------------------------------------------------------------
(* Logout, deactivation and reactivation, clean-up.                        *)

\* revoke_refresh_session reads without a lock; no live session, nothing to do.
FindToRevoke(r) ==
  /\ step[r] = "find" /\ kind[r] = "logout" /\ Live(token[r], now[r])
  /\ Goto(r, "revoke")
  /\ UNCHANGED <<table, locks, reads, history, clock, made, request>>

NothingToRevoke(r) ==
  /\ step[r] = "find" /\ kind[r] = "logout" /\ ~Live(token[r], now[r])
  /\ End(r)
  /\ UNCHANGED <<table, ended, answers>>

\* Its UPDATE goes by the id, whatever has become of the row.
RevokeSession(r) ==
  /\ step[r] = "revoke" /\ Free(r, token[r]) /\ sessions[token[r]].there
  /\ sessions' = Revoke(sessions, {token[r]}, now[r])
  /\ ended' = ended \cup {sessions[token[r]].origin}
  /\ End(r)
  /\ UNCHANGED <<userActive, answers>>

\* StaleDataError: the clean-up was faster.
RowGone(r) ==
  /\ step[r] = "revoke" /\ Free(r, token[r]) /\ ~sessions[token[r]].there
  /\ End(r)
  /\ UNCHANGED <<table, ended, answers>>

\* deactivate_user: the UPDATE of the sessions, then, at the commit, the user.
MarkSessions(r) ==
  /\ step[r] = "mark"
  /\ Snapshot(r, {s \in Id : Unrevoked(s)}, "lock")
  /\ UNCHANGED <<table, owner, held, now, seen, history, clock, made, request>>

\* Mutant: only the newest session is revoked.
RevokedNewest(r) == {s \in held[r] : Unrevoked(s) /\ s = Len(sessions)}

RevokedWithUser(r) == {s \in held[r] : Unrevoked(s)}

Deactivate(r) ==
  /\ step[r] = "lock" /\ kind[r] = "deactivate"
  /\ todo[r] = {} /\ owner = Nobody
  /\ sessions' = Revoke(sessions, RevokedWithUser(r), mark[r])
  /\ userActive' = FALSE
  /\ ended' = ended \cup {sessions[s].origin : s \in Id}
  /\ End(r)
  /\ UNCHANGED answers

Reactivate(r) ==
  /\ step[r] = "on" /\ owner = Nobody
  /\ userActive' = TRUE
  /\ End(r)
  /\ UNCHANGED <<sessions, ended, answers>>

\* delete_stale_sessions: stale sessions are unlinked, then deleted.
Unlink(r) ==
  /\ step[r] = "unlink"
  /\ seen' = [seen EXCEPT ![r] = Stale(now[r])]
  /\ Snapshot(r, {s \in Id : sessions[s].there /\ sessions[s].next \in Stale(now[r])}, "lock")
  /\ UNCHANGED <<table, owner, held, now, history, clock, made, request>>

SelectStale(r) ==
  /\ step[r] = "lock" /\ kind[r] = "clean" /\ todo[r] = {}
  /\ Snapshot(r, Stale(now[r]), "erase")
  /\ UNCHANGED <<table, owner, held, now, seen, history, clock, made, request>>

DeleteStale(r) ==
  LET gone == held[r] \cap Stale(now[r])
      linked == {s \in held[r] : sessions[s].next \in seen[r]}
  IN
  /\ step[r] = "erase" /\ todo[r] = {}
  /\ sessions' = [s \in Id |-> [sessions[s] EXCEPT !.there = @ /\ s \notin gone,
                                                   !.next = IF s \in linked THEN None ELSE @]]
  /\ End(r)
  /\ UNCHANGED <<userActive, ended, answers>>

-----------------------------------------------------------------------------
(* Failures and deadlocks.                                                 *)

Fail(r) ==
  /\ step[r] # "idle"
  /\ End(r)
  /\ UNCHANGED <<table, ended, answers>>

NeedsUser(r) ==
  \/ step[r] \in {"user", "on"}
  \/ step[r] = "lock" /\ todo[r] = {} /\ kind[r] \in {"login", "deactivate"}

WaitsFor(r, u) ==
  /\ r # u
  /\ \/ NeedsUser(r) /\ owner = u
     \/ step[r] \in {"row", "revoke"} /\ token[r] \in held[u]
     \/ /\ step[r] \in {"lock", "erase"}
        /\ Candidates(r) \cap held[u] # {}
        /\ \A s \in Candidates(r) : ~Free(r, s)

\* PostgreSQL aborts one of the transactions that wait for each other.
DeadlockVictim(r) ==
  /\ \E ring \in SUBSET Request :
       /\ r \in ring
       /\ \A u \in ring : /\ \E v \in ring : WaitsFor(u, v)
                         /\ \E v \in ring : WaitsFor(v, u)
  /\ End(r)
  /\ UNCHANGED <<table, ended, answers>>

RequestStep(r) ==
  \/ \E s \in todo[r] : LockNext(r, s)
  \/ Count(r) \/ (\E t \in mark[r] .. clock : Login(r, t))
  \/ FindSession(r) \/ LockSession(r) \/ LockUser(r) \/ Rotate(r)
  \/ Reuse(r) \/ (\E s \in seen[r] : AnswerReplacement(r, s)) \/ Refuse(r)
  \/ FindToRevoke(r) \/ NothingToRevoke(r) \/ RevokeSession(r) \/ RowGone(r)
  \/ MarkSessions(r) \/ Deactivate(r) \/ Reactivate(r)
  \/ Unlink(r) \/ SelectStale(r) \/ DeleteStale(r)
  \/ DeadlockVictim(r)

Next ==
  \/ Tick
  \/ \E r \in Request :
       \/ \E k \in Kind, t \in Id \cup {None} : Ask(r, k, t)
       \/ RequestStep(r)
       \/ Fail(r)

Spec == Init /\ [][Next]_vars

\* A statement is executed unless it waits for a lock; users owe nothing.
FairSpec == Spec /\ \A r \in Request : WF_vars(RequestStep(r))

-----------------------------------------------------------------------------
(* Properties.                                                             *)

Row == [origin : Nat \ {0}, there : BOOLEAN, issued : Time,
        expires : Lifetime .. MaxTime + Lifetime, revoked : Time \cup {Never},
        next : Nat, met : BOOLEAN]

Step == {"idle", "count", "lock", "find", "row", "user", "reuse", "replacement",
         "revoke", "mark", "on", "unlink", "erase"}

\* Every variable keeps its type.
TypeOK ==
  /\ sessions \in Seq(Row)
  /\ userActive \in BOOLEAN
  /\ owner \in Request \cup {Nobody}
  /\ clock \in Time /\ made \in Nat
  /\ step \in [Request -> Step] /\ kind \in [Request -> Kind]
  /\ token \in [Request -> Nat]
  /\ now \in [Request -> Time] /\ mark \in [Request -> Time]
  /\ todo \in [Request -> SUBSET Id] /\ held \in [Request -> SUBSET Id]
  /\ seen \in [Request -> SUBSET Nat]
  /\ met \in [Request -> BOOLEAN]
  /\ ended \subseteq Nat /\ answers \subseteq Nat \X Nat

\* However refreshes, logins and logouts interleave, at most one session that
\* descends from a login is not revoked: a token cannot be rotated into two.
OneLivePerLogin ==
  \A s, u \in Id :
    Unrevoked(s) /\ Unrevoked(u) /\ sessions[s].origin = sessions[u].origin => s = u

\* Whoever repeats a refresh is given the session that the first one got, and
\* no second one.
SameAnswer ==
  \A a, b \in answers : a[1] = b[1] => a = b

\* Logins count what they see: the limit is exceeded by the requests that
\* overlap, and by no more.
LimitBound ==
  Cardinality({s \in Id : Live(s, clock)}) <= MaxActive + Cardinality(Request) - 1

\* A session outlives the logout of its login or the deactivation of its user
\* only if the request that made it, or one it descends from, overlapped them.
SurvivorsOverlap ==
  \A s \in Id :
    Unrevoked(s) /\ (~userActive \/ sessions[s].origin \in ended) => sessions[s].met

\* The clean-up never deletes a session that another row still names as its
\* replacement, which the foreign key would refuse.
ReplacementsExist ==
  \A s \in Id :
    sessions[s].there /\ sessions[s].next # None => sessions[sessions[s].next].there

\* Every request is answered, also when rotations and logins deadlock.
EveryRequestEnds ==
  \A r \in Request : step[r] # "idle" ~> step[r] = "idle"
=============================================================================
