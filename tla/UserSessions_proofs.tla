--------------------------- MODULE UserSessions_proofs ---------------------------
(***************************************************************************)
(* Proofs about UserSessions for any requests, limit and times.            *)
(*                                                                         *)
(* Row locks are exclusive, a rotation holds its session and the user from *)
(* its join on, and a row is changed only by a request that locked it or   *)
(* by a logout that found it unlocked.  So a session is rotated once, and  *)
(* every later answer repeats the first.                                   *)
(***************************************************************************)
EXTENDS UserSessions, SequenceTheorems, FiniteSetTheorems, TLAPS

Rotating(r) == kind[r] = "refresh" /\ step[r] \in {"count", "lock"}

\* A token is that of a session, and only its own kind of request is at a step.
Shape ==
  \A r \in Request :
    /\ kind[r] \in {"refresh", "logout"} => token[r] \in Id
    /\ step[r] \in {"row", "user", "reuse", "replacement"} => kind[r] = "refresh"
    /\ step[r] = "revoke" => kind[r] = "logout"
    /\ step[r] \in {"erase", "unlink"} => kind[r] = "clean"
    /\ step[r] = "mark" => kind[r] = "deactivate"
    /\ step[r] = "count" => kind[r] \in Makers
    /\ kind[r] = "login" => step[r] \in {"idle", "count", "lock"}

Exclusive == \A r, u \in Request : r # u => held[r] \cap held[u] = {}

RotatorHolds ==
  \A r \in Request :
    /\ kind[r] = "refresh" /\ step[r] \in {"user", "count", "lock"} =>
         token[r] \in held[r] /\ Unrevoked(token[r])
    /\ Rotating(r) => owner = r /\ userActive

Origins ==
  /\ \A s \in Id : sessions[s].origin <= s
  /\ ended \subseteq Id

\* What is linked or about to be answered has been answered before, and a
\* session whose token was answered is revoked.
Answered ==
  /\ \A s \in Id : sessions[s].next # None => <<s, sessions[s].next>> \in answers
  /\ \A r \in Request : step[r] = "replacement" =>
       \A s \in seen[r] : <<token[r], s>> \in answers
  /\ \A a \in answers : a[1] \in Id /\ sessions[a[1]].revoked # Never

Overlap ==
  \A r \in InProgress(Enders), u \in InProgress(Makers) : met[u]

\* While a logout or a deactivation is on its way, what it will not revoke was
\* made beside it.
Closing ==
  \A r \in Request :
    /\ step[r] = "revoke" =>
         \A s \in Id : /\ Unrevoked(s)
                       /\ sessions[s].origin = sessions[token[r]].origin
                       => s = token[r] \/ sessions[s].met
    /\ step[r] = "lock" /\ kind[r] = "deactivate" =>
         \A s \in Id : Unrevoked(s) => s \in todo[r] \cup held[r] \/ sessions[s].met
    /\ step[r] # "idle" /\ kind[r] = "login" => userActive \/ met[r]

IInv ==
  /\ TypeOK /\ Shape /\ Exclusive /\ RotatorHolds /\ Origins
  /\ OneLivePerLogin /\ Answered /\ SameAnswer
  /\ Overlap /\ Closing /\ SurvivorsOverlap

-----------------------------------------------------------------------------
(* Rows.                                                                   *)

\* Changing rows in place keeps the table a sequence of rows.
LEMMA InPlace ==
  ASSUME NEW T, NEW rows \in Seq(T), NEW f \in [DOMAIN rows -> T]
  PROVE  f \in Seq(T) /\ Len(f) = Len(rows) /\ DOMAIN f = DOMAIN rows
<1>1. DOMAIN rows = 1 .. Len(rows) /\ Len(rows) \in Nat OBVIOUS
<1> QED BY <1>1

LEMMA IdFacts ==
  ASSUME TypeOK
  PROVE  /\ Id = 1 .. Len(sessions) /\ Len(sessions) \in Nat
         /\ \A s \in Id : sessions[s] \in Row
         /\ None \notin Id
<1>1. sessions \in Seq(Row) BY DEF TypeOK
<1> QED BY <1>1 DEF Id, None

LEMMA TimeFacts ==
  /\ Time \subseteq Nat /\ Never \in Nat /\ Never \notin Time
  /\ \A t \in Time : t + Lifetime \in Lifetime .. MaxTime + Lifetime
BY ConstantsOK DEF Time, Never

LEMMA RevokeRows ==
  ASSUME TypeOK, NEW S, NEW t \in Time
  PROVE  /\ Revoke(sessions, S, t) \in Seq(Row)
         /\ DOMAIN Revoke(sessions, S, t) = Id
         /\ Len(Revoke(sessions, S, t)) = Len(sessions)
         /\ \A s \in Id \ S : Revoke(sessions, S, t)[s] = sessions[s]
         /\ \A s \in Id \cap S :
              Revoke(sessions, S, t)[s] = [sessions[s] EXCEPT !.revoked = t]
<1>1. Revoke(sessions, S, t) \in [Id -> Row]
  BY IdFacts, TimeFacts DEF Revoke, Row, Id
<1>2. sessions \in Seq(Row) BY DEF TypeOK
<1>3. /\ Revoke(sessions, S, t) \in Seq(Row)
      /\ Len(Revoke(sessions, S, t)) = Len(sessions)
      /\ DOMAIN Revoke(sessions, S, t) = Id
  BY <1>1, <1>2, InPlace DEF Id
<1> QED BY <1>3 DEF Revoke, Id

\* Appending a row.
LEMMA AppendRow ==
  ASSUME NEW rows \in Seq(Row), NEW row \in Row
  PROVE  /\ Append(rows, row) \in Seq(Row)
         /\ DOMAIN Append(rows, row) = DOMAIN rows \cup {Len(rows) + 1}
         /\ \A s \in DOMAIN rows : Append(rows, row)[s] = rows[s]
         /\ Append(rows, row)[Len(rows) + 1] = row
         /\ Len(rows) + 1 \notin DOMAIN rows
OBVIOUS

LEMMA NewSessionType ==
  ASSUME TypeOK, NEW r \in Request, NEW o \in Nat \ {0}, NEW t \in Time, NEW m \in BOOLEAN
  PROVE  NewSession(r, o, t, m) \in Row
BY TimeFacts DEF NewSession, Row, None, TypeOK

-----------------------------------------------------------------------------
(* The inductive step, one lemma per kind of action.                       *)

LEMMA InitIInv == Init => IInv
<1> SUFFICES ASSUME Init PROVE IInv OBVIOUS
<1>1. Id = {} BY DEF Init, Id
<1>2. TypeOK BY <1>1, ConstantsOK DEF Init, TypeOK, Time, Kind, Step, None
<1>3. Shape /\ Exclusive /\ RotatorHolds BY DEF Init, Shape, Exclusive, RotatorHolds, Rotating
<1>4. Origins /\ OneLivePerLogin /\ SurvivorsOverlap
  BY <1>1 DEF Init, Origins, OneLivePerLogin, SurvivorsOverlap
<1>5. Answered /\ SameAnswer BY <1>1 DEF Init, Answered, SameAnswer
<1>6. Overlap /\ Closing BY DEF Init, Overlap, Closing, InProgress
<1> QED BY <1>2, <1>3, <1>4, <1>5, <1>6 DEF IInv

LEMMA TickIInv == ASSUME IInv, Tick PROVE IInv'
<1>1. TypeOK'
  <2>1. clock \in Time /\ clock < MaxTime /\ clock' = clock + 1 BY DEF IInv, TypeOK, Tick
  <2>2. clock' \in Time BY <2>1, ConstantsOK DEF Time
  <2>3. UNCHANGED <<table, locks, reads, history, made, step, request>> BY DEF Tick
  <2> QED BY <2>2, <2>3 DEF IInv, TypeOK, table, locks, reads, history, request, Id
<1>2. UNCHANGED <<table, locks, reads, history, step, request>> BY DEF Tick
<1>3. Shape' /\ Exclusive' /\ RotatorHolds' /\ Origins'
  BY <1>2 DEF IInv, Shape, Exclusive, RotatorHolds, Rotating, Origins, Unrevoked, Id,
              table, locks, request, history
<1>4. OneLivePerLogin' /\ Answered' /\ SameAnswer'
  BY <1>2 DEF IInv, OneLivePerLogin, Answered, SameAnswer, Unrevoked, Id,
              table, reads, request, history
<1>5. Overlap' /\ Closing' /\ SurvivorsOverlap'
  BY <1>2 DEF IInv, Overlap, Closing, SurvivorsOverlap, InProgress, Unrevoked, Id,
              table, locks, request, history
<1> QED BY <1>1, <1>3, <1>4, <1>5 DEF IInv

LEMMA AskIInv ==
  ASSUME IInv, NEW r \in Request, NEW k \in Kind, NEW t \in Id \cup {None}, Ask(r, k, t)
  PROVE  IInv'
<1>1. UNCHANGED <<table, locks, seen, ended, answers, clock, mark>> BY DEF Ask
<1>2. TypeOK'
  <2>1. t \in Nat BY IdFacts DEF IInv, None
  <2>2. step' \in [Request -> Step] BY DEF IInv, TypeOK, Ask, Goto, Step
  <2>3. /\ kind' \in [Request -> Kind] /\ token' \in [Request -> Nat]
        /\ now' \in [Request -> Time] /\ made' \in Nat
    BY <2>1 DEF IInv, TypeOK, Ask
  <2>4. met' \in [Request -> BOOLEAN] BY DEF IInv, TypeOK, Ask
  <2> QED BY <1>1, <2>2, <2>3, <2>4 DEF IInv, TypeOK, table, locks, Id
<1>3. Shape'
  BY <1>1 DEF IInv, TypeOK, Ask, Goto, Shape, Kind, Makers, Id, table
<1>4. Exclusive' /\ Origins' /\ OneLivePerLogin' /\ SameAnswer'
  BY <1>1 DEF IInv, Exclusive, Origins, OneLivePerLogin, SameAnswer, Unrevoked, Id,
              table, locks
<1>5. RotatorHolds'
  BY <1>1 DEF IInv, TypeOK, Ask, Goto, RotatorHolds, Rotating, Unrevoked, Kind, Id, table, locks
<1>6. Answered'
  BY <1>1 DEF IInv, TypeOK, Ask, Goto, Answered, Kind, Id, table
<1>7. Overlap'
  BY <1>1 DEF IInv, TypeOK, Ask, Goto, Overlap, InProgress, Enders, Makers, Kind
<1>8. Closing'
  BY <1>1 DEF IInv, TypeOK, Ask, Goto, Closing, InProgress, Unrevoked, Kind, Id, table, locks
<1>9. SurvivorsOverlap'
  BY <1>1 DEF IInv, SurvivorsOverlap, Unrevoked, Id, table
<1> QED BY <1>2, <1>3, <1>4, <1>5, <1>6, <1>7, <1>8, <1>9 DEF IInv

RequestTypes ==
  /\ owner \in Request \cup {Nobody} /\ clock \in Time /\ made \in Nat
  /\ step \in [Request -> Step] /\ kind \in [Request -> Kind]
  /\ token \in [Request -> Nat]
  /\ now \in [Request -> Time] /\ mark \in [Request -> Time]
  /\ todo \in [Request -> SUBSET Id] /\ held \in [Request -> SUBSET Id]
  /\ seen \in [Request -> SUBSET Nat] /\ met \in [Request -> BOOLEAN]

\* Only request r moves, to its end.
Leaves(r) ==
  /\ step'[r] = "idle" /\ kind'[r] = "login" /\ held'[r] = {}
  /\ \A u \in Request \ {r} :
       /\ step'[u] = step[u] /\ kind'[u] = kind[u] /\ token'[u] = token[u]
       /\ todo'[u] = todo[u] /\ held'[u] = held[u] /\ seen'[u] = seen[u]
       /\ met'[u] = met[u] /\ (owner = u => owner' = u)

\* The end of a request disturbs nobody else.
LEMMA Ending ==
  ASSUME IInv, NEW r \in Request, End(r), Id \subseteq Id'
  PROVE  RequestTypes' /\ Leaves(r) /\ Shape' /\ Exclusive' /\ Overlap'
<1>1. /\ owner' \in Request \cup {Nobody} /\ clock' \in Time /\ made' \in Nat
      /\ step' \in [Request -> Step] /\ kind' \in [Request -> Kind]
      /\ token' \in [Request -> Nat]
  BY DEF IInv, TypeOK, End, Goto, FreeUser, Kind, Step, None
<1>2. /\ now' \in [Request -> Time] /\ mark' \in [Request -> Time]
      /\ seen' \in [Request -> SUBSET Nat] /\ met' \in [Request -> BOOLEAN]
  BY ConstantsOK DEF IInv, TypeOK, End, Time
<1>3. todo' \in [Request -> SUBSET Id'] /\ held' \in [Request -> SUBSET Id']
  <2> DEFINE I == Id
             J == Id'
  <2>1. todo \in [Request -> SUBSET I] /\ held \in [Request -> SUBSET I] /\ I \subseteq J
    BY DEF IInv, TypeOK
  <2>2. todo' = [todo EXCEPT ![r] = {}] /\ held' = [held EXCEPT ![r] = {}] BY DEF End
  <2> HIDE DEF I, J
  <2>3. todo' \in [Request -> SUBSET J] /\ held' \in [Request -> SUBSET J] BY <2>1, <2>2
  <2> QED BY <2>3 DEF J
<1>4. Leaves(r) BY DEF IInv, TypeOK, End, Goto, FreeUser, Leaves
<1>5. Shape' BY <1>4 DEF IInv, Shape, Makers, Leaves
<1>6. Exclusive' BY <1>4 DEF IInv, Exclusive, Leaves
<1>7. Overlap' BY <1>4 DEF IInv, Overlap, InProgress, Leaves
<1> QED BY <1>1, <1>2, <1>3, <1>4, <1>5, <1>6, <1>7 DEF RequestTypes

\* A request that ends without a change of its own.
LEMMA EndIInv ==
  ASSUME IInv, NEW r \in Request, End(r), UNCHANGED <<table, ended, answers>>
  PROVE  IInv'
<1>1. sessions' = sessions /\ userActive' = userActive /\ Id' = Id BY DEF table, Id
<1>2. RequestTypes' /\ Leaves(r) /\ Shape' /\ Exclusive' /\ Overlap' BY <1>1, Ending
<1>3. TypeOK' BY <1>1, <1>2 DEF IInv, TypeOK, RequestTypes
<1>4. RotatorHolds' BY <1>1, <1>2 DEF IInv, RotatorHolds, Rotating, Unrevoked, Leaves
<1>5. Origins' /\ OneLivePerLogin' /\ SurvivorsOverlap' /\ SameAnswer'
  BY <1>1 DEF IInv, Origins, OneLivePerLogin, SurvivorsOverlap, SameAnswer, Unrevoked
<1>6. Answered' BY <1>1, <1>2 DEF IInv, Answered, Leaves
<1>7. Closing' BY <1>1, <1>2 DEF IInv, Closing, Unrevoked, Leaves
<1> QED BY <1>2, <1>3, <1>4, <1>5, <1>6, <1>7 DEF IInv

\* A request that moves on without committing anything.
LEMMA QuietIInv ==
  ASSUME IInv, NEW r \in Request,
         UNCHANGED <<table, history, clock, made, request, now>>,
         \/ \E s \in Id : LockNext(r, s)
         \/ Count(r) \/ FindSession(r) \/ LockSession(r) \/ LockUser(r) \/ Reuse(r)
         \/ FindToRevoke(r) \/ MarkSessions(r) \/ Unlink(r) \/ SelectStale(r)
  PROVE  IInv'
<1>1. /\ sessions' = sessions /\ userActive' = userActive /\ Id' = Id
      /\ kind' = kind /\ token' = token /\ met' = met
      /\ ended' = ended /\ answers' = answers
  BY DEF table, history, request, Id
<1>2. \A u \in Request \ {r} :
        /\ step'[u] = step[u] /\ todo'[u] = todo[u] /\ held'[u] = held[u]
        /\ seen'[u] = seen[u] /\ (owner = u => owner' = u)
  <2>1. TypeOK BY DEF IInv
  <2>2. \A u \in Request \ {r} : step'[u] = step[u]
    BY <2>1 DEF TypeOK, LockNext, Count, FindSession, LockSession, LockUser, Reuse,
         FindToRevoke, MarkSessions, Unlink, SelectStale, Snapshot, Goto
  <2>3. \A u \in Request \ {r} : todo'[u] = todo[u] /\ held'[u] = held[u]
    BY <2>1 DEF TypeOK, LockNext, Count, FindSession, LockSession, LockUser, Reuse,
         FindToRevoke, MarkSessions, Unlink, SelectStale, Snapshot, locks
  <2>4. \A u \in Request \ {r} : seen'[u] = seen[u] /\ (owner = u => owner' = u)
    BY <2>1, ConstantsOK DEF TypeOK, LockNext, Count, FindSession, LockSession, LockUser, Reuse,
         FindToRevoke, MarkSessions, Unlink, SelectStale, Snapshot, locks, reads
  <2> QED BY <2>2, <2>3, <2>4
<1>3. TypeOK'
  <2>1. step' \in [Request -> Step]
    BY DEF IInv, TypeOK, LockNext, Count, FindSession, LockSession, LockUser, Reuse,
         FindToRevoke, MarkSessions, Unlink, SelectStale, Snapshot, Goto, Step
  <2>2. owner' \in Request \cup {Nobody} /\ mark' \in [Request -> Time]
    BY DEF IInv, TypeOK, LockNext, Count, FindSession, LockSession, LockUser, Reuse,
         FindToRevoke, MarkSessions, Unlink, SelectStale, Snapshot, locks, reads
  <2>3. step[r] = "row" => token[r] \in Id BY DEF IInv, Shape
  <2>4. held' \in [Request -> SUBSET Id]
    BY <2>3 DEF IInv, TypeOK, LockNext, Count, FindSession, LockSession, LockUser, Reuse,
         FindToRevoke, MarkSessions, Unlink, SelectStale, Snapshot, locks, reads
  <2>5. todo' \in [Request -> SUBSET Id]
    BY DEF IInv, TypeOK, LockNext, Count, FindSession, LockSession, LockUser, Reuse,
         FindToRevoke, MarkSessions, Unlink, SelectStale, Snapshot, locks, reads, Stale
  <2>6. seen' \in [Request -> SUBSET Nat]
    <3>1. CASE Reuse(r)
      <4>1. step[r] = "reuse" /\ token[r] \in Id BY <3>1 DEF Reuse, IInv, Shape
      <4>2. sessions[token[r]].next \in Nat BY <4>1, IdFacts DEF IInv, Row
      <4> QED BY <3>1, <4>2 DEF Reuse, IInv, TypeOK
    <3>2. CASE Unlink(r)
      <4>1. Stale(now[r]) \subseteq Nat BY IdFacts DEF Stale, IInv
      <4> QED BY <3>2, <4>1 DEF Unlink, IInv, TypeOK
    <3>3. CASE ~Reuse(r) /\ ~Unlink(r)
      BY <3>3 DEF IInv, TypeOK, LockNext, Count, FindSession, LockSession, LockUser,
         FindToRevoke, MarkSessions, SelectStale, Snapshot, locks, reads
    <3> QED BY <3>1, <3>2, <3>3
  <2> QED BY <1>1, <2>1, <2>2, <2>4, <2>5, <2>6 DEF IInv, TypeOK
<1>4. Shape'
  <2>1. /\ step'[r] \in {"row", "user", "reuse", "replacement", "erase", "revoke", "lock", "count"}
        /\ step'[r] \in {"row", "user", "reuse", "replacement"} => kind[r] = "refresh"
        /\ step'[r] = "revoke" => kind[r] = "logout"
        /\ step'[r] = "erase" => kind[r] = "clean"
        /\ step'[r] = "count" => kind[r] = "refresh"
        /\ kind[r] = "login" => step'[r] = "lock"
    BY DEF IInv, TypeOK, Shape, LockNext, Count, FindSession, LockSession, LockUser, Reuse,
         FindToRevoke, MarkSessions, Unlink, SelectStale, Snapshot, Goto, Makers
  <2> QED BY <1>1, <1>2, <2>1 DEF IInv, Shape, Makers
<1>5. Exclusive'
  <2>1. \A s \in held'[r] \ held[r] : \A u \in Request \ {r} : s \notin held[u]
    BY DEF IInv, TypeOK, LockNext, Count, FindSession, LockSession, LockUser, Reuse, Free,
         FindToRevoke, MarkSessions, Unlink, SelectStale, Snapshot, locks
  <2> QED BY <1>2, <2>1 DEF IInv, Exclusive
<1>6. RotatorHolds'
  <2>1. kind[r] = "refresh" /\ step'[r] \in {"user", "count", "lock"} =>
          token[r] \in held'[r] /\ Unrevoked(token[r])
    <3>1. CASE LockSession(r)
      BY <3>1 DEF LockSession, Goto, Live, IInv, TypeOK
    <3>2. CASE ~LockSession(r)
      BY <3>2 DEF IInv, TypeOK, Shape, RotatorHolds, LockNext, Count, FindSession, LockUser, Reuse,
         FindToRevoke, MarkSessions, Unlink, SelectStale, Snapshot, Goto, locks
    <3> QED BY <3>1, <3>2
  <2>2. kind[r] = "refresh" /\ step'[r] \in {"count", "lock"} => owner' = r /\ userActive
    BY DEF IInv, TypeOK, Shape, RotatorHolds, Rotating, LockNext, Count, FindSession,
         LockSession, LockUser, Reuse,
         FindToRevoke, MarkSessions, Unlink, SelectStale, Snapshot, Goto, locks
  <2> QED BY <1>1, <1>2, <2>1, <2>2 DEF IInv, RotatorHolds, Rotating, Unrevoked
<1>7. Origins' /\ OneLivePerLogin' /\ SurvivorsOverlap' /\ SameAnswer'
  BY <1>1 DEF IInv, Origins, OneLivePerLogin, SurvivorsOverlap, SameAnswer, Unrevoked
<1>8. Answered'
  <2>1. step'[r] = "replacement" => \A s \in seen'[r] : <<token[r], s>> \in answers
    <3>1. CASE Reuse(r)
      BY <3>1 DEF Reuse, Reusable, IInv, TypeOK, Shape, Answered
    <3>2. CASE ~Reuse(r)
      BY <3>2 DEF IInv, TypeOK, LockNext, Count, FindSession, LockSession, LockUser,
         FindToRevoke, MarkSessions, Unlink, SelectStale, Snapshot, Goto
    <3> QED BY <3>1, <3>2
  <2> QED BY <1>1, <1>2, <2>1 DEF IInv, Answered
<1>9. Overlap'
  <2>1. (step'[r] # "idle") = (step[r] # "idle")
    BY DEF IInv, TypeOK, LockNext, Count, FindSession, LockSession, LockUser, Reuse,
         FindToRevoke, MarkSessions, Unlink, SelectStale, Snapshot, Goto
  <2> QED BY <1>1, <1>2, <2>1 DEF IInv, Overlap, InProgress
<1>10. Closing'
  <2>1. step'[r] = "revoke" =>
         \A s \in Id : /\ Unrevoked(s)
                       /\ sessions[s].origin = sessions[token[r]].origin
                       => s = token[r] \/ sessions[s].met
    <3>1. CASE FindToRevoke(r)
      BY <3>1 DEF FindToRevoke, Live, IInv, Shape, OneLivePerLogin
    <3>2. CASE ~FindToRevoke(r)
      BY <3>2 DEF IInv, TypeOK, Closing, LockNext, Count, FindSession, LockSession, LockUser, Reuse,
         MarkSessions, Unlink, SelectStale, Snapshot, Goto
    <3> QED BY <3>1, <3>2
  <2>2. step'[r] = "lock" /\ kind[r] = "deactivate" =>
         \A s \in Id : Unrevoked(s) => s \in todo'[r] \cup held'[r] \/ sessions[s].met
    BY DEF IInv, TypeOK, Shape, Closing, LockNext, Count, FindSession, LockSession, LockUser, Reuse,
         FindToRevoke, MarkSessions, Unlink, SelectStale, Snapshot, Goto, Makers
  <2>3. step'[r] # "idle" /\ kind[r] = "login" => userActive \/ met[r]
    <3>1. step[r] # "idle"
      BY DEF LockNext, Count, FindSession, LockSession, LockUser, Reuse,
         FindToRevoke, MarkSessions, Unlink, SelectStale
    <3> QED BY <3>1 DEF IInv, Closing
  <2> QED BY <1>1, <1>2, <2>1, <2>2, <2>3 DEF IInv, Closing, Unrevoked
<1> QED BY <1>3, <1>4, <1>5, <1>6, <1>7, <1>8, <1>9, <1>10 DEF IInv

-----------------------------------------------------------------------------
(* The commits.                                                            *)

\* What a commit of request r leaves as it was: the rows that another request
\* has locked, and for every row its login, its history and a revocation.
Kept(r) ==
  /\ sessions' \in Seq(Row) /\ Id \subseteq Id'
  /\ \A s \in Id : /\ sessions'[s].origin = sessions[s].origin
                   /\ sessions'[s].met = sessions[s].met
                   /\ sessions'[s].there => sessions[s].there
                   /\ sessions[s].revoked # Never => sessions'[s].revoked # Never
  /\ \A u \in Request \ {r}, s \in Id :
       s \in held[u] => /\ sessions'[s].there = sessions[s].there
                        /\ sessions'[s].revoked = sessions[s].revoked

\* What follows for the other requests, whatever the commit was.
LEMMA KeptOthers ==
  ASSUME IInv, NEW r \in Request, End(r), Kept(r),
         \A u \in Request \ {r} : Rotating(u) => userActive',
         \A s \in Id' \ Id : InProgress(Enders) \ {r} # {} => sessions'[s].met,
         \A u \in Request \ {r} :
           step[u] # "idle" /\ kind[u] = "login" => userActive' \/ met[u]
  PROVE  /\ RotatorHolds' /\ Closing'
         /\ \A s \in Id : Unrevoked(s)' => Unrevoked(s)
<1>1. \A s \in Id : Unrevoked(s)' => Unrevoked(s) BY DEF Kept, Unrevoked
<1>2. Leaves(r) /\ Shape' BY Ending DEF Kept
<1>3. ASSUME NEW u \in Request \ {r}, kind[u] = "refresh", step[u] \in {"user", "count", "lock"}
      PROVE  token[u] \in held[u] /\ Unrevoked(token[u])'
  <2>1. token[u] \in Id /\ token[u] \in held[u] /\ Unrevoked(token[u])
    BY <1>3 DEF IInv, Shape, RotatorHolds
  <2>2. token'[u] = token[u] BY <1>2, <1>3 DEF Leaves
  <2> QED BY <2>1, <2>2 DEF Kept, Unrevoked
<1>4. RotatorHolds'
  BY <1>2, <1>3 DEF IInv, Leaves, RotatorHolds, Rotating, Unrevoked
<1>5. ASSUME NEW u \in Request, step'[u] = "revoke", NEW s \in Id',
             Unrevoked(s)', sessions'[s].origin = sessions'[token'[u]].origin
      PROVE  s = token'[u] \/ sessions'[s].met
  <2>1. /\ u # r /\ step[u] = "revoke" /\ kind[u] = "logout"
        /\ token'[u] = token[u] /\ token[u] \in Id
    BY <1>2, <1>5 DEF Leaves, IInv, Shape
  <2>2. CASE s \in Id
    <3>1. Unrevoked(s) /\ sessions[s].origin = sessions[token[u]].origin
      BY <1>1, <1>5, <2>1, <2>2 DEF Kept
    <3> QED BY <2>1, <2>2, <3>1 DEF IInv, Closing, Kept
  <2>3. CASE s \notin Id BY <2>1, <2>3 DEF InProgress, Enders
  <2> QED BY <2>2, <2>3
<1>6. ASSUME NEW u \in Request, step'[u] = "lock", kind'[u] = "deactivate", NEW s \in Id',
             Unrevoked(s)'
      PROVE  s \in todo'[u] \cup held'[u] \/ sessions'[s].met
  <2>1. /\ u # r /\ step[u] = "lock" /\ kind[u] = "deactivate"
        /\ todo'[u] = todo[u] /\ held'[u] = held[u]
    BY <1>2, <1>6 DEF Leaves
  <2>2. CASE s \in Id BY <1>1, <1>6, <2>1, <2>2 DEF IInv, Closing, Kept
  <2>3. CASE s \notin Id BY <2>1, <2>3 DEF InProgress, Enders
  <2> QED BY <2>2, <2>3
<1>7. ASSUME NEW u \in Request, step'[u] # "idle", kind'[u] = "login"
      PROVE  userActive' \/ met'[u]
  BY <1>2, <1>7 DEF Leaves
<1>8. Closing' BY <1>5, <1>6, <1>7 DEF Closing
<1> QED BY <1>1, <1>4, <1>8

\* Rows revoked in place, of those the request has locked or nobody has.
LEMMA RevokeKept ==
  ASSUME IInv, NEW r \in Request, NEW S \in SUBSET Id, NEW t \in Time,
         \A u \in Request \ {r} : S \cap held[u] = {},
         sessions' = Revoke(sessions, S, t)
  PROVE  /\ Kept(r) /\ Id' = Id
         /\ \A s \in Id : /\ sessions'[s].next = sessions[s].next
                          /\ s \in S => ~Unrevoked(s)'
<1>1. TypeOK BY DEF IInv
<1>2. \A s \in Id : sessions[s] \in Row BY <1>1, IdFacts
<1>3. Id' = Id BY <1>1, RevokeRows DEF Id
<1>4. \A s \in Id : /\ s \notin S => sessions'[s] = sessions[s]
                    /\ s \in S => sessions'[s] = [sessions[s] EXCEPT !.revoked = t]
  BY <1>1, RevokeRows
<1>5. sessions' \in Seq(Row) BY <1>1, RevokeRows
<1>6. t # Never BY TimeFacts
<1>7. \A s \in Id : /\ sessions'[s].origin = sessions[s].origin
                    /\ sessions'[s].met = sessions[s].met
                    /\ sessions'[s].there = sessions[s].there
                    /\ sessions'[s].next = sessions[s].next
                    /\ s \in S => sessions'[s].revoked = t
                    /\ s \notin S => sessions'[s].revoked = sessions[s].revoked
  BY <1>2, <1>4 DEF Row
<1>8. Kept(r) BY <1>3, <1>5, <1>6, <1>7 DEF Kept
<1> QED BY <1>3, <1>6, <1>7, <1>8 DEF Unrevoked

LEMMA RevokeSessionIInv ==
  ASSUME IInv, NEW r \in Request, RevokeSession(r) PROVE IInv'
<1>1. step[r] = "revoke" /\ kind[r] = "logout" /\ token[r] \in Id /\ End(r)
  BY DEF RevokeSession, IInv, Shape
<1>2. now[r] \in Time BY DEF IInv, TypeOK
<1>3. sessions' = Revoke(sessions, {token[r]}, now[r]) BY DEF RevokeSession
<1>4. \A u \in Request \ {r} : {token[r]} \cap held[u] = {} BY DEF RevokeSession, Free
<1>5. /\ Kept(r) /\ Id' = Id
      /\ \A s \in Id : /\ sessions'[s].next = sessions[s].next
                       /\ s = token[r] => ~Unrevoked(s)'
  BY <1>1, <1>2, <1>3, <1>4, RevokeKept
<1>6. /\ userActive' = userActive /\ answers' = answers
      /\ ended' = ended \cup {sessions[token[r]].origin}
  BY DEF RevokeSession
<1>7. /\ RotatorHolds' /\ Closing'
      /\ \A s \in Id : Unrevoked(s)' => Unrevoked(s)
  BY <1>1, <1>5, <1>6, KeptOthers DEF IInv, RotatorHolds, Closing
<1>8. sessions[token[r]].origin \in Id
  BY <1>1, IdFacts DEF IInv, Origins, Row
<1>9. TypeOK' /\ Shape' /\ Exclusive' /\ Overlap' /\ Leaves(r)
  <2>1. ended' \subseteq Nat
    <3>1. ended \subseteq Nat /\ Id \subseteq Nat BY IdFacts DEF IInv, TypeOK
    <3> QED BY <1>6, <1>8, <3>1
  <2>2. RequestTypes' /\ Shape' /\ Exclusive' /\ Overlap' /\ Leaves(r) BY <1>1, <1>5, Ending
  <2> QED BY <1>5, <1>6, <2>1, <2>2 DEF IInv, TypeOK, RequestTypes, Kept
<1>10. Origins' BY <1>5, <1>6, <1>8 DEF IInv, Origins, Kept
<1>11. OneLivePerLogin' BY <1>5, <1>7 DEF IInv, OneLivePerLogin, Kept
<1>12. Answered' BY <1>5, <1>6, <1>9 DEF IInv, Answered, Kept, Leaves
<1>13. SameAnswer' BY <1>6 DEF IInv, SameAnswer
<1>14. SurvivorsOverlap'
  BY <1>1, <1>5, <1>6, <1>7 DEF IInv, Closing, SurvivorsOverlap, Kept
<1> QED BY <1>7, <1>9, <1>10, <1>11, <1>12, <1>13, <1>14 DEF IInv

LEMMA DeactivateIInv ==
  ASSUME IInv, NEW r \in Request, Deactivate(r) PROVE IInv'
<1>1. /\ step[r] = "lock" /\ kind[r] = "deactivate" /\ todo[r] = {}
      /\ owner = Nobody /\ End(r)
  BY DEF Deactivate
<1>2. mark[r] \in Time /\ held[r] \subseteq Id BY DEF IInv, TypeOK
<1> DEFINE S == RevokedWithUser(r)
<1>3. S \subseteq held[r] /\ \A s \in held[r] : Unrevoked(s) => s \in S BY DEF RevokedWithUser
<1>4. sessions' = Revoke(sessions, S, mark[r]) BY DEF Deactivate
<1> HIDE DEF S
<1>5. S \in SUBSET Id /\ \A u \in Request \ {r} : S \cap held[u] = {}
  BY <1>2, <1>3 DEF IInv, Exclusive
<1>6. /\ Kept(r) /\ Id' = Id
      /\ \A s \in Id : /\ sessions'[s].next = sessions[s].next
                       /\ s \in S => ~Unrevoked(s)'
  BY <1>2, <1>4, <1>5, RevokeKept
<1>7. /\ userActive' = FALSE /\ answers' = answers
      /\ ended' = ended \cup {sessions[s].origin : s \in Id}
  BY DEF Deactivate
<1>8. \A u \in Request \ {r} : ~Rotating(u)
  BY <1>1, ConstantsOK DEF IInv, RotatorHolds
<1>9. /\ RotatorHolds' /\ Closing'
      /\ \A s \in Id : Unrevoked(s)' => Unrevoked(s)
  <2>1. \A u \in Request \ {r} : step[u] # "idle" /\ kind[u] = "login" => met[u]
    BY <1>1 DEF IInv, Overlap, InProgress, Enders, Makers
  <2> QED BY <1>1, <1>6, <1>8, <2>1, KeptOthers
<1>10. \A s \in Id : sessions[s].origin \in Id
  BY IdFacts DEF IInv, Origins, Row
<1>11. TypeOK' /\ Shape' /\ Exclusive' /\ Overlap' /\ Leaves(r)
  <2>1. ended' \subseteq Nat
    <3>1. ended \subseteq Nat /\ Id \subseteq Nat BY IdFacts DEF IInv, TypeOK
    <3> QED BY <1>7, <1>10, <3>1
  <2>2. RequestTypes' /\ Shape' /\ Exclusive' /\ Overlap' /\ Leaves(r) BY <1>1, <1>6, Ending
  <2> QED BY <1>6, <1>7, <2>1, <2>2 DEF IInv, TypeOK, RequestTypes, Kept
<1>12. Origins' BY <1>6, <1>7, <1>10 DEF IInv, Origins, Kept
<1>13. OneLivePerLogin' BY <1>6, <1>9 DEF IInv, OneLivePerLogin, Kept
<1>14. Answered' BY <1>6, <1>7, <1>11 DEF IInv, Answered, Kept, Leaves
<1>15. SameAnswer' BY <1>7 DEF IInv, SameAnswer
<1>16. \A s \in Id : Unrevoked(s)' => sessions'[s].met
  BY <1>1, <1>3, <1>6, <1>9 DEF IInv, Closing, Kept
<1>17. SurvivorsOverlap' BY <1>6, <1>16 DEF SurvivorsOverlap
<1> QED BY <1>9, <1>11, <1>12, <1>13, <1>14, <1>15, <1>17 DEF IInv

LEMMA DeleteStaleIInv ==
  ASSUME IInv, NEW r \in Request, DeleteStale(r) PROVE IInv'
<1>1. step[r] = "erase" /\ End(r) BY DEF DeleteStale
<1> DEFINE gone == held[r] \cap Stale(now[r])
           linked == {s \in held[r] : sessions[s].next \in seen[r]}
           new == [s \in Id |-> [sessions[s] EXCEPT !.there = @ /\ s \notin gone,
                                   !.next = IF s \in linked THEN None ELSE @]]
<1>2. sessions' = new BY DEF DeleteStale
<1>3. \A s \in Id : sessions[s] \in Row BY IdFacts DEF IInv
<1>4. new \in [Id -> Row] BY <1>3 DEF Row, None
<1>5. sessions \in Seq(Row) BY DEF IInv, TypeOK
<1>6. new \in Seq(Row) /\ DOMAIN new = Id BY <1>4, <1>5, InPlace DEF Id
<1>7. Id' = Id BY <1>2, <1>6 DEF Id
<1>8. \A s \in Id : /\ sessions'[s].origin = sessions[s].origin
                    /\ sessions'[s].met = sessions[s].met
                    /\ sessions'[s].revoked = sessions[s].revoked
                    /\ sessions'[s].next \in {sessions[s].next, None}
                    /\ sessions'[s].there => sessions[s].there
                    /\ s \notin held[r] => sessions'[s].there = sessions[s].there
  BY <1>2, <1>3 DEF Row
<1>9. Kept(r)
  <2>1. \A u \in Request \ {r}, s \in Id : s \in held[u] => s \notin held[r]
    BY DEF IInv, Exclusive
  <2> QED BY <1>2, <1>6, <1>7, <1>8, <2>1 DEF Kept
<1>10. userActive' = userActive /\ answers' = answers /\ ended' = ended BY DEF DeleteStale
<1> HIDE DEF new, gone, linked
<1>11. /\ RotatorHolds' /\ Closing'
       /\ \A s \in Id : Unrevoked(s)' => Unrevoked(s)
  BY <1>1, <1>7, <1>9, <1>10, KeptOthers DEF IInv, RotatorHolds, Closing
<1>12. TypeOK' /\ Shape' /\ Exclusive' /\ Overlap' /\ Leaves(r)
  <2>1. RequestTypes' /\ Shape' /\ Exclusive' /\ Overlap' /\ Leaves(r) BY <1>1, <1>9, Ending DEF Kept
  <2> QED BY <1>9, <1>10, <2>1 DEF IInv, TypeOK, RequestTypes, Kept
<1>13. Origins' BY <1>7, <1>9, <1>10 DEF IInv, Origins, Kept
<1>14. OneLivePerLogin' BY <1>7, <1>9, <1>11 DEF IInv, OneLivePerLogin, Kept
<1>15. Answered' BY <1>7, <1>8, <1>10, <1>12 DEF IInv, Answered, Leaves
<1>16. SameAnswer' BY <1>10 DEF IInv, SameAnswer
<1>17. SurvivorsOverlap' BY <1>7, <1>9, <1>10, <1>11 DEF IInv, SurvivorsOverlap, Kept
<1> QED BY <1>11, <1>12, <1>13, <1>14, <1>15, <1>16, <1>17 DEF IInv

LEMMA AnswerIInv ==
  ASSUME IInv, NEW r \in Request, NEW s \in seen[r], AnswerReplacement(r, s)
  PROVE  IInv'
<1>1. <<token[r], s>> \in answers BY DEF AnswerReplacement, IInv, Answered
<1>2. UNCHANGED <<table, ended, answers>> /\ End(r) BY <1>1 DEF AnswerReplacement
<1> QED BY <1>2, EndIInv

LEMMA ReactivateIInv ==
  ASSUME IInv, NEW r \in Request, Reactivate(r) PROVE IInv'
<1>1. /\ End(r) /\ userActive' = TRUE
      /\ sessions' = sessions /\ answers' = answers /\ ended' = ended /\ Id' = Id
  BY DEF Reactivate, Id
<1>2. Kept(r) BY <1>1 DEF Kept, IInv, TypeOK
<1>3. RotatorHolds' /\ Closing' BY <1>1, <1>2, KeptOthers
<1>4. RequestTypes' /\ Shape' /\ Exclusive' /\ Overlap' /\ Leaves(r) BY <1>1, Ending
<1>5. TypeOK' BY <1>1, <1>4 DEF IInv, TypeOK, RequestTypes
<1>6. Origins' /\ OneLivePerLogin' /\ SameAnswer' /\ SurvivorsOverlap'
  BY <1>1 DEF IInv, Origins, OneLivePerLogin, SameAnswer, SurvivorsOverlap, Unrevoked
<1>7. Answered' BY <1>1, <1>4 DEF IInv, Answered, Leaves
<1> QED BY <1>3, <1>4, <1>5, <1>6, <1>7 DEF IInv

\* The rows that the limit revokes are locked.
LEMMA ExcessFacts ==
  ASSUME IInv, NEW r \in Request
  PROVE  /\ Excess(r) \in SUBSET Id /\ token[r] \notin Excess(r)
         /\ \A u \in Request \ {r} : Excess(r) \cap held[u] = {}
<1>1. Excess(r) \subseteq held[r] \ {token[r]} BY DEF Excess
<1> QED BY <1>1 DEF IInv, TypeOK, Exclusive

\* The rows as the limit leaves them.
LEMMA LimitRows ==
  ASSUME IInv, NEW r \in Request,
         NEW base, base = Revoke(sessions, Excess(r), mark[r])
  PROVE  /\ base \in Seq(Row) /\ DOMAIN base = Id /\ Len(base) = Len(sessions)
         /\ \A s \in Id : /\ base[s] \in Row
                          /\ base[s].origin = sessions[s].origin
                          /\ base[s].met = sessions[s].met
                          /\ base[s].next = sessions[s].next
                          /\ base[s].there = sessions[s].there
                          /\ s \in Excess(r) => base[s].revoked = mark[r]
                          /\ s \notin Excess(r) => base[s].revoked = sessions[s].revoked
<1>1. TypeOK /\ mark[r] \in Time BY DEF IInv, TypeOK
<1>2. \A s \in Id : sessions[s] \in Row BY <1>1, IdFacts
<1>3. /\ base \in Seq(Row) /\ DOMAIN base = Id /\ Len(base) = Len(sessions)
      /\ \A s \in Id : /\ s \notin Excess(r) => base[s] = sessions[s]
                       /\ s \in Excess(r) => base[s] = [sessions[s] EXCEPT !.revoked = mark[r]]
  BY <1>1, ExcessFacts, RevokeRows
<1>4. \A s \in Id : base[s] \in Row BY <1>3
<1>5. \A s \in Id \ Excess(r) : base[s] = sessions[s] BY <1>3
<1>6. \A s \in Id \cap Excess(r) :
        /\ base[s].origin = sessions[s].origin /\ base[s].met = sessions[s].met
        /\ base[s].next = sessions[s].next /\ base[s].there = sessions[s].there
        /\ base[s].revoked = mark[r]
  <2> SUFFICES ASSUME NEW s \in Id, s \in Excess(r)
               PROVE  /\ base[s].origin = sessions[s].origin /\ base[s].met = sessions[s].met
                      /\ base[s].next = sessions[s].next /\ base[s].there = sessions[s].there
                      /\ base[s].revoked = mark[r]
    OBVIOUS
  <2>1. PICK row \in Row : row = sessions[s] BY <1>2
  <2>2. base[s] = [row EXCEPT !.revoked = mark[r]] BY <1>3, <2>1
  <2> QED BY <2>1, <2>2 DEF Row
<1> QED BY <1>3, <1>4, <1>5, <1>6

LEMMA LoginIInv ==
  ASSUME IInv, NEW r \in Request, NEW t \in mark[r] .. clock, Login(r, t)
  PROVE  IInv'
<1> DEFINE id == Len(sessions) + 1
           base == Revoke(sessions, Excess(r), mark[r])
           new == NewSession(r, id, t, met[r])
<1>1. /\ step[r] = "lock" /\ kind[r] = "login" /\ End(r)
      /\ sessions' = Append(base, new)
      /\ userActive' = userActive /\ ended' = ended /\ answers' = answers
  BY DEF Login
<1>2. TypeOK /\ mark[r] \in Time /\ met[r] \in BOOLEAN BY DEF IInv, TypeOK
<1>3. t \in Time
  <2>1. mark[r] \in 0 .. MaxTime /\ clock \in 0 .. MaxTime BY <1>2 DEF TypeOK, Time
  <2> QED BY <2>1, ConstantsOK DEF Time
<1>4. /\ base \in Seq(Row) /\ DOMAIN base = Id /\ Len(base) = Len(sessions)
      /\ \A s \in Id : /\ base[s] \in Row
                       /\ base[s].origin = sessions[s].origin
                       /\ base[s].met = sessions[s].met
                       /\ base[s].next = sessions[s].next
                       /\ base[s].there = sessions[s].there
                       /\ s \in Excess(r) => base[s].revoked = mark[r]
                       /\ s \notin Excess(r) => base[s].revoked = sessions[s].revoked
  BY LimitRows
<1>5. id \in Nat \ {0} /\ id \notin Id BY <1>2, IdFacts
<1>6. new \in Row /\ new.origin = id /\ new.met = met[r] /\ new.next = None
      /\ new.revoked = Never
  BY <1>2, <1>3, <1>5, NewSessionType DEF NewSession
<1> HIDE DEF base, new
<1>7. /\ sessions' \in Seq(Row) /\ Id' = Id \cup {id} /\ sessions'[id] = new
      /\ \A s \in Id : sessions'[s] = base[s]
  BY <1>1, <1>4, <1>6, AppendRow DEF Id
<1> HIDE DEF id
<1>8. \A s \in Id : sessions[s] \in Row BY <1>2, IdFacts
<1>9. \A s \in Id : /\ sessions'[s].origin = sessions[s].origin
                    /\ sessions'[s].met = sessions[s].met
                    /\ sessions'[s].next = sessions[s].next
                    /\ sessions'[s].there = sessions[s].there
                    /\ s \in Excess(r) => sessions'[s].revoked = mark[r]
                    /\ s \notin Excess(r) => sessions'[s].revoked = sessions[s].revoked
  BY <1>4, <1>7
<1>10. mark[r] # Never BY <1>2, TimeFacts
<1>11. Kept(r) BY <1>7, <1>9, <1>10, ExcessFacts DEF Kept
<1>12. /\ RotatorHolds' /\ Closing'
       /\ \A s \in Id : Unrevoked(s)' => Unrevoked(s)
  <2>1. InProgress(Enders) # {} => met[r]
    BY <1>1 DEF IInv, Overlap, InProgress, Makers
  <2>2. \A s \in Id' \ Id : InProgress(Enders) \ {r} # {} => sessions'[s].met
    BY <2>1, <1>6, <1>7
  <2> QED BY <1>1, <1>11, <2>2, KeptOthers DEF IInv, RotatorHolds, Closing
<1>13. TypeOK' /\ Shape' /\ Exclusive' /\ Overlap' /\ Leaves(r)
  <2>1. RequestTypes' /\ Shape' /\ Exclusive' /\ Overlap' /\ Leaves(r) BY <1>1, <1>11, Ending DEF Kept
  <2> QED BY <1>1, <1>7, <2>1 DEF IInv, TypeOK, RequestTypes
<1>14. \A s \in Id : sessions[s].origin # id
  <2>1. \A s \in Id : sessions[s].origin <= s /\ sessions[s].origin \in Nat /\ s < id /\ s \in Nat
    BY <1>2, <1>8, IdFacts DEF IInv, Origins, Row, id
  <2> QED BY <2>1, <1>5
<1>15. Origins'
  <2>1. id <= id /\ ended' \subseteq Id' BY <1>1, <1>5, <1>7 DEF IInv, Origins
  <2> QED BY <1>6, <1>7, <1>9, <2>1 DEF IInv, Origins
<1>16. OneLivePerLogin'
  BY <1>6, <1>7, <1>9, <1>12, <1>14 DEF IInv, OneLivePerLogin
<1>17. Answered'
  <2>1. \A s \in Id' : sessions'[s].next # None => <<s, sessions'[s].next>> \in answers'
    <3> SUFFICES ASSUME NEW s \in Id', sessions'[s].next # None
                 PROVE  <<s, sessions'[s].next>> \in answers'
      OBVIOUS
    <3>1. s \in Id BY <1>6, <1>7
    <3>2. sessions'[s].next = sessions[s].next BY <1>9, <3>1
    <3>3. <<s, sessions[s].next>> \in answers BY <3>1, <3>2 DEF IInv, Answered
    <3> QED BY <1>1, <3>2, <3>3
  <2>2. \A a \in answers : a[1] \in Id' /\ sessions'[a[1]].revoked # Never
    <3>1. \A a \in answers : a[1] \in Id /\ sessions[a[1]].revoked # Never BY DEF IInv, Answered
    <3> QED BY <1>7, <1>11, <3>1 DEF Kept
  <2> QED BY <1>1, <1>13, <2>1, <2>2 DEF IInv, Answered, Leaves
<1>18. SameAnswer' BY <1>1 DEF IInv, SameAnswer
<1>19. SurvivorsOverlap'
  <2>1. id \notin ended BY <1>5 DEF IInv, Origins
  <2>2. ~userActive => met[r] BY <1>1 DEF IInv, Closing
  <2> QED BY <1>1, <1>6, <1>7, <1>9, <1>12, <2>1, <2>2 DEF IInv, SurvivorsOverlap
<1> QED BY <1>12, <1>13, <1>15, <1>16, <1>17, <1>18, <1>19 DEF IInv

LEMMA RotateIInv ==
  ASSUME IInv, NEW r \in Request, Rotate(r) PROVE IInv'
<1> DEFINE id == Len(sessions) + 1
           old == token[r]
           m == met[r] \/ sessions[old].met
           base == Revoke(sessions, Excess(r), mark[r])
           linked == Replace(base, old, id, now[r])
           new == NewSession(r, sessions[old].origin, now[r], m)
<1>1. /\ step[r] = "lock" /\ kind[r] = "refresh" /\ End(r)
      /\ sessions' = Append(linked, new)
      /\ userActive' = userActive /\ ended' = ended
      /\ answers' = answers \cup {<<old, id>>}
  BY DEF Rotate
<1>2. /\ TypeOK /\ mark[r] \in Time /\ now[r] \in Time /\ met[r] \in BOOLEAN
      /\ old \in Id /\ old \in held[r] /\ Unrevoked(old) /\ owner = r /\ userActive
  BY <1>1 DEF IInv, TypeOK, Shape, RotatorHolds, Rotating
<1>3. \A s \in Id : sessions[s] \in Row BY <1>2, IdFacts
<1>4. /\ base \in Seq(Row) /\ DOMAIN base = Id /\ Len(base) = Len(sessions)
      /\ \A s \in Id : /\ base[s] \in Row
                       /\ base[s].origin = sessions[s].origin
                       /\ base[s].met = sessions[s].met
                       /\ base[s].next = sessions[s].next
                       /\ base[s].there = sessions[s].there
                       /\ s \in Excess(r) => base[s].revoked = mark[r]
                       /\ s \notin Excess(r) => base[s].revoked = sessions[s].revoked
  BY LimitRows
<1>5. id \in Nat \ {0} /\ id \notin Id BY <1>2, IdFacts
<1>6. sessions[old].origin \in Nat \ {0} /\ m \in BOOLEAN
  BY <1>2, <1>3 DEF Row
<1>7. new \in Row /\ new.origin = sessions[old].origin /\ new.met = m /\ new.next = None
      /\ new.revoked = Never
  BY <1>2, <1>6, NewSessionType DEF NewSession
<1> HIDE DEF base, new, id, m
<1>8. \A s \in Id : base[s] \in Row BY <1>4
<1>9. /\ linked \in [Id -> Row]
      /\ linked[old].revoked = now[r] /\ linked[old].next = id
      /\ linked[old].origin = base[old].origin /\ linked[old].met = base[old].met
      /\ linked[old].there = base[old].there
      /\ \A s \in Id \ {old} : linked[s] = base[s]
  <2>1. base \in [Id -> Row] BY <1>4, <1>8
  <2>2. linked = [base EXCEPT ![old] = [base[old] EXCEPT !.revoked = now[r], !.next = id]]
    BY <1>2, <2>1 DEF Replace, Row
  <2>3. [base[old] EXCEPT !.revoked = now[r], !.next = id] \in Row
    BY <1>2, <1>5, <1>8 DEF Row
  <2>4. linked[old] = [base[old] EXCEPT !.revoked = now[r], !.next = id] BY <1>2, <2>1, <2>2
  <2>5. /\ linked[old].revoked = now[r] /\ linked[old].next = id
        /\ linked[old].origin = base[old].origin /\ linked[old].met = base[old].met
        /\ linked[old].there = base[old].there
    BY <1>2, <1>8, <2>4 DEF Row
  <2> QED BY <1>2, <2>1, <2>2, <2>3, <2>5
<1>10. linked \in Seq(Row) /\ DOMAIN linked = Id /\ Len(linked) = Len(sessions)
  BY <1>4, <1>9, InPlace
<1> HIDE DEF linked
<1>11. /\ sessions' \in Seq(Row) /\ Id' = Id \cup {id} /\ sessions'[id] = new
       /\ \A s \in Id : sessions'[s] = linked[s]
  BY <1>1, <1>7, <1>10, AppendRow DEF Id, id
<1>12. \A s \in Id : /\ sessions'[s].origin = sessions[s].origin
                     /\ sessions'[s].met = sessions[s].met
                     /\ sessions'[s].there = sessions[s].there
                     /\ s # old => sessions'[s].next = sessions[s].next
                     /\ s \in Excess(r) => sessions'[s].revoked = mark[r]
                     /\ s \notin Excess(r) /\ s # old => sessions'[s].revoked = sessions[s].revoked
                     /\ s = old => sessions'[s].revoked = now[r] /\ sessions'[s].next = id
  BY <1>2, <1>4, <1>9, <1>11, ExcessFacts
<1>13. mark[r] # Never /\ now[r] # Never BY <1>2, TimeFacts
<1>14. \A u \in Request \ {r} : old \notin held[u] BY <1>2 DEF IInv, Exclusive
<1>15. Kept(r) BY <1>11, <1>12, <1>13, <1>14, ExcessFacts DEF Kept
<1>16. /\ RotatorHolds' /\ Closing'
       /\ \A s \in Id : Unrevoked(s)' => Unrevoked(s)
  <2>1. InProgress(Enders) # {} => met[r]
    BY <1>1 DEF IInv, Overlap, InProgress, Makers
  <2>2. \A s \in Id' \ Id : InProgress(Enders) \ {r} # {} => sessions'[s].met
    BY <2>1, <1>7, <1>11 DEF m
  <2> QED BY <1>1, <1>15, <2>2, KeptOthers DEF IInv, RotatorHolds, Closing
<1>17. TypeOK' /\ Shape' /\ Exclusive' /\ Overlap' /\ Leaves(r)
  <2>1. RequestTypes' /\ Shape' /\ Exclusive' /\ Overlap' /\ Leaves(r) BY <1>1, <1>15, Ending DEF Kept
  <2>2. answers' \subseteq Nat \X Nat
    <3>1. old \in Nat /\ answers \subseteq Nat \X Nat BY <1>2, IdFacts DEF TypeOK
    <3> QED BY <1>1, <1>5, <3>1
  <2>3. ended' \subseteq Nat /\ userActive' \in BOOLEAN BY <1>1 DEF IInv, TypeOK
  <2> QED BY <1>11, <2>1, <2>2, <2>3 DEF TypeOK, RequestTypes
<1>18. \A s \in Id : s < id /\ s \in Nat BY <1>2, IdFacts DEF id
<1>19. Origins'
  <2>1. sessions[old].origin <= old /\ old < id BY <1>2, <1>18 DEF IInv, Origins
  <2>2. sessions[old].origin <= id BY <1>2, <1>5, <1>6, <1>18, <2>1
  <2>3. ended' \subseteq Id' BY <1>1, <1>11 DEF IInv, Origins
  <2> QED BY <1>7, <1>11, <1>12, <2>2, <2>3 DEF IInv, Origins
<1>20. OneLivePerLogin'
  <2>1. ASSUME NEW s \in Id, Unrevoked(s)', sessions'[s].origin = sessions[old].origin
        PROVE  FALSE
    <3>1. Unrevoked(s) /\ sessions[s].origin = sessions[old].origin BY <1>12, <1>16, <2>1
    <3>2. s = old BY <1>2, <3>1 DEF IInv, OneLivePerLogin
    <3> QED BY <1>12, <1>13, <2>1, <3>2 DEF Unrevoked
  <2> QED BY <1>7, <1>11, <1>12, <1>16, <2>1 DEF IInv, OneLivePerLogin
<1>21. \A a \in answers : a[1] # old BY <1>2 DEF IInv, Answered, Unrevoked
<1>22. Answered'
  <2>1. \A s \in Id' : sessions'[s].next # None => <<s, sessions'[s].next>> \in answers'
    BY <1>1, <1>7, <1>11, <1>12 DEF IInv, Answered
  <2>2. \A a \in answers' : a[1] \in Id' /\ sessions'[a[1]].revoked # Never
    <3>1. \A a \in answers : a[1] \in Id /\ sessions[a[1]].revoked # Never BY DEF IInv, Answered
    <3>2. \A a \in answers : a[1] \in Id' /\ sessions'[a[1]].revoked # Never
      BY <1>11, <1>15, <3>1 DEF Kept
    <3>3. old \in Id' /\ sessions'[old].revoked # Never BY <1>2, <1>11, <1>12, <1>13
    <3>4. ASSUME NEW a \in answers' PROVE a[1] \in Id' /\ sessions'[a[1]].revoked # Never
      <4>1. CASE a \in answers BY <3>2, <4>1
      <4>2. CASE a = <<old, id>>
        <5>1. a[1] = old BY <4>2
        <5> QED BY <3>3, <5>1
      <4> QED BY <1>1, <4>1, <4>2
    <3> QED BY <3>4
  <2>3. \A u \in Request : step'[u] = "replacement" =>
          \A s \in seen'[u] : <<token'[u], s>> \in answers'
    BY <1>1, <1>17 DEF IInv, Answered, Leaves
  <2> QED BY <2>1, <2>2, <2>3 DEF Answered
<1>23. SameAnswer' BY <1>1, <1>21 DEF IInv, SameAnswer
<1>24. SurvivorsOverlap'
  <2>1. sessions[old].origin \in ended => m BY <1>2 DEF IInv, SurvivorsOverlap, m
  <2>2. ASSUME NEW s \in Id, Unrevoked(s)', sessions'[s].origin \in ended PROVE sessions'[s].met
    BY <1>12, <1>16, <2>2 DEF IInv, SurvivorsOverlap
  <2> QED BY <1>1, <1>2, <1>7, <1>11, <2>1, <2>2 DEF SurvivorsOverlap
<1> QED BY <1>16, <1>17, <1>19, <1>20, <1>22, <1>23, <1>24 DEF IInv

-----------------------------------------------------------------------------
(* The theorems.                                                           *)

LEMMA NextIInv == IInv /\ [Next]_vars => IInv'
<1> SUFFICES ASSUME IInv, [Next]_vars PROVE IInv' OBVIOUS
<1>1. CASE UNCHANGED vars
  BY <1>1 DEF vars, table, locks, reads, history, request, IInv, TypeOK, Shape, Exclusive,
     RotatorHolds, Rotating, Origins, OneLivePerLogin, Answered, SameAnswer, Overlap, Closing,
     SurvivorsOverlap, InProgress, Unrevoked, Id
<1>2. CASE Tick BY <1>2, TickIInv
<1>3. CASE \E r \in Request, k \in Kind, t \in Id \cup {None} : Ask(r, k, t)
  BY <1>3, AskIInv
<1>4. ASSUME NEW r \in Request, RequestStep(r) PROVE IInv'
  <2>1. CASE \E s \in todo[r] : LockNext(r, s)
    <3>1. todo[r] \subseteq Id BY DEF IInv, TypeOK
    <3> QED BY <2>1, <3>1, QuietIInv DEF LockNext, reads
  <2>2. CASE Count(r) \/ FindSession(r) \/ LockSession(r) \/ LockUser(r)
    BY <2>2, QuietIInv DEF Count, FindSession, LockSession, LockUser, reads
  <2>3. CASE Reuse(r) \/ FindToRevoke(r) \/ MarkSessions(r) \/ Unlink(r) \/ SelectStale(r)
    BY <2>3, QuietIInv DEF Reuse, FindToRevoke, MarkSessions, Unlink, SelectStale, reads
  <2>4. CASE Refuse(r) \/ NothingToRevoke(r) \/ RowGone(r) \/ DeadlockVictim(r)
    BY <2>4, EndIInv DEF Refuse, NothingToRevoke, RowGone, DeadlockVictim
  <2>5. CASE \E t \in mark[r] .. clock : Login(r, t) BY <2>5, LoginIInv
  <2>6. CASE Rotate(r) BY <2>6, RotateIInv
  <2>7. CASE \E s \in seen[r] : AnswerReplacement(r, s) BY <2>7, AnswerIInv
  <2>8. CASE RevokeSession(r) BY <2>8, RevokeSessionIInv
  <2>9. CASE Deactivate(r) BY <2>9, DeactivateIInv
  <2>10. CASE Reactivate(r) BY <2>10, ReactivateIInv
  <2>11. CASE DeleteStale(r) BY <2>11, DeleteStaleIInv
  <2> QED BY <1>4, <2>1, <2>2, <2>3, <2>4, <2>5, <2>6, <2>7, <2>8, <2>9, <2>10, <2>11
          DEF RequestStep
<1>5. ASSUME NEW r \in Request, Fail(r) PROVE IInv'
  BY <1>5, EndIInv DEF Fail
<1> QED BY <1>1, <1>2, <1>3, <1>4, <1>5 DEF Next

THEOREM Invariance == Spec => []IInv
BY InitIInv, NextIInv, PTL DEF Spec

\* Every variable keeps its type.
THEOREM TypeCorrect == Spec => []TypeOK
<1>1. IInv => TypeOK BY DEF IInv
<1> QED BY <1>1, Invariance, PTL

\* A login never has two sessions that are not revoked: FOR UPDATE makes
\* rotate_refresh_session replace a session once.
THEOREM RotatedOnce == Spec => []OneLivePerLogin
<1>1. IInv => OneLivePerLogin BY DEF IInv
<1> QED BY <1>1, Invariance, PTL

\* Every refresh with one token that is answered is answered with one session,
\* whether by rotation or by _reuse_recently_rotated_session.
THEOREM OneAnswerPerToken == Spec => []SameAnswer
<1>1. IInv => SameAnswer BY DEF IInv
<1> QED BY <1>1, Invariance, PTL

\* What survives revoke_refresh_session or deactivate_user was made beside it.
THEOREM OnlyOverlapSurvives == Spec => []SurvivorsOverlap
<1>1. IInv => SurvivorsOverlap BY DEF IInv
<1> QED BY <1>1, Invariance, PTL

-----------------------------------------------------------------------------
(* The clean-up.  What it deletes was issued before the retention period,  *)
(* and so was every session that was replaced by it: that one is revoked,  *)
(* hence deleted too.                                                      *)

\* Sessions are issued in the order of their ids, and replaced by later ones.
Linked ==
  /\ \A s \in Id : sessions[s].issued <= clock
  /\ \A s, u \in Id : s < u => sessions[s].issued <= sessions[u].issued
  /\ \A s \in Id : sessions[s].next # None =>
       sessions[s].next \in Id /\ s < sessions[s].next
  /\ ReplacementsExist

Old(s, t) == sessions[s].issued < t - Retention

Taken(r) == held[r] \cup todo[r]

Erasing(r) ==
  /\ step[r] \in {"idle", "unlink"} => held[r] = {}
  /\ kind[r] = "clean" /\ step[r] \in {"lock", "erase"} =>
       \A s \in Taken(r) : Old(s, now[r])
  /\ step[r] = "erase" =>
       \A s \in Id : sessions[s].there /\ sessions[s].next \in Taken(r) => s \in Taken(r)

\* Rows keep what the clean-up goes by,
RowsStay ==
  Id' = Id /\ \A s \in Id : /\ sessions'[s].issued = sessions[s].issued
                            /\ sessions'[s].there = sessions[s].there
                            /\ sessions'[s].next = sessions[s].next

\* or one is added, perhaps as a replacement.
RowAdded(id) ==
  /\ id = Len(sessions) + 1 /\ Id' = Id \cup {id}
  /\ \A s \in Id : /\ sessions'[s].issued = sessions[s].issued
                   /\ sessions'[s].there = sessions[s].there
                   /\ sessions'[s].next \in {sessions[s].next, id}
  /\ sessions'[id].issued = clock /\ sessions'[id].there /\ sessions'[id].next = None

LEMMA RevokeStays ==
  ASSUME IInv, NEW S, NEW t \in Time, sessions' = Revoke(sessions, S, t)
  PROVE  RowsStay
<1>1. \A s \in Id : sessions[s] \in Row BY IdFacts DEF IInv
<1>2. Id' = Id BY RevokeRows DEF Id, IInv
<1>3. \A s \in Id : /\ s \notin S => sessions'[s] = sessions[s]
                    /\ s \in S => sessions'[s] = [sessions[s] EXCEPT !.revoked = t]
  BY RevokeRows DEF IInv
<1> QED BY <1>1, <1>2, <1>3 DEF RowsStay, Row

\* The rows as the limit leaves them.
LEMMA LimitStays ==
  ASSUME IInv, NEW r \in Request,
         NEW base, base = Revoke(sessions, Excess(r), mark[r])
  PROVE  /\ base \in Seq(Row) /\ DOMAIN base = Id /\ Len(base) = Len(sessions)
         /\ \A s \in Id : /\ base[s] \in Row
                          /\ base[s].issued = sessions[s].issued
                          /\ base[s].there = sessions[s].there
                          /\ base[s].next = sessions[s].next
<1>1. mark[r] \in Time BY DEF IInv, TypeOK
<1>2. \A s \in Id : sessions[s] \in Row BY IdFacts DEF IInv
<1>3. \A s \in Id : /\ s \notin Excess(r) => base[s] = sessions[s]
                    /\ s \in Excess(r) =>
                         base[s] = [sessions[s] EXCEPT !.revoked = mark[r]]
  BY <1>1, RevokeRows DEF IInv
<1>4. \A s \in Id : base[s].issued = sessions[s].issued BY <1>2, <1>3 DEF Row
<1> QED BY <1>4, LimitRows

LEMMA LoginAdds ==
  ASSUME IInv, NEW r \in Request, NEW t \in mark[r] .. clock, Login(r, t)
  PROVE  RowAdded(Len(sessions) + 1)
<1> DEFINE id == Len(sessions) + 1
           base == Revoke(sessions, Excess(r), mark[r])
           new == NewSession(r, id, t, met[r])
<1>1. sessions' = Append(base, new) BY DEF Login
<1>2. /\ base \in Seq(Row) /\ DOMAIN base = Id /\ Len(base) = Len(sessions)
      /\ \A s \in Id : /\ base[s] \in Row
                       /\ base[s].issued = sessions[s].issued
                       /\ base[s].there = sessions[s].there
                       /\ base[s].next = sessions[s].next
  BY LimitStays
<1>3. t \in Time /\ met[r] \in BOOLEAN
  <2>1. mark[r] \in 0 .. MaxTime /\ clock \in 0 .. MaxTime /\ met[r] \in BOOLEAN
    BY DEF IInv, TypeOK, Time
  <2> QED BY <2>1, ConstantsOK DEF Time
<1>4. id \in Nat \ {0} BY IdFacts DEF IInv
<1>5. new \in Row /\ new.issued = clock /\ new.there /\ new.next = None
  BY <1>3, <1>4, NewSessionType DEF IInv, NewSession
<1> HIDE DEF base, new
<1>6. /\ Id' = Id \cup {id} /\ sessions'[id] = new
      /\ \A s \in Id : sessions'[s] = base[s]
  BY <1>1, <1>2, <1>5, AppendRow DEF Id
<1> QED BY <1>2, <1>5, <1>6 DEF RowAdded

LEMMA RotateAdds ==
  ASSUME IInv, NEW r \in Request, Rotate(r)
  PROVE  RowAdded(Len(sessions) + 1)
<1> DEFINE id == Len(sessions) + 1
           old == token[r]
           m == met[r] \/ sessions[old].met
           base == Revoke(sessions, Excess(r), mark[r])
           linked == Replace(base, old, id, now[r])
           new == NewSession(r, sessions[old].origin, now[r], m)
<1>1. sessions' = Append(linked, new) /\ kind[r] = "refresh" BY DEF Rotate
<1>2. /\ base \in Seq(Row) /\ DOMAIN base = Id /\ Len(base) = Len(sessions)
      /\ \A s \in Id : /\ base[s] \in Row
                       /\ base[s].issued = sessions[s].issued
                       /\ base[s].there = sessions[s].there
                       /\ base[s].next = sessions[s].next
  BY LimitStays
<1>3. old \in Id /\ now[r] \in Time /\ met[r] \in BOOLEAN BY <1>1 DEF IInv, TypeOK, Shape
<1>4. id \in Nat \ {0} BY IdFacts DEF IInv
<1>5. sessions[old] \in Row BY <1>3, IdFacts DEF IInv
<1>6. new \in Row /\ new.issued = clock /\ new.there /\ new.next = None
  <2>1. sessions[old].origin \in Nat \ {0} /\ m \in BOOLEAN BY <1>3, <1>5 DEF Row
  <2> QED BY <1>3, <2>1, NewSessionType DEF IInv, NewSession
<1> HIDE DEF base, new, id, m
<1>7. /\ linked \in [Id -> Row]
      /\ \A s \in Id : /\ linked[s].issued = base[s].issued
                       /\ linked[s].there = base[s].there
                       /\ linked[s].next \in {base[s].next, id}
  <2>1. base \in [Id -> Row] BY <1>2
  <2>2. linked = [base EXCEPT ![old] = [base[old] EXCEPT !.revoked = now[r], !.next = id]]
    BY <1>2, <1>3 DEF Replace
  <2>3. [base[old] EXCEPT !.revoked = now[r], !.next = id] \in Row
    BY <1>2, <1>3, <1>4, TimeFacts DEF Row
  <2> HIDE DEF linked
  <2>4. linked \in [Id -> Row] BY <2>1, <2>2, <2>3
  <2>5. \A s \in Id : linked[s] \in {base[s], [base[s] EXCEPT !.revoked = now[r], !.next = id]}
    BY <2>1, <2>2
  <2>6. ASSUME NEW s \in Id
        PROVE  /\ linked[s].issued = base[s].issued
               /\ linked[s].there = base[s].there
               /\ linked[s].next \in {base[s].next, id}
    <3>1. CASE linked[s] = base[s] BY <3>1
    <3>2. CASE linked[s] = [base[s] EXCEPT !.revoked = now[r], !.next = id]
      <4>1. base[s] \in Row BY <1>2
      <4> QED BY <3>2, <4>1 DEF Row
    <3> QED BY <2>5, <3>1, <3>2
  <2> QED BY <2>4, <2>6
<1> HIDE DEF linked
<1>8. linked \in Seq(Row) /\ Len(linked) = Len(sessions) /\ DOMAIN linked = Id
  BY <1>2, <1>7, InPlace
<1>9. /\ Id' = Id \cup {id} /\ sessions'[id] = new
      /\ \A s \in Id : sessions'[s] = linked[s]
  BY <1>1, <1>6, <1>8, AppendRow DEF Id, id
<1> QED BY <1>2, <1>6, <1>7, <1>9 DEF RowAdded, id

LEMMA RowChanges ==
  ASSUME IInv, [Next]_vars
  PROVE  /\ RowsStay \/ (\E id \in Nat : RowAdded(id)) \/ \E r \in Request : DeleteStale(r)
         /\ clock \in Int /\ clock' \in Int /\ clock' >= clock
<1> DEFINE Goal == \/ RowsStay \/ (\E id \in Nat : RowAdded(id))
                   \/ \E r \in Request : DeleteStale(r)
<1>1. ASSUME NEW r \in Request, RequestStep(r)
      PROVE  clock' = clock /\ Goal
  <2>1. CASE \/ \E s \in todo[r] : LockNext(r, s)
             \/ Count(r) \/ FindSession(r) \/ LockSession(r) \/ LockUser(r) \/ Reuse(r)
             \/ FindToRevoke(r) \/ MarkSessions(r) \/ Unlink(r) \/ SelectStale(r)
    <3>1. clock' = clock /\ sessions' = sessions
      BY <2>1 DEF LockNext, Count, FindSession, LockSession, LockUser, Reuse, FindToRevoke,
                  MarkSessions, Unlink, SelectStale, table
    <3> QED BY <3>1 DEF RowsStay, Id
  <2>2. CASE \/ Refuse(r) \/ NothingToRevoke(r) \/ RowGone(r) \/ DeadlockVictim(r)
             \/ Reactivate(r) \/ \E s \in seen[r] : AnswerReplacement(r, s)
    <3>1. clock' = clock /\ sessions' = sessions
      BY <2>2 DEF Refuse, NothingToRevoke, RowGone, DeadlockVictim, Reactivate,
                  AnswerReplacement, End, table
    <3> QED BY <3>1 DEF RowsStay, Id
  <2>3. CASE RevokeSession(r)
    <3>1. now[r] \in Time BY DEF IInv, TypeOK
    <3>2. sessions' = Revoke(sessions, {token[r]}, now[r]) /\ clock' = clock
      BY <2>3 DEF RevokeSession, End
    <3> QED BY <3>1, <3>2, RevokeStays
  <2>4. CASE Deactivate(r)
    <3>1. mark[r] \in Time BY DEF IInv, TypeOK
    <3>2. sessions' = Revoke(sessions, RevokedWithUser(r), mark[r]) /\ clock' = clock
      BY <2>4 DEF Deactivate, End
    <3> QED BY <3>1, <3>2, RevokeStays
  <2>5. CASE Rotate(r) \/ \E t \in mark[r] .. clock : Login(r, t)
    <3>1. Len(sessions) + 1 \in Nat BY IdFacts DEF IInv
    <3>2. RowAdded(Len(sessions) + 1) BY <2>5, LoginAdds, RotateAdds
    <3>3. clock' = clock BY <2>5 DEF Rotate, Login, End
    <3> QED BY <3>1, <3>2, <3>3
  <2>6. CASE DeleteStale(r) BY <2>6 DEF DeleteStale, End
  <2> QED BY <1>1, <2>1, <2>2, <2>3, <2>4, <2>5, <2>6 DEF RequestStep
<1>2. ASSUME \/ Tick \/ UNCHANGED vars \/ \E r \in Request : Fail(r)
             \/ \E r \in Request, k \in Kind, t \in Id \cup {None} : Ask(r, k, t)
      PROVE  Goal /\ (clock' = clock \/ clock' = clock + 1)
  <2>1. sessions' = sessions /\ (clock' = clock \/ clock' = clock + 1)
    BY <1>2 DEF Tick, vars, Fail, End, Ask, table
  <2>2. Goal BY <2>1 DEF RowsStay, Id
  <2> HIDE DEF Goal
  <2>3. Goal /\ (clock' = clock \/ clock' = clock + 1) BY <2>1, <2>2
  <2> QED BY <2>3
<1>3. clock \in Int BY DEF IInv, TypeOK, Time
<1> HIDE DEF Goal
<1>4. Goal /\ (clock' = clock \/ clock' = clock + 1) BY <1>1, <1>2 DEF Next
<1> QED BY <1>3, <1>4 DEF Goal

\* What a step may do to the clean-up of request q.
LEMMA CleanSteps ==
  ASSUME IInv, [Next]_vars, NEW q \in Request, Erasing(q)
  PROVE  \/ Unlink(q) \/ SelectStale(q) \/ DeleteStale(q)
         \/ /\ step'[q] = step[q] /\ kind'[q] = kind[q] /\ now'[q] = now[q]
            /\ Taken(q)' = Taken(q)
            /\ step[q] \in {"idle", "unlink"} => held'[q] = held[q]
         \/ step'[q] \in {"idle", "unlink"} /\ held'[q] = {}
         \/ step'[q] \notin {"idle", "unlink", "erase"} /\ kind'[q] # "clean"
<1> DEFINE Stays == /\ step'[q] = step[q] /\ kind'[q] = kind[q] /\ now'[q] = now[q]
                    /\ Taken(q)' = Taken(q)
                    /\ step[q] \in {"idle", "unlink"} => held'[q] = held[q]
           Ends == step'[q] \in {"idle", "unlink"} /\ held'[q] = {}
           Other == step'[q] \notin {"idle", "unlink", "erase"} /\ kind'[q] # "clean"
<1> USE DEF IInv, TypeOK
<1>1. ASSUME Tick \/ UNCHANGED vars PROVE Stays
  <2>1. UNCHANGED <<step, kind, now, held, todo>>
    BY <1>1 DEF Tick, vars, locks, reads, request
  <2> QED BY <2>1 DEF Taken
<1>2. ASSUME NEW r \in Request, Refuse(r) \/ NothingToRevoke(r) \/ RowGone(r) \/ DeadlockVictim(r)
               \/ Reactivate(r) \/ RevokeSession(r) \/ Deactivate(r) \/ Rotate(r) \/ Fail(r)
               \/ DeleteStale(r)
               \/ (\E s \in seen[r] : AnswerReplacement(r, s))
               \/ (\E t \in mark[r] .. clock : Login(r, t))
      PROVE  Stays \/ Ends
  <2>1. End(r)
    BY <1>2 DEF Refuse, NothingToRevoke, RowGone, DeadlockVictim, Reactivate, RevokeSession,
                Deactivate, Rotate, Fail, DeleteStale, AnswerReplacement, Login
  <2>2. CASE q = r BY <2>1, <2>2 DEF End, Goto
  <2>3. CASE q # r BY <2>1, <2>3 DEF End, Goto, Taken
  <2> QED BY <2>2, <2>3
<1>3. ASSUME NEW r \in Request, NEW k \in Kind, NEW t \in Id \cup {None}, Ask(r, k, t)
      PROVE  Stays \/ Ends \/ Other
  <2>1. CASE q = r
    <3>1. held'[q] = {} BY <1>3, <2>1 DEF Ask, Erasing, locks
    <3>2. step'[q] = "unlink" \/ Other BY <1>3, <2>1 DEF Ask, Goto, Kind
    <3> QED BY <3>1, <3>2
  <2>2. CASE q # r
    BY <1>3, <2>2 DEF Ask, Goto, locks, Taken
  <2> QED BY <2>1, <2>2
<1>4. ASSUME NEW r \in Request, NEW s \in todo[r], LockNext(r, s)
      PROVE  Stays
  <2>1. UNCHANGED <<step, kind, now>> BY <1>4 DEF LockNext, reads, request
  <2>2. CASE q = r BY <1>4, <2>1, <2>2 DEF LockNext, Taken
  <2>3. CASE q # r BY <1>4, <2>1, <2>3 DEF LockNext, Taken
  <2> QED BY <2>2, <2>3
<1>5. ASSUME NEW r \in Request,
             \/ Count(r) \/ FindSession(r) \/ LockSession(r) \/ LockUser(r) \/ Reuse(r)
             \/ FindToRevoke(r) \/ MarkSessions(r) \/ Unlink(r) \/ SelectStale(r)
      PROVE  Stays \/ Other \/ Unlink(q) \/ SelectStale(q)
  <2>1. CASE q = r /\ ~Unlink(r) /\ ~SelectStale(r)
    <3>1. kind[q] # "clean"
      BY <1>5, <2>1 DEF Shape, Makers, Count, FindSession, LockSession, LockUser, Reuse,
                        FindToRevoke, MarkSessions
    <3>2. kind' = kind /\ step'[q] \notin {"idle", "unlink", "erase"}
      BY <1>5, <2>1 DEF Count, FindSession, LockSession, LockUser, Reuse,
                        FindToRevoke, MarkSessions, Snapshot, Goto, request
    <3> QED BY <3>1, <3>2
  <2>2. CASE q # r
    BY <1>5, <2>2 DEF Count, FindSession, LockSession, LockUser, Reuse, FindToRevoke,
                      MarkSessions, Unlink, SelectStale, Snapshot, Goto, locks, reads,
                      request, Taken
  <2> QED BY <1>5, <2>1, <2>2
<1> HIDE DEF Stays, Ends, Other
<1>6. \/ Unlink(q) \/ SelectStale(q) \/ DeleteStale(q) \/ Ends \/ Other
      \/ /\ step'[q] = step[q] /\ kind'[q] = kind[q] /\ now'[q] = now[q]
         /\ Taken(q)' = Taken(q)
         /\ step[q] \in {"idle", "unlink"} => held'[q] = held[q]
  <2>1. Stays \/ Ends \/ Other \/ Unlink(q) \/ SelectStale(q)
    BY <1>1, <1>2, <1>3, <1>4, <1>5 DEF Next, RequestStep
  <2> QED BY <2>1 DEF Stays
<1> QED BY <1>6 DEF Ends, Other

\* Facts about rows, in arithmetic's terms.
LEMMA RowNumbers ==
  ASSUME IInv
  PROVE  /\ \A s \in Id : /\ s \in Int /\ sessions[s].issued \in Int
                          /\ sessions[s].there \in BOOLEAN
         /\ \A r \in Request : now[r] \in Int /\ now[r] - Retention \in Int
         /\ \A s \in Id : sessions[s].next # None => sessions[s].revoked # Never
<1>1. \A s \in Id : sessions[s] \in Row /\ s \in Int BY IdFacts DEF IInv
<1>2. \A r \in Request : now[r] \in Int BY DEF IInv, TypeOK, Time
<1>3. \A s \in Id : sessions[s].next # None => sessions[s].revoked # Never
  BY DEF IInv, Answered
<1> QED BY <1>1, <1>2, <1>3, ConstantsOK DEF Row, Time

\* Whoever is replaced by an old session is older, and stale if still there.
LEMMA OlderIsStale ==
  ASSUME IInv, Linked, NEW r \in Request, NEW s \in Id, sessions[s].there,
         sessions[s].next \in Id, Old(sessions[s].next, now[r])
  PROVE  s \in Stale(now[r]) /\ Old(s, now[r])
<1>1. sessions[s].next # None BY IdFacts DEF IInv
<1>2. sessions[s].issued <= sessions[sessions[s].next].issued BY <1>1 DEF Linked
<1>3. Old(s, now[r]) BY <1>2, RowNumbers DEF Old
<1> QED BY <1>1, <1>3, RowNumbers DEF Stale, Old

LEMMA NextErasing ==
  ASSUME IInv, Linked, [Next]_vars, NEW q \in Request, Erasing(q)
  PROVE  Erasing(q)'
<1>1. Taken(q) \subseteq Id /\ None \notin Id BY IdFacts DEF IInv, TypeOK, Taken
<1>2. ASSUME step'[q] = "erase", step[q] = "erase", Taken(q)' = Taken(q),
             NEW s \in Id', sessions'[s].there, sessions'[s].next \in Taken(q)
      PROVE  s \in Taken(q)
  <2>1. CASE RowsStay BY <1>2, <2>1 DEF RowsStay, Erasing
  <2>2. ASSUME NEW id \in Nat, RowAdded(id) PROVE s \in Taken(q)
    <3>1. id \notin Id BY <2>2, IdFacts DEF RowAdded, IInv
    <3> QED BY <1>1, <1>2, <2>2, <3>1 DEF RowAdded, Erasing
  <2>3. ASSUME NEW r \in Request, DeleteStale(r) PROVE s \in Taken(q)
    <3>1. /\ s \in Id
          /\ sessions'[s].there => sessions[s].there
          /\ sessions'[s].next \in {sessions[s].next, None}
      <4>1. \A u \in Id : sessions[u] \in Row BY IdFacts DEF IInv
      <4> QED BY <1>2, <2>3, <4>1 DEF DeleteStale, Row, Id
    <3> QED BY <1>1, <1>2, <3>1 DEF Erasing
  <2> QED BY <2>1, <2>2, <2>3, RowChanges
<1>3. \A s \in Id : s \in Id' /\ sessions'[s].issued = sessions[s].issued
  <2>1. ASSUME NEW r \in Request, DeleteStale(r), NEW s \in Id
        PROVE  s \in Id' /\ sessions'[s].issued = sessions[s].issued
    <3>1. sessions[s] \in Row BY IdFacts DEF IInv
    <3> QED BY <2>1, <3>1 DEF DeleteStale, Row, Id
  <2> QED BY <2>1, RowChanges DEF RowsStay, RowAdded
<1>4. CASE Unlink(q)
  <2>1. /\ kind[q] = "clean" /\ step[q] = "unlink" /\ step'[q] = "lock"
        /\ held'[q] = {} /\ now' = now
        /\ todo'[q] = {s \in Id : sessions[s].there /\ sessions[s].next \in Stale(now[q])}
    BY <1>4 DEF Unlink, Snapshot, Goto, Erasing, IInv, TypeOK, Shape
  <2>2. \A s \in todo'[q] : Old(s, now[q])
    BY <2>1, OlderIsStale DEF Stale, Old
  <2> QED BY <1>1, <1>3, <2>1, <2>2 DEF Erasing, Taken, Old
<1>5. CASE SelectStale(q)
  <2>1. /\ kind[q] = "clean" /\ kind' = kind /\ step[q] = "lock" /\ step'[q] = "erase"
        /\ held'[q] = held[q] /\ now' = now /\ sessions' = sessions /\ Id' = Id
        /\ todo'[q] = Stale(now[q])
    BY <1>5 DEF SelectStale, Snapshot, Goto, IInv, TypeOK, table, request, Id
  <2>2. \A s \in Taken(q)' : s \in Id /\ Old(s, now[q])
    BY <1>1, <2>1 DEF Erasing, Taken, Stale, Old
  <2>3. \A s \in Id : sessions[s].there /\ sessions[s].next \in Taken(q)' => s \in Taken(q)'
    BY <2>1, <2>2, OlderIsStale DEF Taken
  <2> QED BY <2>1, <2>2, <2>3 DEF Erasing, Old
<1>6. CASE DeleteStale(q)
  BY <1>6 DEF DeleteStale, End, Goto, Erasing, IInv, TypeOK
<1>7. CASE /\ step'[q] = step[q] /\ kind'[q] = kind[q] /\ now'[q] = now[q]
           /\ Taken(q)' = Taken(q)
           /\ step[q] \in {"idle", "unlink"} => held'[q] = held[q]
  <2>1. \A s \in Taken(q) : Old(s, now[q]) => Old(s, now[q])'
    BY <1>1, <1>3, <1>7 DEF Old
  <2> QED BY <1>2, <1>7, <2>1 DEF Erasing
<1>8. CASE step'[q] \in {"idle", "unlink"} /\ held'[q] = {} BY <1>8 DEF Erasing
<1>9. CASE step'[q] \notin {"idle", "unlink", "erase"} /\ kind'[q] # "clean"
  BY <1>9 DEF Erasing
<1> QED BY <1>4, <1>5, <1>6, <1>7, <1>8, <1>9, CleanSteps

LEMMA NextLinked ==
  ASSUME IInv, Linked, \A r \in Request : Erasing(r), [Next]_vars
  PROVE  Linked'
<1>1. clock \in Int /\ clock' \in Int /\ clock' >= clock BY RowChanges
<1>2. CASE RowsStay
  BY <1>1, <1>2, RowNumbers DEF RowsStay, Linked, ReplacementsExist
<1>3. ASSUME NEW id \in Nat, RowAdded(id) PROVE Linked'
  <2>1. id \notin Id /\ \A s \in Id : s < id BY <1>3, IdFacts DEF RowAdded, IInv
  <2>2. \A s \in Id' : sessions'[s].issued <= clock'
    BY <1>1, <1>3, RowNumbers DEF RowAdded, Linked
  <2>3. \A s, u \in Id' : s < u => sessions'[s].issued <= sessions'[u].issued
    BY <1>1, <1>3, <2>1, RowNumbers DEF RowAdded, Linked
  <2>4. \A s \in Id' : sessions'[s].next # None => sessions'[s].next \in Id' /\ s < sessions'[s].next
    BY <1>3, <2>1 DEF RowAdded, Linked
  <2>5. ReplacementsExist'
    BY <1>3, <2>1 DEF RowAdded, Linked, ReplacementsExist
  <2> QED BY <2>2, <2>3, <2>4, <2>5 DEF Linked
<1>4. ASSUME NEW r \in Request, DeleteStale(r) PROVE Linked'
  <2> DEFINE gone == held[r] \cap Stale(now[r])
  <2>1. /\ step[r] = "erase" /\ kind[r] = "clean" /\ Taken(r) = held[r] /\ Id' = Id
    BY <1>4 DEF DeleteStale, Taken, IInv, Shape, Id
  <2>2. \A s \in Id : /\ sessions'[s].issued = sessions[s].issued
                      /\ sessions'[s].next \in {sessions[s].next, None}
                      /\ sessions'[s].there <=> sessions[s].there /\ s \notin gone
    <3>1. \A u \in Id : sessions[u] \in Row BY IdFacts DEF IInv
    <3> QED BY <1>4, <3>1 DEF DeleteStale, Row
  <2>3. ASSUME NEW s \in Id, sessions'[s].there, sessions'[s].next # None
        PROVE  sessions'[sessions'[s].next].there
    <3>1. /\ sessions[s].there /\ s \notin gone /\ sessions[s].next # None
          /\ sessions'[s].next = sessions[s].next
      BY <2>2, <2>3
    <3>2. sessions[s].next \in Id /\ sessions[sessions[s].next].there
      BY <3>1 DEF Linked, ReplacementsExist
    <3>3. sessions[s].next \notin gone
      <4> SUFFICES ASSUME sessions[s].next \in held[r] PROVE FALSE OBVIOUS
      <4>1. s \in held[r] /\ Old(sessions[s].next, now[r])
        BY <2>1, <3>1 DEF Erasing
      <4>2. s \in Stale(now[r]) BY <3>1, <3>2, <4>1, OlderIsStale
      <4> QED BY <3>1, <4>1, <4>2
    <3> QED BY <2>2, <3>1, <3>2, <3>3
  <2> HIDE DEF gone
  <2> QED BY <1>1, <2>1, <2>2, <2>3, RowNumbers DEF Linked, ReplacementsExist
<1> QED BY <1>2, <1>3, <1>4, RowChanges

\* delete_stale_sessions never deletes a session that another row still names
\* as its replacement, whatever rotates or logs out between its statements.
THEOREM CleanUpKeepsReplacements == Spec => []ReplacementsExist
<1> DEFINE Inv == Linked /\ \A r \in Request : Erasing(r)
<1>1. Init => Inv
  BY DEF Init, Linked, ReplacementsExist, Erasing, Id
<1>2. IInv /\ Inv /\ [Next]_vars => Inv' BY NextLinked, NextErasing
<1>3. Inv => ReplacementsExist BY DEF Linked
<1> QED BY <1>1, <1>2, <1>3, Invariance, PTL DEF Spec

-----------------------------------------------------------------------------
(* The limit of active sessions.                                           *)

LiveNow == {s \in Id : Live(s, clock)}

Counting == {r \in Request : step[r] = "lock" /\ kind[r] \in Makers}
Found(r) == todo[r] \cup held[r]
Spared(r) == LiveNow \cap (Found(r) \ {token[r]})
Missed(r) == LiveNow \ (Found(r) \cup {token[r]})
UpToLimit(n) == IF n < MaxActive THEN n ELSE MaxActive - 1

\* What r leaves beside its own session if it commits now: of the sessions it
\* found as many as the limit lets be, and those it did not find.
LeftBy(r) == UpToLimit(Cardinality(Spared(r))) + Cardinality(Missed(r))

\* Those that leave more than all but m of the requests can account for.
Top == MaxActive + Cardinality(Request) - 2
Behind(m) == {r \in Counting : LeftBy(r) > Top - m}

\* At most m requests are that far behind: a commit puts each of the others
\* one session further behind, but none behind itself.
LimitInv ==
  /\ \A r \in Request : mark[r] <= clock
  /\ \A r \in Request : kind[r] = "login" => token[r] = None
  /\ \A m \in Nat : Cardinality(Behind(m)) <= m
  /\ LimitBound

LEMMA Smallest ==
  ASSUME NEW S \in SUBSET Nat, S # {}
  PROVE  \E x \in S : \A y \in S : x <= y
<1> DEFINE Below(n) == 0 .. n
           family == {Below(n) : n \in S}
<1>1. \A n \in S : IsFiniteSet(Below(n)) /\ Below(n) \subseteq Nat BY FS_Interval
<1>2. family \subseteq FiniteSubsetsOf(Nat) /\ family # {} BY <1>1 DEF FiniteSubsetsOf
<1>3. PICK F \in family : \A G \in family : <<G, F>> \notin StrictSubsetOrdering(Nat)
  BY <1>2, FS_StrictSubsetOrderingWellFounded, WFMin
<1>4. PICK x \in S : F = Below(x) OBVIOUS
<1>5. ASSUME NEW y \in S, y < x PROVE FALSE
  <2>1. Below(y) \subseteq Below(x) /\ x \in Below(x) /\ x \notin Below(y) BY <1>5
  <2>2. <<Below(y), Below(x)>> \in StrictSubsetOrdering(Nat)
    BY <1>1, <2>1 DEF StrictSubsetOrdering
  <2> QED BY <1>3, <1>4, <2>2
<1> QED BY <1>5

\* The elements with at least |A| - k smaller ones are k at most.
LEMMA Newest ==
  ASSUME NEW A \in SUBSET Nat, IsFiniteSet(A), NEW k \in Nat,
         NEW B \in SUBSET A,
         \A s \in B : Cardinality({u \in A : u < s}) >= Cardinality(A) - k
  PROVE  Cardinality(B) <= k
<1>1. CASE B = {} BY <1>1, FS_EmptySet
<1>2. CASE B # {}
  <2>1. PICK x \in B : \A y \in B : x <= y BY <1>2, Smallest
  <2> DEFINE below == {u \in A : u < x}
  <2>2. below \in SUBSET A /\ B \in SUBSET (A \ below) BY <2>1
  <2>3. IsFiniteSet(below) /\ IsFiniteSet(A \ below) BY <2>2, FS_Subset
  <2>4. /\ Cardinality(A) \in Nat /\ Cardinality(below) \in Nat
        /\ Cardinality(A \ below) \in Nat /\ Cardinality(B) \in Nat
    BY <2>2, <2>3, FS_CardinalityType, FS_Subset
  <2>5. Cardinality(A) = Cardinality(below) + Cardinality(A \ below)
    <3>1. below \cup (A \ below) = A /\ below \cap (A \ below) = {} BY <2>2
    <3>2. Cardinality(below \cap (A \ below)) = 0 BY <3>1, FS_EmptySet
    <3> HIDE DEF below
    <3>3. Cardinality(below \cup (A \ below)) =
            Cardinality(below) + Cardinality(A \ below) - Cardinality(below \cap (A \ below))
      BY <2>3, FS_Union
    <3> QED BY <2>4, <3>1, <3>2, <3>3
  <2>6. Cardinality(B) <= Cardinality(A \ below) BY <2>2, <2>3, FS_Subset
  <2>7. Cardinality(below) >= Cardinality(A) - k BY <2>1
  <2> HIDE DEF below
  <2> QED BY <2>4, <2>5, <2>6, <2>7
<1> QED BY <1>1, <1>2

\* All sets here are finite.
LEMMA LimitSets ==
  ASSUME IInv, NEW r \in Request
  PROVE  /\ Id \subseteq Nat /\ IsFiniteSet(Id) /\ IsFiniteSet(LiveNow)
         /\ IsFiniteSet(Spared(r)) /\ IsFiniteSet(Missed(r))
         /\ Cardinality(LiveNow) \in Nat
         /\ Cardinality(Spared(r)) \in Nat /\ Cardinality(Missed(r)) \in Nat
         /\ LeftBy(r) \in Nat
<1>1. Id = 1 .. Len(sessions) /\ Len(sessions) \in Nat BY IdFacts DEF IInv
<1>2. Id \subseteq Nat /\ IsFiniteSet(Id) BY <1>1, FS_Interval
<1>3. /\ LiveNow \in SUBSET Id /\ Spared(r) \in SUBSET Id /\ Missed(r) \in SUBSET Id
  BY DEF LiveNow, Spared, Missed
<1>4. IsFiniteSet(LiveNow) /\ IsFiniteSet(Spared(r)) /\ IsFiniteSet(Missed(r))
  BY <1>2, <1>3, FS_Subset
<1>5. /\ Cardinality(LiveNow) \in Nat
      /\ Cardinality(Spared(r)) \in Nat /\ Cardinality(Missed(r)) \in Nat
  BY <1>4, FS_CardinalityType
<1>6. LeftBy(r) \in Nat
  <2> DEFINE a == Cardinality(Spared(r))
             b == Cardinality(Missed(r))
  <2>1. LeftBy(r) = UpToLimit(a) + b BY DEF LeftBy
  <2> HIDE DEF a, b
  <2>2. a \in Nat /\ b \in Nat BY <1>5 DEF a, b
  <2> QED BY <2>1, <2>2, ConstantsOK DEF UpToLimit
<1> QED BY <1>2, <1>4, <1>5, <1>6

LEMMA LeftByNat == (IInv => \A r \in Request : LeftBy(r) \in Nat)'
<1>1. IInv => \A r \in Request : LeftBy(r) \in Nat BY LimitSets
<1> QED BY <1>1, PTL

LEMMA UpToLimitGrows ==
  ASSUME NEW a \in Nat, NEW b \in Nat, NEW n \in Nat,
         NEW c \in Nat, NEW d \in Nat, c <= a, d <= b + n
  PROVE  UpToLimit(c) + d <= UpToLimit(a) + b + n
BY ConstantsOK DEF UpToLimit

\* A request that finds less to leave leaves less.
LEMMA LeavesLess ==
  ASSUME IInv, IInv', NEW r \in Request, NEW n \in Nat,
         Cardinality(Spared(r))' <= Cardinality(Spared(r)),
         Cardinality(Missed(r))' <= Cardinality(Missed(r)) + n
  PROVE  LeftBy(r)' <= LeftBy(r) + n
<1>1. Cardinality(Spared(r)) \in Nat /\ Cardinality(Missed(r)) \in Nat BY LimitSets
<1>2. Cardinality(Spared(r))' \in Nat /\ Cardinality(Missed(r))' \in Nat
  <2>1. (IInv => Cardinality(Spared(r)) \in Nat /\ Cardinality(Missed(r)) \in Nat)'
    BY LimitSets, PTL
  <2> QED BY <2>1
<1>3. LeftBy(r)' = UpToLimit(Cardinality(Spared(r))') + Cardinality(Missed(r))'
  BY DEF LeftBy, UpToLimit
<1> QED BY <1>1, <1>2, <1>3, UpToLimitGrows DEF LeftBy

\* No step brings a session to life but the commit that adds it.
LEMMA RevokeNoneLives ==
  ASSUME IInv, NEW S, NEW t \in Time
  PROVE  \A s \in Id : /\ Revoke(sessions, S, t)[s].there = sessions[s].there
                       /\ Revoke(sessions, S, t)[s].expires = sessions[s].expires
                       /\ s \in S => Revoke(sessions, S, t)[s].revoked = t
                       /\ s \notin S => Revoke(sessions, S, t)[s].revoked = sessions[s].revoked
<1>1. \A s \in Id : sessions[s] \in Row BY IdFacts DEF IInv
<1>2. \A s \in Id : Revoke(sessions, S, t)[s] =
                      IF s \in S THEN [sessions[s] EXCEPT !.revoked = t] ELSE sessions[s]
  BY DEF Revoke, Id
<1> QED BY <1>1, <1>2 DEF Row

LEMMA CommitLives ==
  ASSUME IInv, NEW r \in Request,
         Rotate(r) \/ \E t \in mark[r] .. clock : Login(r, t)
  PROVE  /\ Id' = Id \cup {Len(sessions) + 1} /\ clock' = clock
         /\ \A s \in Id : Live(s, clock)' =>
              Live(s, clock) /\ s \notin Excess(r) /\ (kind[r] = "refresh" => s # token[r])
<1> DEFINE base == Revoke(sessions, Excess(r), mark[r])
           id == Len(sessions) + 1
<1>1. mark[r] \in Time /\ now[r] \in Time /\ Never \notin Time BY TimeFacts DEF IInv, TypeOK
<1>2. DOMAIN base = Id /\ base \in Seq(Row) /\ Len(base) = Len(sessions)
  BY LimitRows DEF Id
<1>3. \A s \in Id : /\ base[s] \in Row
                    /\ base[s].there = sessions[s].there
                    /\ base[s].expires = sessions[s].expires
                    /\ s \in Excess(r) => base[s].revoked = mark[r]
                    /\ s \notin Excess(r) => base[s].revoked = sessions[s].revoked
  BY <1>1, LimitRows, RevokeNoneLives
<1> DEFINE AsBase(rows, s) ==
             /\ rows[s].there = base[s].there
             /\ rows[s].expires = base[s].expires
             /\ rows[s].revoked \in {base[s].revoked, now[r]}
             /\ s = token[r] /\ kind[r] = "refresh" => rows[s].revoked = now[r]
<1>4. Id' = Id \cup {id} /\ clock' = clock /\ \A s \in Id : AsBase(sessions', s)
  <2>1. CASE Rotate(r)
    <3> DEFINE linked == Replace(base, token[r], id, now[r])
               new == NewSession(r, sessions[token[r]].origin, now[r],
                                 met[r] \/ sessions[token[r]].met)
    <3>1. sessions' = Append(linked, new) /\ clock' = clock BY <2>1 DEF Rotate, End
    <3> HIDE DEF new, base
    <3>2. /\ DOMAIN linked = Id /\ linked \in Seq({linked[s] : s \in Id})
          /\ Len(linked) = Len(sessions)
      <4>1. linked \in [1 .. Len(sessions) -> {linked[s] : s \in Id}] /\ Id = 1 .. Len(sessions)
              /\ Len(sessions) \in Nat
        BY <1>2, IdFacts DEF IInv, Replace
      <4> QED BY <4>1
    <3>3. Id' = Id \cup {id} /\ \A s \in Id : sessions'[s] = linked[s]
      BY <3>1, <3>2 DEF Id
    <3>4. token[r] \in Id BY <2>1 DEF Rotate, IInv, Shape
    <3>5. ASSUME NEW s \in Id PROVE AsBase(linked, s)
      <4>1. CASE s # token[r] BY <1>2, <3>4, <4>1 DEF Replace
      <4>2. CASE s = token[r]
        <5>1. linked[s] = [base[s] EXCEPT !.revoked = now[r], !.next = id]
          BY <1>2, <3>4, <4>2 DEF Replace
        <5>2. base[s] \in Row BY <1>3
        <5> QED BY <5>1, <5>2 DEF Row
      <4> QED BY <4>1, <4>2
    <3> QED BY <3>1, <3>3, <3>5
  <2>2. ASSUME NEW t \in mark[r] .. clock, Login(r, t)
        PROVE  Id' = Id \cup {id} /\ clock' = clock /\ \A s \in Id : AsBase(sessions', s)
    <3> DEFINE new == NewSession(r, id, t, met[r])
    <3>1. sessions' = Append(base, new) /\ clock' = clock /\ kind[r] = "login"
      BY <2>2 DEF Login, End
    <3> HIDE DEF new, base
    <3>2. Id' = Id \cup {id} /\ \A s \in Id : sessions'[s] = base[s]
      BY <1>2, <3>1 DEF Id
    <3> QED BY <3>1, <3>2
  <2> HIDE DEF AsBase, base
  <2> QED BY <2>1, <2>2
<1> HIDE DEF base
<1> QED BY <1>1, <1>3, <1>4 DEF Live, Unrevoked

Commits(r) == Rotate(r) \/ \E t \in mark[r] .. clock : Login(r, t)

LEMMA OthersLive ==
  ASSUME IInv, [Next]_vars, \A r \in Request : ~Commits(r)
  PROVE  Id' = Id /\ LiveNow' \subseteq LiveNow
<1> DEFINE Same == /\ Id' = Id
                   /\ \A s \in Id : /\ sessions'[s].there => sessions[s].there
                                    /\ sessions'[s].expires = sessions[s].expires
                                    /\ sessions[s].revoked # Never => sessions'[s].revoked # Never
<1>1. clock \in Int /\ clock' \in Int /\ clock' >= clock BY RowChanges
<1>2. \A s \in Id : sessions[s] \in Row /\ sessions[s].expires \in Int
  BY IdFacts, ConstantsOK DEF IInv, Row
<1>3. ASSUME sessions' = sessions PROVE Same BY <1>3 DEF Id
<1>4. ASSUME NEW S, NEW t \in Time, sessions' = Revoke(sessions, S, t) PROVE Same
  <2>1. Id' = Id BY <1>4 DEF Revoke, Id
  <2> QED BY <1>4, <2>1, RevokeNoneLives, TimeFacts
<1>5. ASSUME NEW r \in Request, RequestStep(r) PROVE Same
  <2>1. mark[r] \in Time /\ now[r] \in Time BY DEF IInv, TypeOK
  <2>2. CASE RevokeSession(r) BY <1>4, <2>1, <2>2 DEF RevokeSession
  <2>3. CASE Deactivate(r) BY <1>4, <2>1, <2>3 DEF Deactivate
  <2>4. CASE DeleteStale(r)
    BY <1>2, <2>4 DEF DeleteStale, Id, Row
  <2> HIDE DEF Same
  <2>5. CASE ~RevokeSession(r) /\ ~Deactivate(r) /\ ~DeleteStale(r)
    <3>1. sessions' = sessions
      BY <1>5, <2>5 DEF RequestStep, Commits, LockNext, Count, FindSession, LockSession, LockUser,
           Reuse, AnswerReplacement, Refuse, FindToRevoke, NothingToRevoke, RowGone, MarkSessions,
           Reactivate, Unlink, SelectStale, DeadlockVictim, table
    <3> QED BY <1>3, <3>1
  <2> QED BY <2>2, <2>3, <2>4, <2>5
<1> HIDE DEF Same
<1>6. ASSUME \/ Tick \/ UNCHANGED vars \/ \E r \in Request : Fail(r)
             \/ \E r \in Request, k \in Kind, t \in Id \cup {None} : Ask(r, k, t)
      PROVE  Same
  BY <1>3, <1>6 DEF Tick, vars, Fail, End, Ask, table
<1>7. Same BY <1>5, <1>6 DEF Next
<1> QED BY <1>1, <1>2, <1>7 DEF Same, LiveNow, Live, Unrevoked

\* A request that counts has just begun to, or stays with what it found.
LEMMA Counts ==
  ASSUME IInv, [Next]_vars, NEW q \in Request, q \in Counting'
  PROVE  /\ ~Commits(q)
         /\ \/ Count(q) /\ Found(q)' = {s \in Id \ {token[q]} : Live(s, clock)} \cup held[q]
               /\ token'[q] = token[q] /\ sessions' = sessions /\ clock' = clock
            \/ q \in Counting /\ Found(q)' = Found(q) /\ token'[q] = token[q]
<1> DEFINE Stays == q \in Counting /\ Found(q)' = Found(q) /\ token'[q] = token[q]
<1> USE DEF IInv, TypeOK
<1>1. ASSUME NEW r \in Request, End(r) PROVE q # r /\ Stays
  BY <1>1 DEF End, Goto, Counting, Makers, Found
<1>2. ~Commits(q) BY <1>1 DEF Commits, Rotate, Login
<1>3. ASSUME NEW r \in Request, Refuse(r) \/ NothingToRevoke(r) \/ RowGone(r) \/ DeadlockVictim(r)
               \/ Reactivate(r) \/ RevokeSession(r) \/ Deactivate(r) \/ Rotate(r) \/ Fail(r)
               \/ DeleteStale(r)
               \/ (\E s \in seen[r] : AnswerReplacement(r, s))
               \/ (\E t \in mark[r] .. clock : Login(r, t))
      PROVE  Stays
  <2>1. End(r)
    BY <1>3 DEF Refuse, NothingToRevoke, RowGone, DeadlockVictim, Reactivate, RevokeSession,
                Deactivate, Rotate, Fail, DeleteStale, AnswerReplacement, Login
  <2> QED BY <1>1, <2>1
<1>4. ASSUME Tick \/ UNCHANGED vars PROVE Stays
  BY <1>4 DEF Tick, vars, locks, request, Counting, Found
<1>5. ASSUME NEW r \in Request, NEW k \in Kind, NEW t \in Id \cup {None}, Ask(r, k, t)
      PROVE  Stays
  <2>1. q # r BY <1>5 DEF Ask, Goto, Counting
  <2> QED BY <1>5, <2>1 DEF Ask, Goto, Counting, Found, locks
<1>6. ASSUME NEW r \in Request, NEW s \in todo[r], LockNext(r, s) PROVE Stays
  <2>1. CASE q = r BY <1>6, <2>1 DEF LockNext, Counting, Found, request
  <2>2. CASE q # r BY <1>6, <2>2 DEF LockNext, Counting, Found, request
  <2> QED BY <2>1, <2>2
<1>7. ASSUME NEW r \in Request, r # q,
             \/ Count(r) \/ FindSession(r) \/ LockSession(r) \/ LockUser(r) \/ Reuse(r)
             \/ FindToRevoke(r) \/ MarkSessions(r) \/ Unlink(r) \/ SelectStale(r)
      PROVE  Stays
  BY <1>7 DEF Count, FindSession, LockSession, LockUser, Reuse, FindToRevoke, MarkSessions,
              Unlink, SelectStale, Snapshot, Goto, locks, request, Counting, Found
<1>8. ~(\/ FindSession(q) \/ LockSession(q) \/ LockUser(q) \/ Reuse(q)
        \/ FindToRevoke(q) \/ MarkSessions(q) \/ Unlink(q) \/ SelectStale(q))
  BY DEF FindSession, LockSession, LockUser, Reuse, FindToRevoke, MarkSessions, Makers,
         Unlink, SelectStale, Snapshot, Goto, request, Counting, Shape
<1>9. ASSUME Count(q)
      PROVE  /\ Found(q)' = {s \in Id \ {token[q]} : Live(s, clock)} \cup held[q]
             /\ token'[q] = token[q] /\ sessions' = sessions /\ clock' = clock
  BY <1>9 DEF Count, Snapshot, Found, table, request
<1> HIDE DEF Stays
<1>10. Stays \/ Count(q)
  BY <1>3, <1>4, <1>5, <1>6, <1>7, <1>8 DEF Next, RequestStep
<1> QED BY <1>2, <1>9, <1>10 DEF Stays

LEMMA LimitMarks ==
  ASSUME IInv, [Next]_vars,
         \A r \in Request : mark[r] <= clock,
         \A r \in Request : kind[r] = "login" => token[r] = None
  PROVE  /\ \A r \in Request : mark'[r] <= clock'
         /\ \A r \in Request : kind'[r] = "login" => token'[r] = None
<1> DEFINE Marks == \A r \in Request : mark'[r] <= clock'
           Logins == \A r \in Request : kind'[r] = "login" => token'[r] = None
<1>1. /\ \A r \in Request : mark[r] \in Int
      /\ clock \in Nat /\ clock' \in Int /\ clock' >= clock
  BY RowChanges DEF IInv, TypeOK, Time
<1> USE DEF IInv, TypeOK
<1>2. ASSUME NEW r \in Request, End(r) PROVE Marks /\ Logins BY <1>1, <1>2 DEF End
<1>3. ASSUME NEW r \in Request, NEW k \in Kind, NEW t \in Id \cup {None}, Ask(r, k, t)
      PROVE  Marks /\ Logins
  BY <1>1, <1>3 DEF Ask
<1>4. ASSUME NEW r \in Request,
             \/ Count(r) \/ FindSession(r) \/ LockSession(r) \/ LockUser(r) \/ Reuse(r)
             \/ FindToRevoke(r) \/ MarkSessions(r) \/ Unlink(r) \/ SelectStale(r)
             \/ \E s \in todo[r] : LockNext(r, s)
      PROVE  Marks /\ Logins
  <2>1. kind' = kind /\ token' = token /\ clock' = clock
    BY <1>4 DEF Count, FindSession, LockSession, LockUser, Reuse, FindToRevoke, MarkSessions,
                Unlink, SelectStale, LockNext, request
  <2>2. mark' = mark \/ mark' = [mark EXCEPT ![r] = clock]
    BY <1>4 DEF Count, FindSession, LockSession, LockUser, Reuse, FindToRevoke, MarkSessions,
                Unlink, SelectStale, LockNext, Snapshot, reads
  <2> QED BY <1>1, <2>1, <2>2
<1>5. ASSUME Tick \/ UNCHANGED vars PROVE Marks /\ Logins
  BY <1>1, <1>5 DEF Tick, vars, reads, request
<1>6. ASSUME NEW r \in Request, Refuse(r) \/ NothingToRevoke(r) \/ RowGone(r) \/ DeadlockVictim(r)
               \/ Reactivate(r) \/ RevokeSession(r) \/ Deactivate(r) \/ Rotate(r) \/ Fail(r)
               \/ DeleteStale(r)
               \/ (\E s \in seen[r] : AnswerReplacement(r, s))
               \/ (\E t \in mark[r] .. clock : Login(r, t))
      PROVE  End(r)
  BY <1>6 DEF Refuse, NothingToRevoke, RowGone, DeadlockVictim, Reactivate, RevokeSession,
              Deactivate, Rotate, Fail, DeleteStale, AnswerReplacement, Login
<1> HIDE DEF Marks, Logins
<1>7. Marks /\ Logins BY <1>2, <1>3, <1>4, <1>5, <1>6 DEF Next, RequestStep
<1> QED BY <1>7 DEF Marks, Logins

LEMMA SizeWithin ==
  ASSUME NEW S, IsFiniteSet(S), NEW T, IsFiniteSet(T), NEW U \in SUBSET (S \cup T)
  PROVE  /\ IsFiniteSet(U)
         /\ Cardinality(U) \in Nat /\ Cardinality(S) \in Nat /\ Cardinality(T) \in Nat
         /\ Cardinality(U) <= Cardinality(S) + Cardinality(T)
<1>1. /\ IsFiniteSet(S \cup T) /\ IsFiniteSet(S \cap T)
      /\ Cardinality(S \cup T) = Cardinality(S) + Cardinality(T) - Cardinality(S \cap T)
  BY FS_Union, FS_Subset
<1>2. IsFiniteSet(U) /\ Cardinality(U) <= Cardinality(S \cup T) BY <1>1, FS_Subset
<1> QED BY <1>1, <1>2, FS_CardinalityType

\* One that commits leaves what it is charged with, and its own session.
LEMMA CommitLeaves ==
  ASSUME IInv, NEW j \in Request, Commits(j),
         mark[j] <= clock, kind[j] = "login" => token[j] = None
  PROVE  /\ IsFiniteSet(LiveNow') /\ Cardinality(LiveNow') \in Nat
         /\ Cardinality(LiveNow') <= LeftBy(j) + 1
<1> DEFINE active == {s \in held[j] \ {token[j]} : Live(s, mark[j])}
           left == Spared(j) \ Excess(j)
           id == Len(sessions) + 1
<1>1. /\ step[j] = "lock" /\ kind[j] \in Makers /\ todo[j] = {}
      /\ held[j] \in SUBSET Id
      /\ mark[j] \in Nat /\ clock \in Nat
  BY DEF Commits, Rotate, Login, Makers, IInv, TypeOK, Time
<1>2. /\ Id \subseteq Nat /\ IsFiniteSet(Id) /\ IsFiniteSet(LiveNow)
      /\ IsFiniteSet(Spared(j)) /\ IsFiniteSet(Missed(j))
      /\ Cardinality(Spared(j)) \in Nat /\ Cardinality(Missed(j)) \in Nat
  BY LimitSets
<1>3. active \in SUBSET Nat /\ IsFiniteSet(active)
  <2>1. active \in SUBSET Id BY <1>1
  <2> QED BY <1>2, <2>1, FS_Subset
<1>4. left \in SUBSET active
  <2>1. \A s \in Id : sessions[s].expires \in Int BY IdFacts, ConstantsOK DEF IInv, Row
  <2> QED BY <1>1, <2>1 DEF Spared, Found, LiveNow, Live
<1>5. ASSUME NEW s \in left
      PROVE  Cardinality({u \in active : u < s}) >= Cardinality(active) - (MaxActive - 1)
  <2>1. s \in active /\ s \notin Excess(j) BY <1>4
  <2>2. ~(Cardinality({u \in active : u < s}) < Cardinality(active) - MaxActive + 1)
    BY <2>1 DEF Excess, LeftAfter
  <2> DEFINE below == {u \in active : u < s}
  <2>3. Cardinality(below) \in Nat /\ Cardinality(active) \in Nat
    BY <1>3, FS_CardinalityType, FS_Subset
  <2> HIDE DEF below
  <2>4. ~(Cardinality(below) < Cardinality(active) - MaxActive + 1) BY <2>2 DEF below
  <2>5. Cardinality(below) >= Cardinality(active) - (MaxActive - 1)
    <3> HIDE DEF active
    <3> QED BY <2>3, <2>4, ConstantsOK
  <2> QED BY <2>5 DEF below
<1>6. Cardinality(left) <= MaxActive - 1
  <2>1. MaxActive - 1 \in Nat BY ConstantsOK
  <2> HIDE DEF active, left
  <2> QED BY <1>3, <1>4, <1>5, <2>1, Newest DEF active
<1>7. IsFiniteSet(left) /\ Cardinality(left) \in Nat /\ Cardinality(left) <= Cardinality(Spared(j))
  BY <1>2, FS_Subset, FS_CardinalityType
<1>8. LiveNow' \in SUBSET (left \cup (Missed(j) \cup {id}))
  <2>1. /\ Id' = Id \cup {id} /\ clock' = clock
        /\ \A s \in Id : Live(s, clock)' =>
             Live(s, clock) /\ s \notin Excess(j) /\ (kind[j] = "refresh" => s # token[j])
    BY CommitLives DEF Commits
  <2>2. \A s \in Id : Live(s, clock)' => s # token[j]
    <3>1. 0 \notin Id BY IdFacts DEF IInv
    <3> QED BY <1>1, <2>1, <3>1 DEF Makers, None
  <2> QED BY <2>1, <2>2 DEF LiveNow, Spared, Missed
<1> HIDE DEF left, active
<1>9. IsFiniteSet({id}) /\ Cardinality({id}) = 1 BY FS_Singleton
<1>10. /\ IsFiniteSet(Missed(j) \cup {id}) /\ Cardinality(Missed(j) \cup {id}) \in Nat
       /\ Cardinality(Missed(j) \cup {id}) <= Cardinality(Missed(j)) + 1
  BY <1>2, <1>9, SizeWithin
<1>11. /\ IsFiniteSet(LiveNow') /\ Cardinality(LiveNow') \in Nat
       /\ Cardinality(LiveNow') <= Cardinality(left) + Cardinality(Missed(j) \cup {id})
  BY <1>7, <1>8, <1>10, SizeWithin
<1>12. Cardinality(left) <= UpToLimit(Cardinality(Spared(j)))
  BY <1>2, <1>6, <1>7, ConstantsOK DEF UpToLimit
<1>13. UpToLimit(Cardinality(Spared(j))) \in Nat BY <1>2, ConstantsOK DEF UpToLimit
<1>14. LeftBy(j) = UpToLimit(Cardinality(Spared(j))) + Cardinality(Missed(j)) BY DEF LeftBy
<1> QED BY <1>2, <1>7, <1>10, <1>11, <1>12, <1>13, <1>14

\* The commit of j puts each other request one session further behind, and
\* none further than what is alive.
LEMMA CommitDelays ==
  ASSUME IInv, IInv', [Next]_vars, NEW j \in Request, Commits(j),
         mark[j] <= clock, kind[j] = "login" => token[j] = None,
         NEW i \in Request, i \in Counting'
  PROVE  i # j /\ i \in Counting /\ LeftBy(i)' <= LeftBy(i) + 1 /\ LeftBy(i)' <= LeftBy(j) + 1
<1> DEFINE id == Len(sessions) + 1
<1>1. /\ Id' = Id \cup {id} /\ id \notin Id /\ clock' = clock
      /\ \A s \in Id : Live(s, clock)' => Live(s, clock)
  BY CommitLives, IdFacts DEF Commits, IInv
<1>2. i # j /\ i \in Counting /\ Found(i)' = Found(i) /\ token'[i] = token[i]
  <2>1. sessions' # sessions BY <1>1 DEF Id
  <2> QED BY <2>1, Counts
<1>3. Found(i) \subseteq Id BY DEF IInv, TypeOK, Found
<1>4. Spared(i)' \in SUBSET Spared(i) /\ Missed(i)' \in SUBSET (Missed(i) \cup {id})
  BY <1>1, <1>2, <1>3 DEF Spared, Missed, LiveNow
<1>5. /\ IsFiniteSet(Spared(i)) /\ IsFiniteSet(Missed(i)) BY LimitSets
<1>6. Cardinality(Spared(i)') <= Cardinality(Spared(i)) BY <1>4, <1>5, FS_Subset
<1>7. /\ Cardinality(Missed(i)') <= Cardinality(Missed(i)) + 1
      /\ Cardinality(Missed(i)') \in Nat
  <2>1. IsFiniteSet({id}) /\ Cardinality({id}) = 1 BY FS_Singleton
  <2> HIDE DEF id
  <2> QED BY <1>4, <1>5, <2>1, SizeWithin
<1>8. LeftBy(i)' <= LeftBy(i) + 1 BY <1>6, <1>7, LeavesLess
<1>9. /\ IsFiniteSet(LiveNow') /\ Cardinality(LiveNow') \in Nat
      /\ Cardinality(LiveNow') <= LeftBy(j) + 1
  BY CommitLeaves
<1>10. Cardinality(Spared(i)') + Cardinality(Missed(i)') <= Cardinality(LiveNow')
  <2>1. /\ Spared(i)' \in SUBSET LiveNow' /\ Missed(i)' \in SUBSET LiveNow'
        /\ Spared(i)' \cap Missed(i)' = {}
    BY DEF Spared, Missed
  <2>2. IsFiniteSet(Spared(i)') /\ IsFiniteSet(Missed(i)') BY <1>9, <2>1, FS_Subset
  <2>3. Spared(i)' \cup Missed(i)' \in SUBSET LiveNow' BY <2>1
  <2>4. Cardinality(Spared(i)' \cup Missed(i)') <= Cardinality(LiveNow') BY <1>9, <2>3, FS_Subset
  <2>5. Cardinality(Spared(i)' \cup Missed(i)') =
          Cardinality(Spared(i)') + Cardinality(Missed(i)') - 0
    BY <2>1, <2>2, FS_Union, FS_EmptySet
  <2>6. Cardinality(Spared(i)') \in Nat /\ Cardinality(Missed(i)') \in Nat
    BY <2>2, FS_CardinalityType
  <2> QED BY <2>4, <2>5, <2>6
<1>11. LeftBy(i)' = UpToLimit(Cardinality(Spared(i)')) + Cardinality(Missed(i)')
  BY DEF LeftBy, UpToLimit
<1>12. Cardinality(Spared(i)') \in Nat /\ Cardinality(Missed(i)') \in Nat
  <2>1. IsFiniteSet(Spared(i)') BY <1>4, <1>5, FS_Subset
  <2> QED BY <1>7, <2>1, FS_CardinalityType
<1>13. UpToLimit(Cardinality(Spared(i)')) <= Cardinality(Spared(i)')
         /\ UpToLimit(Cardinality(Spared(i)')) \in Nat
  BY <1>12, ConstantsOK DEF UpToLimit
<1>14. LeftBy(j) \in Nat BY LimitSets
<1>15. LeftBy(i)' <= LeftBy(j) + 1 BY <1>9, <1>10, <1>11, <1>12, <1>13, <1>14
<1> QED BY <1>2, <1>8, <1>15

\* Every other step leaves no request behind that was not.
LEMMA QuietDelaysNone ==
  ASSUME IInv, IInv', [Next]_vars, \A r \in Request : ~Commits(r),
         NEW i \in Request, i \in Counting'
  PROVE  \/ i \in Counting /\ LeftBy(i)' <= LeftBy(i)
         \/ LeftBy(i)' <= MaxActive - 1
<1>1. LiveNow' \subseteq LiveNow /\ Id' = Id BY OthersLive
<1>2. CASE i \in Counting /\ Found(i)' = Found(i) /\ token'[i] = token[i]
  <2>1. Spared(i)' \in SUBSET Spared(i) /\ Missed(i)' \in SUBSET Missed(i)
    BY <1>1, <1>2 DEF Spared, Missed
  <2>2. Cardinality(Spared(i)') <= Cardinality(Spared(i))
          /\ Cardinality(Missed(i)') <= Cardinality(Missed(i))
    BY <2>1, LimitSets, FS_Subset
  <2>3. Cardinality(Missed(i)') <= Cardinality(Missed(i)) + 0 BY <2>2, LimitSets
  <2>4. LeftBy(i)' <= LeftBy(i) + 0 BY <2>2, <2>3, LeavesLess
  <2> QED BY <1>2, <2>4, LimitSets
<1>3. CASE /\ Found(i)' = {s \in Id \ {token[i]} : Live(s, clock)} \cup held[i]
           /\ token'[i] = token[i] /\ sessions' = sessions /\ clock' = clock
  <2>1. Missed(i)' = {} BY <1>1, <1>3 DEF Missed, LiveNow
  <2>2. Cardinality(Missed(i)') = 0 BY <2>1, FS_EmptySet
  <2>3. Cardinality(Spared(i)') \in Nat
    <3>1. IsFiniteSet(LiveNow') BY <1>1, LimitSets, FS_Subset
    <3> QED BY <3>1, FS_Subset, FS_CardinalityType DEF Spared
  <2>4. LeftBy(i)' = UpToLimit(Cardinality(Spared(i)')) + Cardinality(Missed(i)')
    BY DEF LeftBy, UpToLimit
  <2> QED BY <2>2, <2>3, <2>4, ConstantsOK DEF UpToLimit
<1> QED BY <1>2, <1>3, Counts

LEMMA BehindFinite ==
  ASSUME IsFiniteSet(Request), NEW m \in Nat
  PROVE  /\ IsFiniteSet(Behind(m)) /\ IsFiniteSet(Behind(m)')
         /\ Cardinality(Behind(m)) \in Nat /\ Cardinality(Behind(m)') \in Nat
         /\ Cardinality(Behind(m)') <= Cardinality(Request)
<1>1. Behind(m) \in SUBSET Request /\ Behind(m)' \in SUBSET Request BY DEF Behind, Counting
<1> QED BY <1>1, FS_Subset, FS_CardinalityType

LEMMA CommitLimit ==
  ASSUME IsFiniteSet(Request), IInv, IInv', LimitInv, [Next]_vars, NEW j \in Request, Commits(j)
  PROVE  (\A m \in Nat : Cardinality(Behind(m)) <= m)' /\ LimitBound'
<1>1. mark[j] <= clock /\ (kind[j] = "login" => token[j] = None) BY DEF LimitInv
<1>2. Top \in Int BY ConstantsOK, FS_CardinalityType DEF Top
<1>3. LeftBy(j) \in Nat BY LimitSets
<1>4. j \in Counting BY DEF Commits, Rotate, Login, Counting, Makers
<1>5. \A m \in Nat : IsFiniteSet(Behind(m)) /\ Cardinality(Behind(m)) <= m
  BY BehindFinite DEF LimitInv
<1>6. LeftBy(j) <= Top
  <2>1. Cardinality(Behind(0)) <= 0 /\ IsFiniteSet(Behind(0)) /\ Cardinality(Behind(0)) \in Nat
    BY <1>5, BehindFinite
  <2>2. Cardinality(Behind(0)) = 0 BY <2>1
  <2>3. Behind(0) = {} BY <2>1, <2>2, FS_EmptySet
  <2>4. ~(LeftBy(j) > Top - 0) BY <1>4, <2>3 DEF Behind
  <2> QED BY <1>2, <1>3, <2>4
<1>7. LimitBound'
  <2>1. Cardinality(LiveNow') \in Nat /\ Cardinality(LiveNow') <= LeftBy(j) + 1
    BY <1>1, CommitLeaves
  <2>2. Cardinality(LiveNow') <= Top + 1
    <3> QED BY <1>2, <1>3, <1>6, <2>1
  <2>3. Top + 1 = MaxActive + Cardinality(Request) - 1
    BY ConstantsOK, FS_CardinalityType DEF Top
  <2> QED BY <2>2, <2>3 DEF LimitBound, LiveNow
<1>8. ASSUME NEW m \in Nat PROVE Cardinality(Behind(m)') <= m
  <2>1. ASSUME NEW i \in Behind(m)'
        PROVE  /\ i # j /\ i \in Counting /\ LeftBy(i)' > Top - m
               /\ LeftBy(i)' <= LeftBy(i) + 1 /\ LeftBy(i)' <= LeftBy(j) + 1
    <3>1. i \in Counting' /\ i \in Request /\ LeftBy(i)' > Top - m BY <2>1 DEF Behind, Counting
    <3> QED BY <1>1, <3>1, CommitDelays
  <2>2. \A i \in Request : LeftBy(i) \in Nat /\ LeftBy(i)' \in Nat
    BY LimitSets, LeftByNat
  <2>3. CASE LeftBy(j) + 1 <= Top - m
    <3>1. \A i \in Behind(m)' : i \in Request BY DEF Behind, Counting
    <3>2. Behind(m)' = {}
      <4> SUFFICES ASSUME NEW i \in Behind(m)' PROVE FALSE OBVIOUS
      <4>1. LeftBy(i)' > Top - m /\ LeftBy(i)' <= LeftBy(j) + 1 BY <2>1
      <4>2. LeftBy(i)' \in Nat BY <2>2, <3>1
      <4> QED BY <1>2, <1>3, <2>3, <4>1, <4>2
    <3> QED BY <3>2, FS_EmptySet
  <2>4. CASE ~(LeftBy(j) + 1 <= Top - m)
    <3> DEFINE more == Behind(m + 1)
    <3>1. IsFiniteSet(more) /\ Cardinality(more) <= m + 1 /\ Cardinality(more) \in Nat
      BY <1>5, BehindFinite
    <3>2. j \in more
      <4>1. LeftBy(j) > Top - (m + 1)
        <5> QED BY <1>2, <1>3, <2>4
      <4> QED BY <1>4, <4>1 DEF Behind
    <3>3. Behind(m)' \in SUBSET (more \ {j})
      <4> SUFFICES ASSUME NEW i \in Behind(m)' PROVE i \in more \ {j} OBVIOUS
      <4>1. i # j /\ i \in Counting /\ LeftBy(i)' > Top - m /\ LeftBy(i)' <= LeftBy(i) + 1
        BY <2>1
      <4>2. i \in Request BY <4>1 DEF Counting
      <4>3. LeftBy(i) > Top - (m + 1)
        <5> QED BY <1>2, <2>2, <4>1, <4>2
      <4> QED BY <4>1, <4>3 DEF Behind
    <3> HIDE DEF more
    <3>4. IsFiniteSet(more \ {j}) /\ Cardinality(more \ {j}) = Cardinality(more) - 1
      BY <3>1, <3>2, FS_RemoveElement
    <3>5. Cardinality(Behind(m)') <= Cardinality(more \ {j}) BY <3>3, <3>4, FS_Subset
    <3>6. Cardinality(Behind(m)') \in Nat BY BehindFinite
    <3> QED BY <3>1, <3>4, <3>5, <3>6
  <2> QED BY <2>3, <2>4
<1> QED BY <1>7, <1>8

LEMMA QuietLimit ==
  ASSUME IsFiniteSet(Request), IInv, IInv', LimitInv, [Next]_vars,
         \A r \in Request : ~Commits(r)
  PROVE  (\A m \in Nat : Cardinality(Behind(m)) <= m)' /\ LimitBound'
<1> DEFINE N == Cardinality(Request)
<1>1. N \in Nat /\ MaxActive \in Nat BY ConstantsOK, FS_CardinalityType
<1>2. LimitBound'
  <2>1. LiveNow' \in SUBSET LiveNow BY OthersLive
  <2>3. IsFiniteSet(LiveNow)
    <3>1. Id = 1 .. Len(sessions) /\ Len(sessions) \in Nat BY IdFacts DEF IInv
    <3>2. IsFiniteSet(Id) BY <3>1, FS_Interval
    <3> QED BY <3>2, FS_Subset DEF LiveNow
  <2>4. Cardinality(LiveNow') <= Cardinality(LiveNow)
        /\ Cardinality(LiveNow') \in Nat /\ Cardinality(LiveNow) \in Nat
    BY <2>1, <2>3, FS_Subset, FS_CardinalityType
  <2>5. Cardinality(LiveNow) <= MaxActive + N - 1 BY DEF LimitInv, LimitBound, LiveNow
  <2>6. Cardinality(LiveNow') <= MaxActive + N - 1
    <3> HIDE DEF N
    <3> QED BY <1>1, <2>4, <2>5
  <2> QED BY <2>6 DEF LimitBound, LiveNow
<1>3. ASSUME NEW m \in Nat PROVE Cardinality(Behind(m)') <= m
  <2>1. Cardinality(Behind(m)') \in Nat /\ Cardinality(Behind(m)') <= N BY BehindFinite
  <2>2. CASE N <= m
    <3> HIDE DEF N
    <3> QED BY <1>1, <2>1, <2>2
  <2>3. CASE ~(N <= m)
    <3>1. Behind(m)' \in SUBSET Behind(m)
      <4> SUFFICES ASSUME NEW i \in Behind(m)' PROVE i \in Behind(m) OBVIOUS
      <4>1. i \in Counting' /\ i \in Request /\ LeftBy(i)' > Top - m
        BY DEF Behind, Counting
      <4>2. LeftBy(i) \in Nat BY <4>1, LimitSets
      <4>3. LeftBy(i)' \in Nat BY <4>1, LeftByNat
      <4>4. \/ i \in Counting /\ LeftBy(i)' <= LeftBy(i)
            \/ LeftBy(i)' <= MaxActive - 1
        BY <4>1, QuietDelaysNone
      <4>5. i \in Counting /\ LeftBy(i) > Top - m
        <5>1. Top = MaxActive + N - 2 BY DEF Top
        <5> HIDE DEF N
        <5> QED BY <1>1, <2>3, <4>1, <4>2, <4>3, <4>4, <5>1
      <4> QED BY <4>5 DEF Behind
    <3>2. Cardinality(Behind(m)') <= Cardinality(Behind(m)) BY <3>1, BehindFinite, FS_Subset
    <3>3. Cardinality(Behind(m)) <= m /\ Cardinality(Behind(m)) \in Nat
      BY BehindFinite DEF LimitInv
    <3> QED BY <2>1, <3>2, <3>3
  <2> QED BY <2>2, <2>3
<1> QED BY <1>2, <1>3

LEMMA InitLimit == ASSUME IsFiniteSet(Request), Init PROVE LimitInv
<1>1. Cardinality(Request) \in Nat BY FS_CardinalityType
<1>2. \A r \in Request : mark[r] <= clock /\ token[r] = None BY DEF Init
<1>3. \A m \in Nat : Cardinality(Behind(m)) <= m
  <2>1. Counting = {} BY DEF Init, Counting
  <2>2. \A m \in Nat : Behind(m) = {} BY <2>1 DEF Behind
  <2> QED BY <2>2, FS_EmptySet
<1>4. LimitBound
  <2>1. {s \in Id : Live(s, clock)} = {} BY DEF Init, Id
  <2>2. Cardinality({s \in Id : Live(s, clock)}) = 0 BY <2>1, FS_EmptySet
  <2> QED BY <1>1, <2>2, ConstantsOK DEF LimitBound
<1> QED BY <1>2, <1>3, <1>4 DEF LimitInv

\* Each request that overlaps the others lets in one session more than the
\* limit at most, in whatever order they count, wait for locks and commit.
THEOREM LimitKept == IsFiniteSet(Request) => (Spec => []LimitBound)
<1> SUFFICES ASSUME IsFiniteSet(Request) PROVE Spec => []LimitBound OBVIOUS
<1>1. Init => LimitInv BY InitLimit
<1>2. IInv /\ IInv' /\ LimitInv /\ [Next]_vars => LimitInv'
  <2> SUFFICES ASSUME IInv, IInv', LimitInv, [Next]_vars PROVE LimitInv' OBVIOUS
  <2>1. (\A m \in Nat : Cardinality(Behind(m)) <= m)' /\ LimitBound'
    BY CommitLimit, QuietLimit
  <2>2. /\ \A r \in Request : mark'[r] <= clock'
        /\ \A r \in Request : kind'[r] = "login" => token'[r] = None
    BY LimitMarks DEF LimitInv
  <2> QED BY <2>1, <2>2 DEF LimitInv
<1>3. LimitInv => LimitBound BY DEF LimitInv
<1> QED BY <1>1, <1>2, <1>3, Invariance, PTL DEF Spec

=============================================================================
