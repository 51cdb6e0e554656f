---------------------------- MODULE RealtimeGateway ----------------------------
(***************************************************************************)
(* Locations pushed to browsers: a user exchanges its session for a ticket *)
(* kept in Redis, a websocket is opened with the ticket, and a task of the *)
(* API process reads the locations the event worker publishes in Redis and *)
(* sends each to the sockets of its client.                                *)
(*                                                                         *)
(* Coroutines of one process interleave where they await: a query, a Redis *)
(* command, a send.  Redis forgets tickets and may lose the subscription,  *)
(* browsers leave, the process restarts.  Every request holds a connection *)
(* of the database pool from its first query to its end - for a websocket, *)
(* until it is closed.                                                     *)
(***************************************************************************)
EXTENDS Integers, Sequences, FiniteSets

CONSTANTS
  Client, Session, NoSession, NoClient,
  Ticket,         \* requests for a ticket, and the tickets they return
  Socket,         \* handlers of /ws/locations
  Other,          \* other requests of the API, which share its pool
  PoolSize,       \* pool_size + max_overflow
  MaxLocations    \* bound: locations published

ASSUME ConstantsOK ==
  /\ NoSession \notin Session /\ NoClient \notin Client
  /\ Ticket \cap Socket = {} /\ Other \cap (Ticket \cup Socket) = {}
  /\ PoolSize \in Nat /\ MaxLocations \in Nat

VARIABLES
  session,      \* sessions with the user they belong to
  store,        \* tickets in Redis
  known,        \* tickets a browser was given
  proc,         \* requests; .ended: the session was over when the ticket was taken
  up,           \* sockets whose browser is there
  pool,         \* requests that hold a database connection
  connections,  \* ConnectionManager._connections
  sub,          \* the subscriber; .all is the list send_to_client works through
  inbox,        \* locations on their way from Redis
  published,    \* the client of every location published, in order
  got           \* what each socket was sent

auth == <<session, store, known>>
feed == <<sub, inbox, published, got>>
vars == <<auth, proc, up, pool, connections, feed>>

Process == Ticket \cup Socket
Idle == [step |-> "idle", session |-> NoSession, ticket |-> NoSession, ended |-> FALSE]
Waiting == [step |-> "retry", msg |-> 0, all |-> {}, todo |-> {}, failed |-> {}]

Init ==
  /\ session \in [Session -> [client : Client \cup {NoClient}, live : {TRUE},
                              allowed : BOOLEAN]]
  /\ store = {} /\ known = {}
  /\ proc = [p \in Process |-> Idle]
  /\ up = Socket
  /\ pool = {}
  /\ connections = [c \in {} |-> {}]
  /\ sub = Waiting
  /\ inbox = <<>> /\ published = <<>>
  /\ got = [h \in Socket |-> <<>>]

Go(p, step) == proc' = [proc EXCEPT ![p].step = step]
Busy(p) == proc[p].step \notin {"idle", "done"}
Client_(p) == session[proc[p].session].client
Registered(c) == IF c \in DOMAIN connections THEN connections[c] ELSE {}

\* Mutant: a request that is refused keeps its database connection.
EndRefused(p) == Go(p, "done") /\ pool' = IF proc[p].step = "open" THEN pool \ {p} ELSE pool

(* A request that ends gives its database connection back.                 *)
End(p) == Go(p, "done") /\ pool' = pool \ {p}

-----------------------------------------------------------------------------
(* Sessions end (logout, expiry, reuse of a token, deleted user), and a    *)
(* role may be given to the user at any time; nothing takes it away.       *)

EndSession(s) ==
  /\ session[s].live
  /\ session' = [session EXCEPT ![s].live = FALSE]
  /\ UNCHANGED <<store, known, proc, up, pool, connections, feed>>

AssignRole(s) ==
  /\ ~ session[s].allowed
  /\ session' = [session EXCEPT ![s].allowed = TRUE]
  /\ UNCHANGED <<store, known, proc, up, pool, connections, feed>>

-----------------------------------------------------------------------------
(* _resolve_realtime_access, for the request of a ticket and for a socket: *)
(* one query for the session and its user, one for the roles of the user.  *)

GetActiveUserSession(p) ==
  /\ proc[p].step = "user"
  /\ pool' = pool \cup {p} /\ Cardinality(pool') <= PoolSize
  /\ Go(p, IF session[proc[p].session].live THEN "access" ELSE "refused")
  /\ UNCHANGED <<auth, up, connections, feed>>

(* pool_timeout; the ticket is used up.                                    *)
NoConnection(p) ==
  /\ proc[p].step = "user" /\ p \notin pool
  /\ Cardinality(pool) >= PoolSize
  /\ End(p)
  /\ UNCHANGED <<auth, up, connections, feed>>

ValidateAccess(p) ==
  /\ proc[p].step = "access"
  /\ \/ /\ session[proc[p].session].allowed /\ Client_(p) # NoClient
        /\ Go(p, IF p \in Socket THEN "accept" ELSE "set")
     \/ /\ \/ ~ session[proc[p].session].allowed \/ Client_(p) = NoClient
           \/ p \in Socket       \* its origin is not one of the allowed ones
        /\ Go(p, "refused")
  /\ UNCHANGED <<auth, up, pool, connections, feed>>

Refuse(p) ==
  /\ proc[p].step = "refused"
  /\ End(p)
  /\ UNCHANGED <<auth, up, connections, feed>>

(* Every other request holds a connection as well, as long as it lasts.    *)
OtherBegins(o) ==
  /\ o \notin pool
  /\ pool' = pool \cup {o} /\ Cardinality(pool') <= PoolSize
  /\ UNCHANGED <<auth, proc, up, connections, feed>>

OtherEnds(o) ==
  /\ o \in pool
  /\ pool' = pool \ {o}
  /\ UNCHANGED <<auth, proc, up, connections, feed>>

OtherRequest == \E o \in Other : OtherBegins(o) \/ OtherEnds(o)

-----------------------------------------------------------------------------
(* POST /auth/websocket-ticket                                             *)

AskTicket(t) ==
  \E s \in Session :
    /\ proc[t].step = "idle"
    /\ proc' = [proc EXCEPT ![t].step = "user", ![t].session = s]
    /\ UNCHANGED <<auth, up, pool, connections, feed>>

StoreTicket(t) ==
  /\ proc[t].step = "set"
  /\ store' = store \cup {t}
  /\ known' = known \cup {t}
  /\ End(t)
  /\ UNCHANGED <<session, up, connections, feed>>

(* RedisError, before or after the SET: 503.                               *)
StoreFails(t) ==
  /\ proc[t].step = "set"
  /\ store' \in {store, store \cup {t}}
  /\ End(t)
  /\ UNCHANGED <<session, known, up, connections, feed>>

Expire(t) ==
  /\ t \in store
  /\ store' = store \ {t}
  /\ UNCHANGED <<session, known, proc, up, pool, connections, feed>>

-----------------------------------------------------------------------------
(* WEBSOCKET /ws/locations; a browser may come back with an old ticket.    *)

\* Mutant: GET instead of GETDEL.
ReadTicket(h) ==
  \E t \in known :
    /\ proc[h].step = "idle"
    /\ proc' = [proc EXCEPT ![h] =
         IF t \in store THEN [step |-> "user", session |-> proc[t].session, ticket |-> t,
                              ended |-> ~ session[proc[t].session].live]
         ELSE [Idle EXCEPT !.step = "refused"]]
    /\ UNCHANGED <<auth, up, pool, connections, feed>>

ConsumeTicket(h) ==
  \E t \in known :
    /\ proc[h].step = "idle"
    /\ store' = store \ {t}
    /\ proc' = [proc EXCEPT ![h] =
         IF t \in store THEN [step |-> "user", session |-> proc[t].session, ticket |-> t,
                              ended |-> ~ session[proc[t].session].live]
         ELSE [Idle EXCEPT !.step = "refused"]]
    /\ UNCHANGED <<session, known, up, pool, connections, feed>>

(* RedisError, before or after the GETDEL.                                 *)
ConsumeFails(h) ==
  \E t \in known :
    /\ proc[h].step = "idle"
    /\ store' \in {store, store \ {t}}
    /\ Go(h, "refused")
    /\ UNCHANGED <<session, known, up, pool, connections, feed>>

(* ConnectionManager.connect follows accept without an await between them. *)
Connect(h) ==
  LET c == Client_(h) IN
  /\ proc[h].step = "accept" /\ h \in up
  /\ connections' = [k \in DOMAIN connections \cup {c} |->
                       IF k = c THEN Registered(c) \cup {h} ELSE connections[k]]
  /\ Go(h, "open")
  /\ UNCHANGED <<auth, up, pool, feed>>

AcceptFails(h) ==
  /\ proc[h].step = "accept" /\ h \notin up
  /\ End(h)
  /\ UNCHANGED <<auth, up, connections, feed>>

BrowserLeaves(h) ==
  /\ h \in up /\ Busy(h)
  /\ up' = up \ {h}
  /\ UNCHANGED <<auth, proc, pool, connections, feed>>

(* ConnectionManager.disconnect: a client without sockets has no entry.    *)
Without(cs, c, gone) ==
  IF c \notin DOMAIN cs THEN cs
  ELSE LET rest == cs[c] \ gone IN
       [k \in IF rest = {} THEN DOMAIN cs \ {c} ELSE DOMAIN cs |->
          IF k = c THEN rest ELSE cs[k]]

(* receive_text raises, and finally.                                       *)
Disconnect(h) ==
  /\ proc[h].step = "open" /\ h \notin up
  /\ connections' = Without(connections, Client_(h), {h})
  /\ End(h)
  /\ UNCHANGED <<auth, up, feed>>

-----------------------------------------------------------------------------
(* The feed.  NoClient is a message that is not a location event.          *)

(* publish_location_updated, in the event worker; Redis keeps nothing for  *)
(* those who are not subscribed.                                           *)
Publish ==
  \E c \in Client \cup {NoClient} :
    /\ Len(published) < MaxLocations
    /\ published' = Append(published, c)
    /\ inbox' = IF sub.step = "retry" THEN inbox ELSE Append(inbox, Len(published'))
    /\ UNCHANGED <<auth, proc, up, pool, connections, sub, got>>

Subscribe ==
  /\ sub.step = "retry"
  /\ sub' = [sub EXCEPT !.step = "listen"]
  /\ UNCHANGED <<auth, proc, up, pool, connections, inbox, published, got>>

(* The connection to Redis breaks: what it had not brought is lost, and a  *)
(* dispatch in progress goes on.                                           *)
LoseMessages ==
  /\ sub.step # "retry"
  /\ \E n \in 0 .. Len(inbox) - 1 : inbox' = SubSeq(inbox, 1, n)
  /\ UNCHANGED <<auth, proc, up, pool, connections, sub, published, got>>

\* Mutant: an error of Redis ends the task.
ListenDies ==
  /\ sub.step = "listen"
  /\ sub' = [Waiting EXCEPT !.step = "dead"]
  /\ inbox' = <<>>
  /\ UNCHANGED <<auth, proc, up, pool, connections, published, got>>

ListenFails ==
  /\ sub.step = "listen"
  /\ sub' = Waiting
  /\ inbox' = <<>>
  /\ UNCHANGED <<auth, proc, up, pool, connections, published, got>>

Receive ==
  /\ sub.step = "listen" /\ inbox # <<>>
  /\ LET all == Registered(published[Head(inbox)]) IN
     sub' = IF all = {} THEN sub
            ELSE [step |-> "send", msg |-> Head(inbox), all |-> all, todo |-> all, failed |-> {}]
  /\ inbox' = Tail(inbox)
  /\ UNCHANGED <<auth, proc, up, pool, connections, published, got>>

Sent(h) == got' = [got EXCEPT ![h] = Append(@, sub.msg)]

(* A send to a browser that left raises, or is buffered and lost.          *)
Send(h) ==
  /\ sub.step = "send" /\ h \in sub.todo
  /\ \/ sub' = [sub EXCEPT !.todo = @ \ {h}] /\ Sent(h)
     \/ h \notin up /\ got' = got
        /\ sub' = [sub EXCEPT !.todo = @ \ {h}, !.failed = @ \cup {h}]
  /\ UNCHANGED <<auth, proc, up, pool, connections, inbox, published>>

\* Mutant: a dispatch with failures is tried again.
RetryDispatch ==
  /\ sub.step = "send" /\ sub.todo = {}
  /\ connections' = Without(connections, published[sub.msg], sub.failed)
  /\ sub' = [Waiting EXCEPT !.step = "listen"]
  /\ inbox' = IF sub.failed = {} THEN inbox ELSE <<sub.msg>> \o inbox
  /\ UNCHANGED <<auth, proc, up, pool, published, got>>

DropFailed ==
  /\ sub.step = "send" /\ sub.todo = {}
  /\ connections' = Without(connections, published[sub.msg], sub.failed)
  /\ sub' = [Waiting EXCEPT !.step = "listen"]
  /\ UNCHANGED <<auth, proc, up, pool, inbox, published, got>>

(* The API process restarts: Redis and the database keep what they have.   *)
Restart ==
  /\ proc' = [p \in Process |-> IF Busy(p) THEN [proc[p] EXCEPT !.step = "done"] ELSE proc[p]]
  /\ pool' = {}
  /\ connections' = [c \in {} |-> {}]
  /\ sub' = Waiting /\ inbox' = <<>>
  /\ UNCHANGED <<auth, up, published, got>>

-----------------------------------------------------------------------------
RequestStep(p) ==
  \/ GetActiveUserSession(p) \/ NoConnection(p) \/ ValidateAccess(p) \/ Refuse(p)
TicketStep(t) == AskTicket(t) \/ StoreTicket(t) \/ StoreFails(t) \/ Expire(t)
SocketStep(h) ==
  \/ ConsumeTicket(h) \/ ConsumeFails(h) \/ Connect(h) \/ AcceptFails(h)
  \/ BrowserLeaves(h) \/ Disconnect(h) \/ Send(h)

Next ==
  \/ \E s \in Session : EndSession(s) \/ AssignRole(s)
  \/ \E p \in Process : RequestStep(p)
  \/ OtherRequest
  \/ \E t \in Ticket : TicketStep(t)
  \/ \E h \in Socket : SocketStep(h)
  \/ Publish \/ Subscribe \/ LoseMessages \/ ListenFails \/ Receive \/ DropFailed \/ Restart

Spec == Init /\ [][Next]_vars

(* Coroutines of the process are scheduled, a send ends (uvicorn closes a  *)
(* socket whose pings are not answered), and Redis is reachable again.     *)
Fairness ==
  /\ WF_vars(Subscribe) /\ WF_vars(Receive) /\ WF_vars(DropFailed)
  /\ \A h \in Socket : WF_vars(Send(h)) /\ WF_vars(Disconnect(h))

FairSpec == Spec /\ Fairness
-----------------------------------------------------------------------------
Steps == {"idle", "user", "access", "refused", "set", "accept", "open", "done"}

TypeOK ==
  /\ session \in [Session -> [client : Client \cup {NoClient}, live : BOOLEAN,
                              allowed : BOOLEAN]]
  /\ store \subseteq Ticket /\ known \subseteq Ticket
  /\ proc \in [Process -> [step : Steps, session : Session \cup {NoSession},
                          ticket : Ticket \cup {NoSession}, ended : BOOLEAN]]
  /\ up \subseteq Socket /\ pool \subseteq Process \cup Other
  /\ DOMAIN connections \subseteq Client
  /\ \A c \in DOMAIN connections : connections[c] \subseteq Socket
  /\ sub.step \in {"retry", "listen", "send"}
  /\ sub.todo \subseteq sub.all /\ sub.failed \subseteq sub.all /\ sub.all \subseteq Socket
  /\ published \in Seq(Client \cup {NoClient})
  /\ \A h \in Socket : \A i \in 1 .. Len(got[h]) : got[h][i] \in 1 .. Len(published)

(* A ticket opens one socket, however often and by however many handlers it*)
(* is presented, and although Redis may fail after it took it away         *)
(* (realtime_auth_service.py:88).                                          *)
TicketUsedOnce ==
  \A g, h \in Socket : g # h /\ proc[g].ticket # NoSession => proc[g].ticket # proc[h].ticket

(* A session that was over when its ticket was presented gets no socket:   *)
(* what the ticket says of the user is looked up again                     *)
(* (realtime_auth_service.py:104).                                         *)
AdmittedAlive ==
  \A h \in Socket : proc[h].step \in {"accept", "open"} =>
    ~ proc[h].ended /\ Client_(h) # NoClient

(* Requests that are over hold no database connection; a websocket holds   *)
(* one as long as it is open, so that a request is turned away only when   *)
(* PoolSize others are busy (routers/realtime.py:28).                      *)
PoolGivenBack ==
  /\ \A p \in pool \cap Process : Busy(p)
  /\ \A h \in Socket : proc[h].step = "open" => h \in pool
  /\ Cardinality(pool) <= PoolSize

(* The sockets of a client are those of the handlers that wait for their   *)
(* browser, whatever happened while a send was awaited: none that is closed*)
(* comes back, none whose browser is there is forgotten, and a client      *)
(* without sockets has no entry (connection_manager.py:27).                *)
RegisteredAreOpen ==
  /\ \A c \in DOMAIN connections :
       /\ connections[c] # {}
       /\ \A h \in connections[c] : proc[h].step = "open" /\ Client_(h) = c
  /\ \A h \in up : proc[h].step = "open" => h \in Registered(Client_(h))

(* A socket is sent the locations of its client only, each once and in the *)
(* order in which they were published (locations_suscriber.py:32).         *)
FeedInOrder ==
  \A h \in Socket : \A i \in 1 .. Len(got[h]) :
    /\ published[got[h][i]] = Client_(h)
    /\ i > 1 => got[h][i - 1] < got[h][i]

(* A socket that fails, or leaves, keeps no other socket from the location *)
(* that is being sent (connection_manager.py:63).                          *)
ReachesTheOthers ==
  [][DropFailed => \A h \in sub.all \cap up : \E i \in 1 .. Len(got[h]) : got[h][i] = sub.msg]_vars

(* The subscriber comes back after every failure of Redis, and no socket   *)
(* keeps it in a dispatch (locations_suscriber.py:62).                     *)
ListensAgain == []<>(sub.step = "listen")
=============================================================================
