------------------------ MODULE RealtimeGateway_proofs ------------------------
(***************************************************************************)
(* Proofs about RealtimeGateway, for every number of sessions, tickets and *)
(* sockets, every size of the pool and every number of locations.  The     *)
(* inductive invariant has one part per concern - the types, the tickets,  *)
(* the admission of sockets, the database pool, the registered sockets and *)
(* the feed - and each part is kept by every action given the ones before. *)
(***************************************************************************)
EXTENDS RealtimeGateway, FiniteSetTheorems, TLAPS

ProcType == [step : Steps, session : Session \cup {NoSession},
             ticket : Ticket \cup {NoSession}, ended : BOOLEAN]
SubType == [step : {"retry", "listen", "send"}, msg : Nat, all : SUBSET Socket,
            todo : SUBSET Socket, failed : SUBSET Socket]

Types ==
  /\ session \in [Session -> [client : Client \cup {NoClient}, live : BOOLEAN, allowed : BOOLEAN]]
  /\ store \subseteq Ticket /\ known \subseteq Ticket
  /\ proc \in [Process -> ProcType]
  /\ up \subseteq Socket /\ pool \subseteq Process \cup Other
  /\ connections \in [DOMAIN connections -> SUBSET Socket]
  /\ sub \in SubType
  /\ inbox \in Seq(Nat) /\ published \in Seq(Client \cup {NoClient})
  /\ got \in [Socket -> Seq(Nat)]

(* A ticket is known or stored when its request is over; one that a socket *)
(* took is not in Redis again.                                             *)
TicketsOK ==
  /\ \A t \in store \cup known : proc[t].step = "done"
  /\ \A h \in Socket : proc[h].ticket # NoSession =>
       proc[h].ticket \in known /\ proc[h].ticket \notin store
  /\ TicketUsedOnce

(* A request past its ticket has a session, and what was over stays over.  *)
AdmissionOK ==
  /\ \A p \in Process : /\ proc[p].step \notin {"idle", "refused", "done"} => proc[p].session \in Session
                        /\ proc[p].session \in Session /\ proc[p].ended => ~ session[proc[p].session].live
                        /\ proc[p].step = "idle" => ~ proc[p].ended
  /\ \A t \in store \cup known : proc[t].session \in Session
  /\ \A h \in Socket : proc[h].step \in {"access", "accept", "open"} => ~ proc[h].ended
  /\ \A h \in Socket : proc[h].step \in {"accept", "open"} => Client_(h) # NoClient

PoolOK ==
  /\ IsFiniteSet(pool) /\ Cardinality(pool) <= PoolSize
  /\ \A p \in pool \cap Process : Busy(p)
  /\ \A p \in Process : proc[p].step \in {"access", "set", "accept", "open"} => p \in pool

(* Sockets in a dispatch, or with something sent, have been opened, and a  *)
(* send only fails when the browser has left.                              *)
SocketsOK ==
  /\ RegisteredAreOpen
  /\ sub.failed \cap up = {} /\ sub.todo \subseteq sub.all /\ sub.failed \subseteq sub.all
  /\ \A h \in Socket : h \in sub.all \/ got[h] # <<>> => proc[h].step \in {"open", "done"}

(* Locations on their way are in order and newer than what is being sent,  *)
(* which is newer than what those still to be sent to have.                *)
InboxOK ==
  /\ sub.step = "retry" => inbox = <<>>
  /\ \A i \in 1 .. Len(inbox) : inbox[i] \in 1 .. Len(published)
  /\ \A i, j \in 1 .. Len(inbox) : i < j => inbox[i] < inbox[j]

DispatchOK ==
  sub.step = "send" =>
    /\ sub.msg \in 1 .. Len(published)
    /\ \A j \in 1 .. Len(inbox) : sub.msg < inbox[j]
    /\ \A h \in sub.all : /\ published[sub.msg] = Client_(h)
                          /\ h \in sub.todo \cup sub.failed \/ \E i \in 1 .. Len(got[h]) : got[h][i] = sub.msg

GotOK(h) ==
  \A i \in 1 .. Len(got[h]) :
    /\ got[h][i] \in 1 .. Len(published) /\ published[got[h][i]] = Client_(h)
    /\ i > 1 => got[h][i - 1] < got[h][i]
    /\ \A j \in 1 .. Len(inbox) : got[h][i] < inbox[j]
    /\ sub.step = "send" => got[h][i] <= sub.msg
    /\ sub.step = "send" /\ h \in sub.todo => got[h][i] < sub.msg

Hears(h) == h \in sub.all \/ got[h] # <<>>

FeedOK ==
  /\ InboxOK /\ DispatchOK
  /\ \A h \in Socket : GotOK(h) /\ (Hears(h) => proc[h].session \in Session)

IInv == Types /\ TicketsOK /\ AdmissionOK /\ PoolOK /\ SocketsOK /\ FeedOK

-----------------------------------------------------------------------------
(* A request that takes its next step changes in nothing else.             *)
LEMMA Going ==
  ASSUME Types, NEW p \in Process, NEW where \in Steps, Go(p, where)
  PROVE  /\ proc' \in [Process -> ProcType]
         /\ proc'[p].step = where
         /\ \A q \in Process : /\ q # p => proc'[q].step = proc[q].step
                               /\ proc'[q].session = proc[q].session
                               /\ proc'[q].ticket = proc[q].ticket
                               /\ proc'[q].ended = proc[q].ended
<1>1. proc \in [Process -> ProcType]
  BY DEF Types
<1>2. proc' = [proc EXCEPT ![p] = [proc[p] EXCEPT !.step = where]]
  BY DEF Go
<1>3. [proc[p] EXCEPT !.step = where] \in ProcType
  BY <1>1 DEF ProcType
<1>4. proc' \in [Process -> ProcType]
  BY <1>1, <1>2, <1>3
<1>5. proc'[p] = [proc[p] EXCEPT !.step = where] /\ \A q \in Process \ {p} : proc'[q] = proc[q]
  BY <1>1, <1>2
<1> QED BY <1>1, <1>4, <1>5 DEF ProcType

LEMMA InitTypes == Init => Types
<1> SUFFICES ASSUME Init PROVE Types
  OBVIOUS
<1>1. proc \in [Process -> ProcType]
  BY DEF Init, Idle, ProcType, Steps
<1>2. sub \in SubType
  BY DEF Init, Waiting, SubType
<1>3. connections \in [DOMAIN connections -> SUBSET Socket]
  BY DEF Init
<1>4. session \in [Session -> [client : Client \cup {NoClient}, live : BOOLEAN, allowed : BOOLEAN]]
  <2>1. {TRUE} \subseteq BOOLEAN
    OBVIOUS
  <2> QED BY <2>1 DEF Init
<1>5. got \in [Socket -> Seq(Nat)]
  BY DEF Init
<1> QED BY <1>1, <1>2, <1>3, <1>4, <1>5 DEF Init, Types

LEMMA NextTypes == Types /\ [Next]_vars => Types'
<1> SUFFICES ASSUME Types, [Next]_vars PROVE Types'
  OBVIOUS
<1>0. Socket \subseteq Process /\ Ticket \subseteq Process
  BY DEF Process
<1>1. ASSUME NEW s \in Session, EndSession(s) \/ AssignRole(s) PROVE Types'
  BY <1>1 DEF EndSession, AssignRole, feed, Types
<1>2. ASSUME NEW p \in Process, RequestStep(p) PROVE Types'
  <2>1. \E step \in Steps : Go(p, step)
    BY <1>2 DEF RequestStep, GetActiveUserSession, NoConnection, ValidateAccess, Refuse, End, Steps
  <2>2. proc' \in [Process -> ProcType]
    BY <2>1, Going
  <2>3. pool' \subseteq Process \cup Other /\ UNCHANGED <<auth, up, connections, feed>>
    BY <1>2 DEF RequestStep, GetActiveUserSession, NoConnection, ValidateAccess, Refuse, End, Types
  <2> QED BY <2>2, <2>3 DEF Types, auth, feed
<1>3. ASSUME NEW t \in Ticket, AskTicket(t) PROVE Types'
  <2>1. PICK s \in Session : proc' = [proc EXCEPT ![t].step = "user", ![t].session = s]
    BY <1>3 DEF AskTicket
  <2>2. proc' \in [Process -> ProcType]
    <3>1. t \in Process /\ proc \in [Process -> ProcType] /\ proc[t] \in ProcType
      BY <1>0 DEF Types
    <3>2. proc' = [proc EXCEPT ![t] = [proc[t] EXCEPT !.step = "user", !.session = s]]
      BY <2>1, <3>1
    <3>3. [proc[t] EXCEPT !.step = "user", !.session = s] \in ProcType
      BY <3>1 DEF ProcType, Steps
    <3> QED BY <3>1, <3>2, <3>3
  <2> QED BY <1>3, <2>2 DEF AskTicket, Types, auth, feed
<1>4. ASSUME NEW t \in Ticket, StoreTicket(t) \/ StoreFails(t) PROVE Types'
  <2>1. Go(t, "done") /\ "done" \in Steps
    BY <1>4 DEF StoreTicket, StoreFails, End, Steps
  <2>2. proc' \in [Process -> ProcType]
    BY <1>0, <2>1, Going
  <2> QED BY <1>4, <2>2 DEF StoreTicket, StoreFails, End, Types, feed
<1>5. ASSUME NEW t \in Ticket, Expire(t) PROVE Types'
  BY <1>5 DEF Expire, Types, feed
<1>6. ASSUME NEW h \in Socket, ConsumeTicket(h) PROVE Types'
  <2>1. PICK t \in known : proc' = [proc EXCEPT ![h] =
               IF t \in store THEN [step |-> "user", session |-> proc[t].session, ticket |-> t,
                                    ended |-> ~ session[proc[t].session].live]
               ELSE [Idle EXCEPT !.step = "refused"]]
    BY <1>6 DEF ConsumeTicket
  <2>2. t \in Ticket /\ proc[t] \in ProcType
    BY <1>0 DEF Types
  <2>3. [step |-> "user", session |-> proc[t].session, ticket |-> t,
         ended |-> ~ session[proc[t].session].live] \in ProcType
    BY <2>2 DEF ProcType, Steps
  <2>4. [Idle EXCEPT !.step = "refused"] \in ProcType
    BY DEF Idle, ProcType, Steps
  <2>5. proc' \in [Process -> ProcType]
    BY <2>1, <2>3, <2>4 DEF Types
  <2> QED BY <1>6, <2>5 DEF ConsumeTicket, Types, feed
<1>7. ASSUME NEW h \in Socket, ConsumeFails(h) \/ AcceptFails(h) \/ Connect(h) \/ Disconnect(h)
      PROVE  Types'
  <2>1. \E step \in Steps : Go(h, step)
    BY <1>7 DEF ConsumeFails, AcceptFails, Connect, Disconnect, End, Steps
  <2>2. proc' \in [Process -> ProcType]
    BY <1>0, <2>1, Going
  <2>3. connections' \in [DOMAIN connections' -> SUBSET Socket]
    BY <1>7 DEF ConsumeFails, AcceptFails, Connect, Disconnect, Registered, Without, Types, auth
  <2> QED BY <1>7, <2>2, <2>3
          DEF ConsumeFails, AcceptFails, Connect, Disconnect, End, Types, auth, feed
<1>8. ASSUME NEW h \in Socket, BrowserLeaves(h) PROVE Types'
  BY <1>8 DEF BrowserLeaves, Types, auth, feed
<1>9. ASSUME NEW h \in Socket, Send(h) PROVE Types'
  <2>0. sub \in SubType /\ got \in [Socket -> Seq(Nat)]
    BY DEF Types
  <2>1. sub' \in SubType
    <3>1. CASE sub' = [sub EXCEPT !.todo = sub.todo \ {h}]
      BY <2>0, <3>1 DEF SubType
    <3>2. CASE sub' = [sub EXCEPT !.todo = sub.todo \ {h}, !.failed = sub.failed \cup {h}]
      BY <2>0, <3>2 DEF SubType
    <3> QED BY <1>9, <3>1, <3>2 DEF Send
  <2>2. got' \in [Socket -> Seq(Nat)]
    <3>1. Append(got[h], sub.msg) \in Seq(Nat)
      BY <2>0 DEF SubType
    <3> QED BY <1>9, <2>0, <3>1 DEF Send, Sent
  <2> QED BY <1>9, <2>1, <2>2 DEF Send, Types, auth
<1>10. ASSUME Publish PROVE Types'
  BY <1>10 DEF Publish, Types, auth
<1>11. Waiting \in SubType /\ [Waiting EXCEPT !.step = "listen"] \in SubType
  BY DEF Waiting, SubType
<1>12. ASSUME Subscribe \/ ListenFails PROVE Types'
  <2>1. [sub EXCEPT !.step = "listen"] \in SubType
    BY DEF Types, SubType
  <2>2. sub' \in SubType
    BY <1>11, <1>12, <2>1 DEF Subscribe, ListenFails
  <2>3. CASE Subscribe
    BY <2>2, <2>3 DEF Subscribe, Types, auth
  <2>4. CASE ListenFails
    BY <2>2, <2>4 DEF ListenFails, Types, auth
  <2> QED BY <1>12, <2>3, <2>4
<1>13. ASSUME LoseMessages PROVE Types'
  BY <1>13 DEF LoseMessages, Types, auth
<1>14. ASSUME Receive PROVE Types'
  <2>1. Registered(published[Head(inbox)]) \subseteq Socket
    BY DEF Registered, Types
  <2>2. Head(inbox) \in Nat /\ Tail(inbox) \in Seq(Nat)
    BY <1>14 DEF Receive, Types
  <2>3. sub' \in SubType
    BY <1>14, <2>1, <2>2 DEF Receive, Types, SubType
  <2> QED BY <1>14, <2>2, <2>3 DEF Receive, Types, auth
<1>15. ASSUME DropFailed PROVE Types'
  <2>1. connections' \in [DOMAIN connections' -> SUBSET Socket]
    BY <1>15 DEF DropFailed, Without, Types
  <2> QED BY <1>15, <1>11, <2>1 DEF DropFailed, Types, auth
<1>16. ASSUME Restart PROVE Types'
  <2>1. proc' \in [Process -> ProcType]
    BY <1>16 DEF Restart, Types, ProcType, Steps
  <2>2. connections' \in [DOMAIN connections' -> SUBSET Socket]
    BY <1>16 DEF Restart
  <2> QED BY <1>16, <1>11, <2>1, <2>2 DEF Restart, Types, auth
<1>17. CASE UNCHANGED vars
  BY <1>17 DEF vars, auth, feed, Types
<1>18. CASE OtherRequest
  BY <1>18 DEF OtherRequest, OtherBegins, OtherEnds, auth, feed, Types
<1> QED
  BY <1>1, <1>2, <1>3, <1>4, <1>5, <1>6, <1>7, <1>8, <1>9, <1>10, <1>12, <1>13, <1>14,
     <1>15, <1>16, <1>17, <1>18 DEF Next, TicketStep, SocketStep

-----------------------------------------------------------------------------
(* Tickets.                                                                *)

LEMMA TicketsKept ==
  ASSUME Types, TicketsOK, NEW p \in Process, NEW where \in Steps, Go(p, where),
         proc[p].step # "done", known \subseteq known',
         store' \subseteq store \cup (IF where = "done" THEN {p} ELSE {}),
         known' \subseteq known \cup (IF where = "done" THEN {p} ELSE {})
  PROVE  TicketsOK'
<1>1. /\ proc'[p].step = where
      /\ \A q \in Process : (q # p => proc'[q].step = proc[q].step) /\ proc'[q].ticket = proc[q].ticket
  BY Going
<1>2. Socket \subseteq Process /\ store \cup known \subseteq Process
  BY DEF Process, Types
<1>3. \A t \in store' \cup known' : proc'[t].step = "done"
  BY <1>1, <1>2 DEF TicketsOK
<1>4. p \notin store \cup known
  BY DEF TicketsOK
<1>5. \A h \in Socket : proc'[h].ticket # NoSession =>
        proc'[h].ticket \in known' /\ proc'[h].ticket \notin store'
  <2> SUFFICES ASSUME NEW h \in Socket, proc'[h].ticket # NoSession
               PROVE  proc'[h].ticket \in known' /\ proc'[h].ticket \notin store'
    OBVIOUS
  <2>1. proc[h].ticket \in known /\ proc[h].ticket \notin store /\ proc'[h].ticket = proc[h].ticket
    BY <1>1, <1>2 DEF TicketsOK
  <2> QED BY <2>1, <1>4
<1>6. TicketUsedOnce'
  BY <1>1, <1>2 DEF TicketsOK, TicketUsedOnce
<1> QED BY <1>3, <1>5, <1>6 DEF TicketsOK

LEMMA NextTickets == Types /\ TicketsOK /\ [Next]_vars => TicketsOK'
<1> SUFFICES ASSUME Types, TicketsOK, [Next]_vars PROVE TicketsOK'
  OBVIOUS
<1>0. Socket \subseteq Process /\ Ticket \subseteq Process /\ Ticket \cap Socket = {}
  BY ConstantsOK DEF Process
<1>1. CASE UNCHANGED <<known, proc>> /\ store' \subseteq store
  BY <1>1 DEF TicketsOK, TicketUsedOnce
<1>2. ASSUME NEW p \in Process, RequestStep(p) PROVE TicketsOK'
  <2>1. PICK where \in Steps : Go(p, where) /\ proc[p].step # "done"
    BY <1>2 DEF RequestStep, GetActiveUserSession, NoConnection, ValidateAccess, Refuse, End, Steps
  <2> QED BY <1>2, <2>1, TicketsKept
          DEF RequestStep, GetActiveUserSession, NoConnection, ValidateAccess, Refuse, auth
<1>3. ASSUME NEW t \in Ticket, AskTicket(t) PROVE TicketsOK'
  <2>1. PICK s \in Session : proc' = [proc EXCEPT ![t].step = "user", ![t].session = s]
    BY <1>3 DEF AskTicket
  <2>2. \A q \in Process : (q # t => proc'[q].step = proc[q].step) /\ proc'[q].ticket = proc[q].ticket
    BY <2>1, <1>0 DEF Types, ProcType
  <2>3. t \notin store \cup known /\ UNCHANGED <<store, known>>
    BY <1>3 DEF AskTicket, TicketsOK, auth
  <2> QED BY <1>0, <2>2, <2>3 DEF TicketsOK, TicketUsedOnce, Types
<1>4. ASSUME NEW t \in Ticket, StoreTicket(t) \/ StoreFails(t) PROVE TicketsOK'
  <2>1. "done" \in Steps /\ Go(t, "done") /\ proc[t].step # "done" /\ t \in Process
    BY <1>0, <1>4 DEF StoreTicket, StoreFails, End, Steps
  <2>2. /\ known \subseteq known' /\ known' \subseteq known \cup {t}
        /\ store' \subseteq store \cup {t}
    BY <1>4 DEF StoreTicket, StoreFails
  <2> QED BY <2>1, <2>2, TicketsKept
<1>5. ASSUME NEW h \in Socket, ConsumeTicket(h) PROVE TicketsOK'
  <2>1. PICK t \in known :
          /\ store' = store \ {t}
          /\ proc' = [proc EXCEPT ![h] =
               IF t \in store THEN [step |-> "user", session |-> proc[t].session, ticket |-> t,
                                    ended |-> ~ session[proc[t].session].live]
               ELSE [Idle EXCEPT !.step = "refused"]]
          /\ known' = known
    BY <1>5 DEF ConsumeTicket
  <2>2. /\ proc'[h].ticket = IF t \in store THEN t ELSE NoSession
        /\ \A q \in Process \ {h} : proc'[q] = proc[q]
    BY <1>0, <2>1 DEF Types, Idle
  <2>3. \A u \in store' \cup known' : proc'[u].step = "done"
    BY <1>0, <2>1, <2>2 DEF TicketsOK, Types
  <2>4. \A g \in Socket : proc'[g].ticket # NoSession =>
          proc'[g].ticket \in known' /\ proc'[g].ticket \notin store'
    BY <1>0, <2>1, <2>2 DEF TicketsOK
  <2>5. t \in store => \A g \in Socket : proc[g].ticket # t \/ t = NoSession
    BY DEF TicketsOK
  <2>6. TicketUsedOnce'
    BY <1>0, <2>2, <2>5 DEF TicketsOK, TicketUsedOnce
  <2> QED BY <2>3, <2>4, <2>6 DEF TicketsOK
<1>6. ASSUME NEW h \in Socket, ConsumeFails(h) \/ AcceptFails(h) \/ Connect(h) \/ Disconnect(h)
      PROVE  TicketsOK'
  <2>1. PICK where \in Steps : Go(h, where) /\ proc[h].step # "done"
    BY <1>6 DEF ConsumeFails, AcceptFails, Connect, Disconnect, End, Steps
  <2>2. store' \subseteq store /\ known' = known /\ h \in Process
    BY <1>0, <1>6 DEF ConsumeFails, AcceptFails, Connect, Disconnect, auth
  <2> QED BY <2>1, <2>2, TicketsKept
<1>7. ASSUME Restart PROVE TicketsOK'
  <2>1. \A p \in Process : /\ proc'[p].step = IF Busy(p) THEN "done" ELSE proc[p].step
                           /\ proc'[p].ticket = proc[p].ticket
    BY <1>7 DEF Restart, Types, ProcType
  <2>2. UNCHANGED <<store, known>>
    BY <1>7 DEF Restart, auth
  <2> QED BY <1>0, <2>1, <2>2 DEF TicketsOK, TicketUsedOnce, Busy, Types
<1>8. ASSUME NEW s \in Session, EndSession(s) \/ AssignRole(s) PROVE TicketsOK'
  BY <1>1, <1>8 DEF EndSession, AssignRole
<1>9. ASSUME NEW t \in Ticket, Expire(t) PROVE TicketsOK'
  BY <1>1, <1>9 DEF Expire
<1>10. ASSUME NEW h \in Socket, BrowserLeaves(h) \/ Send(h) PROVE TicketsOK'
  BY <1>1, <1>10 DEF BrowserLeaves, Send, auth
<1>11. CASE \/ Publish \/ Subscribe \/ LoseMessages \/ ListenFails \/ Receive \/ DropFailed
            \/ OtherRequest \/ UNCHANGED vars
  BY <1>1, <1>11 DEF Publish, Subscribe, LoseMessages, ListenFails, Receive, DropFailed,
                     OtherRequest, OtherBegins, OtherEnds, vars, auth
<1> QED
  BY <1>2, <1>3, <1>4, <1>5, <1>6, <1>7, <1>8, <1>9, <1>10, <1>11 DEF Next, TicketStep, SocketStep

-----------------------------------------------------------------------------
(* Admission.                                                              *)

LEMMA SessionChanges ==
  ASSUME Types, NEW s \in Session, EndSession(s) \/ AssignRole(s)
  PROVE  \A u \in Session : /\ session'[u].client = session[u].client
                            /\ session'[u].live => session[u].live
<1>1. CASE session' = [session EXCEPT ![s].live = FALSE]
  BY <1>1 DEF Types
<1>2. CASE session' = [session EXCEPT ![s].allowed = TRUE]
  BY <1>2 DEF Types
<1> QED BY <1>1, <1>2 DEF EndSession, AssignRole

LEMMA AdmissionKept ==
  ASSUME Types, AdmissionOK, UNCHANGED session,
         NEW p \in Process, NEW where \in Steps \ {"idle"}, Go(p, where),
         where \notin {"refused", "done"} => proc[p].step \notin {"idle", "refused", "done"},
         store' \cup known' \subseteq store \cup known \cup
           (IF proc[p].step = "set" THEN {p} ELSE {}),
         p \in Socket /\ where \in {"access", "accept", "open"} => ~ proc[p].ended,
         p \in Socket /\ where \in {"accept", "open"} => Client_(p) # NoClient
  PROVE  AdmissionOK'
<1>1. /\ proc'[p].step = where
      /\ \A q \in Process : /\ q # p => proc'[q].step = proc[q].step
                            /\ proc'[q].session = proc[q].session /\ proc'[q].ended = proc[q].ended
  BY Going
<1>2. Socket \subseteq Process
  BY DEF Process
<1>3. \A q \in Process : Client_(q)' = Client_(q)
  BY <1>1 DEF Client_
<1>4. \A q \in Process :
        /\ proc'[q].step \notin {"idle", "refused", "done"} => proc'[q].session \in Session
        /\ proc'[q].session \in Session /\ proc'[q].ended => ~ session'[proc'[q].session].live
        /\ proc'[q].step = "idle" => ~ proc'[q].ended
  BY <1>1 DEF AdmissionOK
<1>5. \A h \in Socket : proc'[h].step \in {"access", "accept", "open"} => ~ proc'[h].ended
  BY <1>1, <1>2 DEF AdmissionOK
<1>6. \A h \in Socket : proc'[h].step \in {"accept", "open"} => Client_(h)' # NoClient
  BY <1>1, <1>2, <1>3 DEF AdmissionOK
<1>7. \A t \in store' \cup known' : proc'[t].session \in Session
  BY <1>1 DEF AdmissionOK, Types, Process
<1> QED BY <1>4, <1>5, <1>6, <1>7 DEF AdmissionOK

LEMMA NextAdmission == Types /\ TicketsOK /\ AdmissionOK /\ [Next]_vars => AdmissionOK'
<1> SUFFICES ASSUME Types, TicketsOK, AdmissionOK, [Next]_vars PROVE AdmissionOK'
  OBVIOUS
<1>0. Socket \subseteq Process /\ Ticket \subseteq Process /\ Ticket \cap Socket = {}
  BY ConstantsOK DEF Process
<1>1. CASE UNCHANGED <<session, proc>> /\ store' \cup known' \subseteq store \cup known
  BY <1>1 DEF AdmissionOK, Client_
<1>2. ASSUME NEW p \in Process, RequestStep(p) PROVE AdmissionOK'
  <2>0. UNCHANGED <<session, store, known>>
    BY <1>2 DEF RequestStep, GetActiveUserSession, NoConnection, ValidateAccess, Refuse, auth
  <2>1. CASE GetActiveUserSession(p)
    <3>1. PICK where \in {"access", "refused"} :
            Go(p, where) /\ (where = "access" => session[proc[p].session].live)
      BY <2>1 DEF GetActiveUserSession
    <3>2. proc[p].step = "user" /\ where \in Steps \ {"idle"}
      BY <2>1 DEF GetActiveUserSession, Steps
    <3>3. where = "access" => ~ proc[p].ended
      BY <3>1, <3>2 DEF AdmissionOK
    <3> QED BY <2>0, <3>1, <3>2, <3>3, AdmissionKept
  <2>2. CASE NoConnection(p) \/ Refuse(p)
    <3>1. Go(p, "done") /\ "done" \in Steps \ {"idle"}
      BY <2>2 DEF NoConnection, Refuse, End, Steps
    <3> QED BY <2>0, <3>1, AdmissionKept
  <2>3. CASE ValidateAccess(p)
    <3>1. PICK where \in {"accept", "set", "refused"} :
            Go(p, where) /\ (where = "accept" => Client_(p) # NoClient)
      BY <2>3 DEF ValidateAccess
    <3>2. proc[p].step = "access" /\ where \in Steps \ {"idle"}
      BY <2>3 DEF ValidateAccess, Steps
    <3>3. p \in Socket => ~ proc[p].ended
      BY <3>2 DEF AdmissionOK
    <3> QED BY <2>0, <3>1, <3>2, <3>3, AdmissionKept
  <2> QED BY <1>2, <2>1, <2>2, <2>3 DEF RequestStep
<1>3. ASSUME NEW t \in Ticket, AskTicket(t) PROVE AdmissionOK'
  <2>1. PICK s \in Session : proc' = [proc EXCEPT ![t].step = "user", ![t].session = s]
    BY <1>3 DEF AskTicket
  <2>2. /\ proc'[t].session = s /\ proc'[t].ended = proc[t].ended /\ proc'[t].step = "user"
        /\ \A q \in Process \ {t} : proc'[q] = proc[q]
    BY <1>0, <2>1 DEF Types, ProcType
  <2>3. ~ proc[t].ended /\ UNCHANGED session
    BY <1>0, <1>3 DEF AskTicket, AdmissionOK, auth
  <2>5. \A q \in store' \cup known' : proc'[q].session \in Session
    BY <1>0, <1>3, <2>2 DEF AskTicket, AdmissionOK, Types, auth
  <2>4. \A h \in Socket : proc'[h] = proc[h] /\ Client_(h)' = Client_(h)
    BY <1>0, <2>2, <2>3 DEF Client_
  <2> QED BY <2>2, <2>3, <2>4, <2>5 DEF AdmissionOK
<1>4. ASSUME NEW t \in Ticket, StoreTicket(t) \/ StoreFails(t) PROVE AdmissionOK'
  <2>1. "done" \in Steps \ {"idle"} /\ Go(t, "done") /\ t \in Process /\ UNCHANGED session
        /\ proc[t].step = "set" /\ store' \cup known' \subseteq store \cup known \cup {t}
    BY <1>0, <1>4 DEF StoreTicket, StoreFails, End, Steps
  <2> QED BY <2>1, AdmissionKept
<1>5. ASSUME NEW h \in Socket, ConsumeTicket(h) PROVE AdmissionOK'
  <2>1. PICK t \in known :
          proc' = [proc EXCEPT ![h] =
               IF t \in store THEN [step |-> "user", session |-> proc[t].session, ticket |-> t,
                                    ended |-> ~ session[proc[t].session].live]
               ELSE [Idle EXCEPT !.step = "refused"]]
    BY <1>5 DEF ConsumeTicket
  <2>2. /\ UNCHANGED session /\ store' \subseteq store /\ known' = known
        /\ h \notin store \cup known /\ proc[t].session \in Session
        /\ \A q \in Process \ {h} : proc'[q] = proc[q]
    BY <1>0, <1>5, <2>1 DEF ConsumeTicket, AdmissionOK, Types
  <2>3. \/ /\ proc'[h].step = "user" /\ proc'[h].session \in Session
           /\ proc'[h].ended => ~ session[proc'[h].session].live
        \/ proc'[h].step = "refused" /\ ~ proc'[h].ended
    BY <1>0, <2>1, <2>2 DEF Types, Idle
  <2>4. \A g \in Socket \ {h} : Client_(g)' = Client_(g)
    BY <1>0, <2>2 DEF Client_
  <2>5. \A q \in store' \cup known' : proc'[q].session \in Session
    BY <1>0, <2>2 DEF AdmissionOK, Types
  <2> QED BY <1>0, <2>2, <2>3, <2>4, <2>5 DEF AdmissionOK
<1>6. ASSUME NEW h \in Socket, ConsumeFails(h) \/ AcceptFails(h) \/ Connect(h) \/ Disconnect(h)
      PROVE  AdmissionOK'
  <2>1. PICK where \in {"refused", "done", "open"} :
          Go(h, where) /\ (where = "open" => proc[h].step = "accept")
    BY <1>6 DEF ConsumeFails, AcceptFails, Connect, Disconnect, End
  <2>2. where \in Steps \ {"idle"} /\ UNCHANGED <<session, known>> /\ store' \subseteq store /\ h \in Process
    BY <1>0, <1>6 DEF ConsumeFails, AcceptFails, Connect, Disconnect, auth, Steps
  <2>3. where = "open" => ~ proc[h].ended /\ Client_(h) # NoClient
    BY <2>1 DEF AdmissionOK
  <2> QED BY <2>1, <2>2, <2>3, AdmissionKept
<1>7. ASSUME Restart PROVE AdmissionOK'
  <2>1. \A p \in Process : /\ proc'[p].step = IF Busy(p) THEN "done" ELSE proc[p].step
                           /\ proc'[p].session = proc[p].session /\ proc'[p].ended = proc[p].ended
    BY <1>7 DEF Restart, Types, ProcType
  <2>2. UNCHANGED <<session, store, known>>
    BY <1>7 DEF Restart, auth
  <2>3. \A h \in Socket : proc'[h].step \notin {"access", "accept", "open"}
    BY <1>0, <2>1 DEF Busy
  <2>4. \A t \in store' \cup known' : proc'[t].session \in Session
    BY <1>0, <2>1, <2>2 DEF AdmissionOK, Types
  <2>5. \A p \in Process :
          /\ proc'[p].step \notin {"idle", "refused", "done"} => proc'[p].session \in Session
          /\ proc'[p].session \in Session /\ proc'[p].ended => ~ session'[proc'[p].session].live
          /\ proc'[p].step = "idle" => ~ proc'[p].ended
    BY <2>1, <2>2 DEF AdmissionOK, Busy
  <2> QED BY <2>3, <2>4, <2>5 DEF AdmissionOK
<1>8. ASSUME NEW s \in Session, EndSession(s) \/ AssignRole(s) PROVE AdmissionOK'
  <2>1. \A u \in Session : /\ session'[u].client = session[u].client
                           /\ session'[u].live => session[u].live
    BY <1>8, SessionChanges
  <2>2. UNCHANGED <<proc, store, known>>
    BY <1>8 DEF EndSession, AssignRole
  <2>3. \A h \in Socket : proc[h].step \in {"accept", "open"} => Client_(h)' # NoClient
    BY <1>0, <2>1, <2>2 DEF Client_, AdmissionOK
  <2> QED BY <2>1, <2>2, <2>3 DEF AdmissionOK
<1>9. ASSUME NEW t \in Ticket, Expire(t) PROVE AdmissionOK'
  BY <1>1, <1>9 DEF Expire
<1>10. ASSUME NEW h \in Socket, BrowserLeaves(h) \/ Send(h) PROVE AdmissionOK'
  BY <1>1, <1>10 DEF BrowserLeaves, Send, auth
<1>11. CASE \/ Publish \/ Subscribe \/ LoseMessages \/ ListenFails \/ Receive \/ DropFailed
            \/ OtherRequest \/ UNCHANGED vars
  BY <1>1, <1>11 DEF Publish, Subscribe, LoseMessages, ListenFails, Receive, DropFailed,
                     OtherRequest, OtherBegins, OtherEnds, vars, auth
<1> QED
  BY <1>2, <1>3, <1>4, <1>5, <1>6, <1>7, <1>8, <1>9, <1>10, <1>11 DEF Next, TicketStep, SocketStep

-----------------------------------------------------------------------------
(* The pool.                                                               *)

(* A request goes on with the connection it has, or ends and gives it back.*)
LEMMA PoolKept ==
  ASSUME Types, PoolOK, NEW p \in Process, NEW where \in Steps, Go(p, where),
         \/ /\ UNCHANGED pool /\ where \notin {"idle", "done"}
            /\ where \in {"access", "set", "accept", "open"} => p \in pool
         \/ where = "done" /\ pool' = pool \ {p}
  PROVE  PoolOK'
<1>1. /\ proc'[p].step = where
      /\ \A q \in Process \ {p} : proc'[q].step = proc[q].step
  BY Going
<1>2. pool' \subseteq pool /\ pool \subseteq Process \cup Other
  BY DEF Types
<1>3. IsFiniteSet(pool') /\ Cardinality(pool') <= PoolSize
  <2>1. IsFiniteSet(pool) /\ Cardinality(pool) <= PoolSize
    BY DEF PoolOK
  <2>2. IsFiniteSet(pool') /\ Cardinality(pool') <= Cardinality(pool)
    BY <1>2, <2>1, FS_Subset
  <2>3. Cardinality(pool') \in Nat /\ Cardinality(pool) \in Nat
    BY <2>1, <2>2, FS_CardinalityType
  <2> QED BY <2>1, <2>2, <2>3, ConstantsOK
<1>4. \A q \in pool' \cap Process : Busy(q)'
  BY <1>1, <1>2 DEF PoolOK, Busy
<1>5. \A q \in Process : proc'[q].step \in {"access", "set", "accept", "open"} => q \in pool'
  BY <1>1 DEF PoolOK
<1> QED BY <1>3, <1>4, <1>5 DEF PoolOK

LEMMA NextPool == Types /\ PoolOK /\ [Next]_vars => PoolOK'
<1> SUFFICES ASSUME Types, PoolOK, [Next]_vars PROVE PoolOK'
  OBVIOUS
<1>0. Socket \subseteq Process /\ Ticket \subseteq Process
  BY DEF Process
<1>1. CASE UNCHANGED <<pool, proc>>
  BY <1>1 DEF PoolOK, Busy
<1>2. ASSUME NEW p \in Process, GetActiveUserSession(p) PROVE PoolOK'
  <2>1. PICK where \in {"access", "refused"} : Go(p, where)
    BY <1>2 DEF GetActiveUserSession
  <2>2. where \in Steps
    BY DEF Steps
  <2>3. proc'[p].step = where /\ \A q \in Process \ {p} : proc'[q].step = proc[q].step
    BY <2>1, <2>2, Going
  <2>4. pool' = pool \cup {p} /\ Cardinality(pool') <= PoolSize
    BY <1>2 DEF GetActiveUserSession
  <2>5. IsFiniteSet(pool')
    BY <2>4, FS_AddElement DEF PoolOK
  <2>6. \A q \in pool' \cap Process : Busy(q)'
    BY <2>3, <2>4 DEF PoolOK, Busy, Types
  <2> QED BY <2>3, <2>4, <2>5, <2>6 DEF PoolOK
<1>3. ASSUME NEW p \in Process, NoConnection(p) \/ ValidateAccess(p) \/ Refuse(p) PROVE PoolOK'
  <2>1. CASE ValidateAccess(p)
    <3>1. PICK where \in {"accept", "set", "refused"} : Go(p, where)
      BY <2>1 DEF ValidateAccess
    <3>2. UNCHANGED pool /\ p \in pool /\ where \in Steps
      BY <2>1 DEF ValidateAccess, PoolOK, Steps
    <3> QED BY <3>1, <3>2, PoolKept
  <2>2. CASE NoConnection(p) \/ Refuse(p)
    <3>1. Go(p, "done") /\ pool' = pool \ {p} /\ "done" \in Steps
      BY <2>2 DEF NoConnection, Refuse, End, Steps
    <3> QED BY <3>1, PoolKept
  <2> QED BY <1>3, <2>1, <2>2
<1>4. ASSUME NEW t \in Ticket, AskTicket(t) PROVE PoolOK'
  <2>1. PICK s \in Session : proc' = [proc EXCEPT ![t].step = "user", ![t].session = s]
    BY <1>4 DEF AskTicket
  <2>2. proc'[t].step = "user" /\ \A q \in Process \ {t} : proc'[q] = proc[q]
    BY <1>0, <2>1 DEF Types, ProcType
  <2>3. UNCHANGED pool
    BY <1>4 DEF AskTicket
  <2> QED BY <2>2, <2>3 DEF PoolOK, Busy, Types
<1>5. ASSUME NEW t \in Ticket, StoreTicket(t) \/ StoreFails(t) PROVE PoolOK'
  <2>1. Go(t, "done") /\ pool' = pool \ {t} /\ "done" \in Steps /\ t \in Process
    BY <1>0, <1>5 DEF StoreTicket, StoreFails, End, Steps
  <2> QED BY <2>1, PoolKept
<1>6. ASSUME NEW h \in Socket, ConsumeTicket(h) PROVE PoolOK'
  <2>1. PICK t \in known : proc' = [proc EXCEPT ![h] =
               IF t \in store THEN [step |-> "user", session |-> proc[t].session, ticket |-> t,
                                    ended |-> ~ session[proc[t].session].live]
               ELSE [Idle EXCEPT !.step = "refused"]]
    BY <1>6 DEF ConsumeTicket
  <2>2. proc'[h].step \in {"user", "refused"} /\ \A q \in Process \ {h} : proc'[q] = proc[q]
    BY <1>0, <2>1 DEF Types, Idle
  <2>3. UNCHANGED pool
    BY <1>6 DEF ConsumeTicket
  <2> QED BY <2>2, <2>3 DEF PoolOK, Busy, Types
<1>7. ASSUME NEW h \in Socket, ConsumeFails(h) \/ Connect(h) PROVE PoolOK'
  <2>1. PICK where \in {"refused", "open"} : Go(h, where) /\ (where = "open" => proc[h].step = "accept")
    BY <1>7 DEF ConsumeFails, Connect
  <2>2. UNCHANGED pool /\ where \in Steps /\ h \in Process
    BY <1>0, <1>7 DEF ConsumeFails, Connect, Steps
  <2>3. where = "open" => h \in pool
    BY <2>1, <2>2 DEF PoolOK
  <2> QED BY <2>1, <2>2, <2>3, PoolKept
<1>8. ASSUME NEW h \in Socket, AcceptFails(h) \/ Disconnect(h) PROVE PoolOK'
  <2>1. Go(h, "done") /\ pool' = pool \ {h} /\ "done" \in Steps /\ h \in Process
    BY <1>0, <1>8 DEF AcceptFails, Disconnect, End, Steps
  <2> QED BY <2>1, PoolKept
<1>9. ASSUME Restart PROVE PoolOK'
  <2>1. pool' = {} /\ \A p \in Process : proc'[p].step = IF Busy(p) THEN "done" ELSE proc[p].step
    BY <1>9 DEF Restart, Types, ProcType
  <2>2. IsFiniteSet(pool') /\ Cardinality(pool') = 0
    BY <2>1, FS_EmptySet
  <2> QED BY <2>1, <2>2, ConstantsOK DEF PoolOK, Busy
<1>10. ASSUME NEW s \in Session, EndSession(s) \/ AssignRole(s) PROVE PoolOK'
  BY <1>1, <1>10 DEF EndSession, AssignRole
<1>11. ASSUME NEW t \in Ticket, Expire(t) PROVE PoolOK'
  BY <1>1, <1>11 DEF Expire
<1>12. ASSUME NEW h \in Socket, BrowserLeaves(h) \/ Send(h) PROVE PoolOK'
  BY <1>1, <1>12 DEF BrowserLeaves, Send
<1>13. CASE Publish \/ Subscribe \/ LoseMessages \/ ListenFails \/ Receive \/ DropFailed \/ UNCHANGED vars
  BY <1>1, <1>13 DEF Publish, Subscribe, LoseMessages, ListenFails, Receive, DropFailed, vars
<1>14. ASSUME NEW o \in Other, OtherBegins(o) PROVE PoolOK'
  <2>1. /\ pool' = pool \cup {o} /\ Cardinality(pool') <= PoolSize /\ proc' = proc
        /\ o \notin Process
    BY <1>14, ConstantsOK DEF OtherBegins, Process
  <2>2. IsFiniteSet(pool')
    BY <2>1, FS_AddElement DEF PoolOK
  <2> QED BY <2>1, <2>2 DEF PoolOK, Busy
<1>15. ASSUME NEW o \in Other, OtherEnds(o) PROVE PoolOK'
  <2>1. pool' = pool \ {o} /\ proc' = proc /\ o \notin Process
    BY <1>15, ConstantsOK DEF OtherEnds, Process
  <2>2. IsFiniteSet(pool) /\ Cardinality(pool) <= PoolSize
    BY DEF PoolOK
  <2>3. IsFiniteSet(pool') /\ Cardinality(pool') <= Cardinality(pool)
    BY <2>1, <2>2, FS_Subset
  <2>4. Cardinality(pool') \in Nat /\ Cardinality(pool) \in Nat
    BY <2>2, <2>3, FS_CardinalityType
  <2>5. Cardinality(pool') <= PoolSize
    BY <2>2, <2>3, <2>4, ConstantsOK
  <2> QED BY <2>1, <2>3, <2>5 DEF PoolOK, Busy
<1> QED
  BY <1>2, <1>3, <1>4, <1>5, <1>6, <1>7, <1>8, <1>9, <1>10, <1>11, <1>12, <1>13, <1>14, <1>15
     DEF Next, RequestStep, TicketStep, SocketStep, OtherRequest

-----------------------------------------------------------------------------
(* Registered sockets.                                                     *)

(* A step of a handler that does not open or close its socket.             *)
LEMMA SocketsKept ==
  ASSUME Types, SocketsOK, UNCHANGED <<session, connections, sub, got>>, up' \subseteq up,
         \A h \in Socket :
           /\ proc[h].step \in {"open", "done"} => proc'[h] = proc[h]
           /\ proc'[h].step = "open" => proc[h].step = "open"
  PROVE  SocketsOK'
<1>1. connections = connections' /\ \A c \in DOMAIN connections : connections[c] \subseteq Socket
  BY DEF Types
<1>2. \A h \in Socket : proc'[h].step = "open" => proc[h].step = "open" /\ proc'[h] = proc[h]
  OBVIOUS
<1>3. \A h \in up' : proc'[h].step = "open" => h \in Registered(Client_(h))'
  BY <1>2 DEF SocketsOK, RegisteredAreOpen, Registered, Client_, Types
<1>4. \A c \in DOMAIN connections' :
        connections'[c] # {} /\ \A h \in connections'[c] : proc'[h].step = "open" /\ Client_(h)' = c
  BY <1>1 DEF SocketsOK, RegisteredAreOpen, Client_
<1>5. RegisteredAreOpen'
  BY <1>3, <1>4 DEF RegisteredAreOpen
<1> QED BY <1>5 DEF SocketsOK

LEMMA NextSockets == Types /\ AdmissionOK /\ SocketsOK /\ [Next]_vars => SocketsOK'
<1> SUFFICES ASSUME Types, AdmissionOK, SocketsOK, [Next]_vars PROVE SocketsOK'
  OBVIOUS
<1>0. Socket \subseteq Process /\ Ticket \subseteq Process /\ Ticket \cap Socket = {}
  BY ConstantsOK DEF Process
<1>1. CASE UNCHANGED <<session, connections, sub, got, proc>> /\ up' \subseteq up
  BY <1>1, SocketsKept
<1>2. ASSUME NEW p \in Process, RequestStep(p) PROVE SocketsOK'
  <2>1. PICK where \in Steps \ {"open"} : Go(p, where) /\ proc[p].step \notin {"open", "done"}
    BY <1>2 DEF RequestStep, GetActiveUserSession, NoConnection, ValidateAccess, Refuse, End, Steps
  <2>2. proc'[p].step = where /\ \A q \in Process \ {p} : proc'[q] = proc[q]
    BY <2>1 DEF Go, Types, ProcType
  <2>3. UNCHANGED <<session, connections, sub, got, up>>
    BY <1>2 DEF RequestStep, GetActiveUserSession, NoConnection, ValidateAccess, Refuse, auth, feed
  <2> QED BY <1>0, <2>1, <2>2, <2>3, SocketsKept
<1>3. ASSUME NEW t \in Ticket, TicketStep(t) PROVE SocketsOK'
  <2>1. \A h \in Socket : proc'[h] = proc[h]
    BY <1>0, <1>3 DEF TicketStep, AskTicket, StoreTicket, StoreFails, Expire, End, Go, Types
  <2>2. UNCHANGED <<session, connections, sub, got, up>>
    BY <1>3 DEF TicketStep, AskTicket, StoreTicket, StoreFails, Expire, auth, feed
  <2> QED BY <2>1, <2>2, SocketsKept
<1>4. ASSUME NEW h \in Socket, ConsumeTicket(h) \/ ConsumeFails(h) \/ AcceptFails(h) PROVE SocketsOK'
  <2>1. proc[h].step \notin {"open", "done"} /\ UNCHANGED <<session, connections, sub, got, up>>
    BY <1>4 DEF ConsumeTicket, ConsumeFails, AcceptFails, auth, feed
  <2>2. proc'[h].step # "open" /\ \A q \in Process \ {h} : proc'[q] = proc[q]
    <3>1. CASE ConsumeTicket(h)
      <4>1. PICK t \in known : proc' = [proc EXCEPT ![h] =
               IF t \in store THEN [step |-> "user", session |-> proc[t].session, ticket |-> t,
                                    ended |-> ~ session[proc[t].session].live]
               ELSE [Idle EXCEPT !.step = "refused"]]
        BY <3>1 DEF ConsumeTicket
      <4> QED BY <1>0, <4>1 DEF Types, Idle
    <3>2. CASE ConsumeFails(h) \/ AcceptFails(h)
      BY <1>0, <3>2 DEF ConsumeFails, AcceptFails, End, Go, Types, ProcType
    <3> QED BY <1>4, <3>1, <3>2
  <2> QED BY <1>0, <2>1, <2>2, SocketsKept
<1>5. ASSUME NEW h \in Socket, Connect(h) PROVE SocketsOK'
  <2> DEFINE c == Client_(h)
  <2>1. /\ proc[h].step = "accept" /\ h \in up
        /\ proc'[h].step = "open" /\ proc'[h].session = proc[h].session
        /\ \A q \in Process \ {h} : proc'[q] = proc[q]
        /\ UNCHANGED <<session, sub, got, up>>
    BY <1>0, <1>5 DEF Connect, Go, Types, ProcType, auth, feed
  <2>2. /\ DOMAIN connections' = DOMAIN connections \cup {c}
        /\ connections'[c] = Registered(c) \cup {h}
        /\ \A k \in DOMAIN connections \ {c} : connections'[k] = connections[k]
    BY <1>5 DEF Connect
  <2>3. \A g \in Socket : proc[g].step \in {"open", "accept"} => Client_(g)' = Client_(g)
    BY <1>0, <2>1 DEF Client_
  <2>4. \A k \in DOMAIN connections' :
          /\ connections'[k] # {}
          /\ \A g \in connections'[k] : proc'[g].step = "open" /\ Client_(g)' = k
    <3> SUFFICES ASSUME NEW k \in DOMAIN connections'
                 PROVE  /\ connections'[k] # {}
                        /\ \A g \in connections'[k] : proc'[g].step = "open" /\ Client_(g)' = k
      OBVIOUS
    <3>1. \A g \in Registered(k) : g \in Socket /\ proc'[g].step = "open" /\ Client_(g)' = k
      <4> SUFFICES ASSUME NEW g \in Registered(k)
                   PROVE  g \in Socket /\ proc'[g].step = "open" /\ Client_(g)' = k
        OBVIOUS
      <4>1. g \in Socket /\ proc[g].step = "open" /\ Client_(g) = k
        BY DEF Registered, SocketsOK, RegisteredAreOpen, Types
      <4> QED BY <1>0, <2>1, <2>3, <4>1
    <3>2. connections'[k] = IF k = c THEN Registered(k) \cup {h} ELSE Registered(k)
      BY <2>2 DEF Registered
    <3>3. k # c => Registered(k) # {}
      BY <2>2 DEF Registered, SocketsOK, RegisteredAreOpen
    <3> QED BY <2>1, <2>3, <3>1, <3>2, <3>3
  <2>5. \A g \in up : proc'[g].step = "open" => g \in Registered(Client_(g))'
    <3> SUFFICES ASSUME NEW g \in up, proc'[g].step = "open" PROVE g \in Registered(Client_(g))'
      OBVIOUS
    <3>1. CASE g = h
      BY <2>1, <2>2, <2>3, <3>1 DEF Registered
    <3>2. CASE g # h
      <4>1. g \in Socket /\ proc[g].step = "open" /\ Client_(g)' = Client_(g)
        BY <1>0, <2>1, <2>3, <3>2 DEF Types
      <4>2. g \in Registered(Client_(g))
        BY <4>1 DEF SocketsOK, RegisteredAreOpen
      <4> QED BY <2>2, <4>1, <4>2 DEF Registered
    <3> QED BY <3>1, <3>2
  <2>6. RegisteredAreOpen'
    BY <2>1, <2>4, <2>5 DEF RegisteredAreOpen
  <2> QED BY <1>0, <2>1, <2>6 DEF SocketsOK
<1>6. ASSUME NEW h \in Socket, BrowserLeaves(h) PROVE SocketsOK'
  BY <1>1, <1>6 DEF BrowserLeaves, auth, feed
<1>7. ASSUME NEW c, NEW gone, gone \cap up = {}, UNCHANGED <<session, up, got>>,
             connections' = Without(connections, c, gone),
             sub'.failed \cap up = {}, sub'.todo \subseteq sub'.all, sub'.failed \subseteq sub'.all,
             sub'.all \subseteq sub.all,
             \A h \in Socket : /\ proc[h].step # "open" => proc'[h] = proc[h]
                               /\ proc[h].step = "open" /\ proc'[h] # proc[h] =>
                                    proc'[h].step = "done" /\ h \notin up /\ h \in gone /\ Client_(h) = c
      PROVE  SocketsOK'
  <2> DEFINE rest == connections[c] \ gone
  <2>1. \A k \in DOMAIN connections' : /\ k \in DOMAIN connections /\ connections'[k] # {}
                                       /\ connections'[k] = IF k = c THEN rest ELSE connections[k]
    BY <1>7 DEF Without, SocketsOK, RegisteredAreOpen
  <2>2. \A g \in Socket : proc'[g].step = "open" => proc'[g] = proc[g] /\ Client_(g)' = Client_(g)
    BY <1>7 DEF Client_
  <2>3. \A k \in DOMAIN connections' : \A g \in connections'[k] :
          proc'[g].step = "open" /\ Client_(g)' = k
    <3> SUFFICES ASSUME NEW k \in DOMAIN connections', NEW g \in connections'[k]
                 PROVE  proc'[g].step = "open" /\ Client_(g)' = k
      OBVIOUS
    <3>1. g \in connections[k] /\ k \in DOMAIN connections /\ (k = c => g \notin gone)
      BY <2>1
    <3>2. g \in Socket /\ proc[g].step = "open" /\ Client_(g) = k
      BY <3>1 DEF Types, SocketsOK, RegisteredAreOpen
    <3>3. proc'[g] = proc[g]
      BY <1>7, <3>1, <3>2
    <3> QED BY <2>2, <3>2, <3>3
  <2>4. \A g \in up : proc'[g].step = "open" => g \in Registered(Client_(g))'
    <3> SUFFICES ASSUME NEW g \in up, proc'[g].step = "open" PROVE g \in Registered(Client_(g))'
      OBVIOUS
    <3>1. g \in Socket /\ proc[g].step = "open" /\ Client_(g)' = Client_(g) /\ g \notin gone
      BY <1>7, <2>2 DEF Types
    <3>2. g \in Registered(Client_(g))
      BY <3>1 DEF SocketsOK, RegisteredAreOpen
    <3>3. Client_(g) \in DOMAIN connections /\ g \in connections[Client_(g)]
      BY <3>2 DEF Registered
    <3>4. Client_(g) \in DOMAIN connections' /\ g \in connections'[Client_(g)]
      BY <1>7, <3>1, <3>3 DEF Without
    <3> QED BY <3>1, <3>4 DEF Registered
  <2>5. RegisteredAreOpen'
    BY <1>7, <2>1, <2>3, <2>4 DEF RegisteredAreOpen
  <2>6. \A h \in Socket : h \in sub'.all \/ got'[h] # <<>> => proc'[h].step \in {"open", "done"}
    BY <1>7 DEF SocketsOK
  <2> QED BY <1>7, <2>5, <2>6 DEF SocketsOK
<1>8. ASSUME NEW h \in Socket, Disconnect(h) PROVE SocketsOK'
  <2>1. /\ proc[h].step = "open" /\ h \notin up
        /\ proc'[h].step = "done" /\ \A q \in Process \ {h} : proc'[q] = proc[q]
        /\ connections' = Without(connections, Client_(h), {h})
        /\ UNCHANGED <<session, up, got, sub>>
    BY <1>0, <1>8 DEF Disconnect, End, Go, Types, ProcType, auth, feed
  <2>2. /\ sub'.failed \cap up = {} /\ sub'.todo \subseteq sub'.all
        /\ sub'.failed \subseteq sub'.all /\ sub'.all \subseteq sub.all
    BY <2>1 DEF SocketsOK
  <2>3. {h} \cap up = {}
    BY <2>1
  <2>4. \A g \in Socket : /\ proc[g].step # "open" => proc'[g] = proc[g]
                          /\ proc[g].step = "open" /\ proc'[g] # proc[g] =>
                               proc'[g].step = "done" /\ g \notin up /\ g \in {h} /\ Client_(g) = Client_(h)
    BY <1>0, <2>1
  <2> QED BY <1>7, <2>1, <2>2, <2>3, <2>4
<1>9. ASSUME DropFailed PROVE SocketsOK'
  <2>1. /\ connections' = Without(connections, published[sub.msg], sub.failed)
        /\ sub' = [Waiting EXCEPT !.step = "listen"]
        /\ UNCHANGED <<session, up, got, proc>>
    BY <1>9 DEF DropFailed, auth
  <2>2. sub'.failed = {} /\ sub'.todo = {} /\ sub'.all = {} /\ sub.failed \cap up = {}
    BY <2>1 DEF Waiting, SocketsOK
  <2> QED BY <1>7, <2>1, <2>2
<1>10. ASSUME NEW h \in Socket, Send(h) PROVE SocketsOK'
  <2>1. /\ h \in sub.todo /\ UNCHANGED <<session, connections, proc, up>>
        /\ sub'.all = sub.all /\ sub'.todo = sub.todo \ {h}
        /\ sub'.failed = sub.failed \/ (h \notin up /\ sub'.failed = sub.failed \cup {h})
        /\ \A g \in Socket \ {h} : got'[g] = got[g]
    <3>1. sub \in SubType /\ got \in [Socket -> Seq(Nat)]
      BY DEF Types
    <3>2. CASE sub' = [sub EXCEPT !.todo = sub.todo \ {h}] /\ Sent(h)
      BY <1>10, <3>1, <3>2 DEF Send, Sent, SubType, auth
    <3>3. CASE /\ h \notin up /\ got' = got
               /\ sub' = [sub EXCEPT !.todo = sub.todo \ {h}, !.failed = sub.failed \cup {h}]
      BY <1>10, <3>1, <3>3 DEF Send, SubType, auth
    <3> QED BY <1>10, <3>2, <3>3 DEF Send
  <2>2. RegisteredAreOpen'
    BY <2>1 DEF SocketsOK, RegisteredAreOpen, Registered, Client_
  <2> QED BY <2>1, <2>2 DEF SocketsOK
<1>11. ASSUME Receive PROVE SocketsOK'
  <2> DEFINE all == Registered(published[Head(inbox)])
  <2>1. /\ UNCHANGED <<session, connections, proc, up, got>>
        /\ \/ sub' = sub
           \/ sub'.all = all /\ sub'.todo = all /\ sub'.failed = {}
    BY <1>11 DEF Receive, auth
  <2>2. RegisteredAreOpen'
    BY <2>1 DEF SocketsOK, RegisteredAreOpen, Registered, Client_
  <2>3. \A h \in all : proc[h].step = "open"
    BY DEF Registered, SocketsOK, RegisteredAreOpen
  <2> QED BY <2>1, <2>2, <2>3 DEF SocketsOK
<1>12. ASSUME Subscribe \/ ListenFails PROVE SocketsOK'
  <2>1. /\ UNCHANGED <<session, connections, proc, up, got>>
        /\ \/ sub'.all = sub.all /\ sub'.todo = sub.todo /\ sub'.failed = sub.failed
           \/ sub'.all = {} /\ sub'.todo = {} /\ sub'.failed = {}
    BY <1>12 DEF Subscribe, ListenFails, Waiting, Types, SubType, auth
  <2>2. RegisteredAreOpen'
    BY <2>1 DEF SocketsOK, RegisteredAreOpen, Registered, Client_
  <2> QED BY <2>1, <2>2 DEF SocketsOK
<1>13. ASSUME Restart PROVE SocketsOK'
  <2>1. /\ \A p \in Process : proc'[p].step = IF Busy(p) THEN "done" ELSE proc[p].step
        /\ DOMAIN connections' = {} /\ sub' = Waiting /\ UNCHANGED <<up, got>>
    BY <1>13 DEF Restart, Types, ProcType
  <2>2. \A h \in Socket : proc'[h].step # "open"
    BY <1>0, <2>1 DEF Busy
  <2>3. RegisteredAreOpen'
    BY <2>1, <2>2 DEF RegisteredAreOpen, Types
  <2> QED BY <1>0, <2>1, <2>3 DEF SocketsOK, Waiting, Busy
<1>14. ASSUME NEW s \in Session, EndSession(s) \/ AssignRole(s) PROVE SocketsOK'
  <2>1. UNCHANGED <<connections, sub, got, proc, up>>
    BY <1>14 DEF EndSession, AssignRole, feed
  <2>2. \A h \in Socket : proc[h].step = "open" => Client_(h)' = Client_(h)
    <3>1. \A u \in Session : session'[u].client = session[u].client
      BY <1>14, SessionChanges
    <3>2. \A h \in Socket : proc[h].step = "open" => proc[h].session \in Session
      BY <1>0 DEF AdmissionOK
    <3> QED BY <2>1, <3>1, <3>2 DEF Client_
  <2>3. RegisteredAreOpen'
    BY <2>1, <2>2 DEF SocketsOK, RegisteredAreOpen, Registered, Types
  <2> QED BY <2>1, <2>3 DEF SocketsOK
<1>15. CASE Publish \/ LoseMessages \/ OtherRequest \/ UNCHANGED vars
  BY <1>1, <1>15 DEF Publish, LoseMessages, OtherRequest, OtherBegins, OtherEnds, vars, auth, feed
<1> QED
  BY <1>2, <1>3, <1>4, <1>5, <1>6, <1>8, <1>9, <1>10, <1>11, <1>12, <1>13, <1>14, <1>15
     DEF Next, SocketStep

-----------------------------------------------------------------------------
(* The feed.                                                               *)

(* A handler keeps its session, and a session its client.                  *)
LEMMA ClientsStay ==
  ASSUME Types, [Next]_vars
  PROVE  /\ \A u \in Session : session'[u].client = session[u].client
         /\ \A h \in Socket : proc[h].step # "idle" => proc'[h].session = proc[h].session
<1>0. Socket \subseteq Process /\ Ticket \subseteq Process /\ Ticket \cap Socket = {}
  BY ConstantsOK DEF Process
<1>1. CASE \E s \in Session : EndSession(s) \/ AssignRole(s)
  BY <1>1, SessionChanges DEF EndSession, AssignRole
<1>2. CASE UNCHANGED <<session, proc>>
  BY <1>2
<1>3. ASSUME NEW p \in Process, NEW where \in Steps, Go(p, where), UNCHANGED session
      PROVE  /\ \A u \in Session : session'[u].client = session[u].client
             /\ \A h \in Socket : proc[h].step # "idle" => proc'[h].session = proc[h].session
  BY <1>0, <1>3, Going
<1>4. ASSUME NEW p \in Process, RequestStep(p)
      PROVE  UNCHANGED session /\ \E where \in Steps : Go(p, where)
  BY <1>4 DEF RequestStep, GetActiveUserSession, NoConnection, ValidateAccess, Refuse, End, auth, Steps
<1>5. ASSUME NEW t \in Ticket, TicketStep(t)
      PROVE  UNCHANGED session /\ \A h \in Socket : proc'[h] = proc[h]
  BY <1>0, <1>5 DEF TicketStep, AskTicket, StoreTicket, StoreFails, Expire, End, Go, Types, auth
<1>6. ASSUME NEW h \in Socket, ConsumeTicket(h)
      PROVE  /\ UNCHANGED session /\ proc[h].step = "idle"
             /\ \A g \in Socket \ {h} : proc'[g] = proc[g]
  BY <1>0, <1>6 DEF ConsumeTicket, Types
<1>7. ASSUME NEW h \in Socket, ConsumeFails(h) \/ Connect(h) \/ AcceptFails(h) \/ Disconnect(h)
      PROVE  UNCHANGED session /\ \E where \in Steps : Go(h, where)
  BY <1>7 DEF ConsumeFails, Connect, AcceptFails, Disconnect, End, auth, Steps
<1>8. CASE \/ \E h \in Socket : BrowserLeaves(h) \/ Send(h)
           \/ Publish \/ Subscribe \/ LoseMessages \/ ListenFails \/ Receive \/ DropFailed
           \/ OtherRequest \/ UNCHANGED vars
  BY <1>2, <1>8 DEF BrowserLeaves, Send, Publish, Subscribe, LoseMessages, ListenFails, Receive,
                    DropFailed, OtherRequest, OtherBegins, OtherEnds, vars, auth
<1>9. CASE Restart
  BY <1>0, <1>9 DEF Restart, Types, ProcType, auth
<1>10. CASE \E p \in Process : RequestStep(p)
  BY <1>3, <1>4, <1>10
<1>11. CASE \E t \in Ticket : TicketStep(t)
  BY <1>5, <1>11
<1>12. CASE \E h \in Socket : ConsumeTicket(h)
  BY <1>6, <1>12
<1>13. CASE \E h \in Socket : ConsumeFails(h) \/ Connect(h) \/ AcceptFails(h) \/ Disconnect(h)
  BY <1>0, <1>3, <1>7, <1>13
<1> QED BY <1>1, <1>8, <1>9, <1>10, <1>11, <1>12, <1>13 DEF Next, SocketStep

LEMMA HearersStay ==
  ASSUME Types, SocketsOK, FeedOK, [Next]_vars
  PROVE  \A h \in Socket : Hears(h) => Client_(h)' = Client_(h) /\ proc'[h].session \in Session
BY ClientsStay DEF Hears, SocketsOK, FeedOK, Client_

LEMMA NextFeed == Types /\ AdmissionOK /\ SocketsOK /\ FeedOK /\ [Next]_vars => FeedOK'
<1> SUFFICES ASSUME Types, AdmissionOK, SocketsOK, FeedOK, [Next]_vars PROVE FeedOK'
  OBVIOUS
<1> DEFINE N == Len(published)
<1>0. /\ inbox \in Seq(Nat) /\ published \in Seq(Client \cup {NoClient}) /\ got \in [Socket -> Seq(Nat)]
      /\ N \in Nat /\ Len(inbox) \in Nat /\ \A h \in Socket : Len(got[h]) \in Nat
      /\ sub \in SubType
  BY DEF Types
<1>1. \A h \in Socket : Hears(h) => Client_(h)' = Client_(h) /\ proc'[h].session \in Session
  BY HearersStay
<1>2. ASSUME UNCHANGED <<published, got>>, sub'.all \subseteq sub.all, inbox' \in Seq(Nat),
             \/ Len(inbox') <= Len(inbox) /\ \A j \in 1 .. Len(inbox') : inbox'[j] = inbox[j]
             \/ Len(inbox') + 1 = Len(inbox) /\ \A j \in 1 .. Len(inbox') : inbox'[j] = inbox[j + 1],
             sub'.step = "retry" => inbox' = <<>>,
             sub' = sub \/ sub'.step # "send"
      PROVE  FeedOK'
  <2>0. PICK d \in {0, 1} : \A j \in 1 .. Len(inbox') : j + d \in 1 .. Len(inbox) /\ inbox'[j] = inbox[j + d]
    <3>1. Len(inbox') \in Nat
      BY <1>2
    <3>2. CASE Len(inbox') <= Len(inbox) /\ \A j \in 1 .. Len(inbox') : inbox'[j] = inbox[j]
      <4>1. \A j \in 1 .. Len(inbox') : j + 0 \in 1 .. Len(inbox) /\ inbox'[j] = inbox[j + 0]
        BY <1>0, <3>1, <3>2
      <4> QED BY <4>1
    <3>3. CASE Len(inbox') + 1 = Len(inbox) /\ \A j \in 1 .. Len(inbox') : inbox'[j] = inbox[j + 1]
      <4>1. \A j \in 1 .. Len(inbox') : j + 1 \in 1 .. Len(inbox) /\ inbox'[j] = inbox[j + 1]
        BY <1>0, <3>1, <3>3
      <4> QED BY <4>1
    <3> QED BY <1>2, <3>2, <3>3
  <2>1. InboxOK'
    <3>1. \A i \in 1 .. Len(inbox') : inbox'[i] \in 1 .. Len(published')
      BY <1>2, <2>0 DEF FeedOK, InboxOK
    <3>2. \A i, j \in 1 .. Len(inbox') : i < j => inbox'[i] < inbox'[j]
      <4> SUFFICES ASSUME NEW i \in 1 .. Len(inbox'), NEW j \in 1 .. Len(inbox'), i < j
                   PROVE  inbox'[i] < inbox'[j]
        OBVIOUS
      <4>1. i + d \in 1 .. Len(inbox) /\ j + d \in 1 .. Len(inbox) /\ i + d < j + d
        BY <1>2, <2>0
      <4> QED BY <2>0, <4>1 DEF FeedOK, InboxOK
    <3> QED BY <1>2, <3>1, <3>2 DEF InboxOK
  <2>2. DispatchOK'
    <3> SUFFICES ASSUME sub'.step = "send" PROVE DispatchOK'
      BY DEF DispatchOK
    <3>1. sub' = sub
      BY <1>2
    <3>2. \A h \in sub.all : h \in Socket /\ Hears(h)
      BY DEF Types, SubType, Hears
    <3>3. \A h \in sub.all : published[sub.msg] = Client_(h)'
      BY <1>1, <3>1, <3>2 DEF FeedOK, DispatchOK
    <3>4. \A j \in 1 .. Len(inbox') : sub.msg < inbox'[j]
      BY <2>0, <3>1 DEF FeedOK, DispatchOK
    <3> QED BY <1>2, <3>1, <3>3, <3>4 DEF FeedOK, DispatchOK
  <2>3. ASSUME NEW h \in Socket PROVE GotOK(h)'
    <3>1. got[h] # <<>> => Client_(h)' = Client_(h)
      BY <1>1 DEF Hears
    <3>2. \A i \in 1 .. Len(got[h]) : \A j \in 1 .. Len(inbox') : got[h][i] < inbox'[j]
      BY <1>2, <2>0 DEF FeedOK, GotOK
    <3>3. \A i \in 1 .. Len(got[h]) : got[h] # <<>>
      BY <1>0
    <3> QED BY <1>2, <3>1, <3>2, <3>3 DEF FeedOK, GotOK
  <2>4. \A h \in Socket : Hears(h)' => proc'[h].session \in Session
    BY <1>1, <1>2 DEF Hears
  <2> QED BY <2>1, <2>2, <2>3, <2>4 DEF FeedOK
<1>3. CASE UNCHANGED feed
  <2>1. UNCHANGED <<sub, inbox, published, got>> /\ (sub.step = "retry" => inbox = <<>>)
    BY <1>3 DEF feed, FeedOK, InboxOK
  <2> QED BY <1>0, <1>2, <2>1
<1>4. CASE LoseMessages
  <2>1. PICK n \in 0 .. Len(inbox) - 1 : inbox' = SubSeq(inbox, 1, n)
    BY <1>4 DEF LoseMessages
  <2>2. inbox' \in Seq(Nat) /\ Len(inbox') = n /\ \A j \in 1 .. n : inbox'[j] = inbox[j]
    BY <1>0, <2>1
  <2>3. UNCHANGED <<published, got, sub>> /\ sub.step # "retry"
    BY <1>4 DEF LoseMessages
  <2> QED BY <1>0, <1>2, <2>2, <2>3
<1>5. CASE ListenFails \/ Restart
  <2>1. inbox' = <<>> /\ UNCHANGED <<published, got>> /\ sub' = Waiting
    BY <1>5 DEF ListenFails, Restart
  <2>2. sub'.all = {} /\ sub'.step # "send"
    BY <2>1 DEF Waiting
  <2> QED BY <1>0, <1>2, <2>1, <2>2
<1>6. CASE Subscribe \/ DropFailed
  <2>1. UNCHANGED <<published, got, inbox>>
    BY <1>6 DEF Subscribe, DropFailed
  <2>2. sub'.step = "listen" /\ sub'.all \subseteq sub.all
    BY <1>0, <1>6 DEF Subscribe, DropFailed, Waiting, SubType
  <2> QED BY <1>0, <1>2, <2>1, <2>2
<1>7. CASE Receive
  <2> DEFINE all == Registered(published[Head(inbox)])
  <2>1. UNCHANGED <<published, got, session, proc>> /\ inbox # <<>> /\ sub.step = "listen"
    BY <1>7 DEF Receive, auth
  <2>2. /\ inbox' = Tail(inbox) /\ inbox' \in Seq(Nat) /\ Len(inbox') + 1 = Len(inbox)
        /\ Head(inbox) = inbox[1] /\ \A j \in 1 .. Len(inbox') : inbox'[j] = inbox[j + 1]
    BY <1>0, <1>7, <2>1 DEF Receive
  <2>3. CASE sub' = sub
    BY <1>0, <1>2, <2>1, <2>2, <2>3
  <2>4. CASE sub' = [step |-> "send", msg |-> Head(inbox), all |-> all, todo |-> all, failed |-> {}]
    <3>1. \A h \in all : /\ h \in Socket /\ proc[h].step = "open" /\ Client_(h) = published[inbox[1]]
                         /\ proc[h].session \in Session
      <4> SUFFICES ASSUME NEW h \in all
                   PROVE  /\ h \in Socket /\ proc[h].step = "open" /\ Client_(h) = published[inbox[1]]
                          /\ proc[h].session \in Session
        OBVIOUS
      <4> DEFINE c == published[inbox[1]]
      <4>1. c \in DOMAIN connections /\ h \in connections[c]
        BY <2>2 DEF Registered
      <4> HIDE DEF c, all
      <4>2. proc[h].step = "open" /\ Client_(h) = c
        BY <4>1 DEF SocketsOK, RegisteredAreOpen
      <4>3. h \in Socket /\ h \in Process
        BY <4>1 DEF Types, Process
      <4>4. proc[h].session \in Session
        BY <4>2, <4>3 DEF AdmissionOK
      <4> QED BY <4>2, <4>3, <4>4 DEF c
    <3>2. \A h \in Socket : Client_(h)' = Client_(h)
      BY <2>1 DEF Client_
    <3>3. InboxOK'
      BY <1>0, <2>1, <2>2, <2>4 DEF FeedOK, InboxOK
    <3>4. \A j \in 1 .. Len(inbox') : inbox[1] < inbox'[j]
      BY <1>0, <2>2 DEF FeedOK, InboxOK
    <3>5. inbox[1] \in 1 .. N
      BY <1>0, <2>1, <2>2 DEF FeedOK, InboxOK
    <3>6. DispatchOK'
      BY <2>1, <2>2, <2>4, <3>1, <3>2, <3>4, <3>5 DEF DispatchOK
    <3>7. ASSUME NEW h \in Socket PROVE GotOK(h)'
      <4>1. \A i \in 1 .. Len(got[h]) : /\ got[h][i] < inbox[1] /\ got[h][i] \in Nat
                                        /\ \A j \in 1 .. Len(inbox') : got[h][i] < inbox'[j]
        BY <1>0, <2>1, <2>2 DEF FeedOK, GotOK
      <4> QED BY <1>0, <2>1, <2>2, <2>4, <3>2, <3>5, <4>1 DEF FeedOK, GotOK
    <3>8. \A h \in Socket : Hears(h)' => proc'[h].session \in Session
      BY <2>1, <2>4, <3>1 DEF Hears, FeedOK
    <3> QED BY <3>3, <3>6, <3>7, <3>8 DEF FeedOK
  <2> QED BY <1>7, <2>3, <2>4 DEF Receive
<1>8. ASSUME NEW c \in Client \cup {NoClient}, published' = Append(published, c),
             inbox' = IF sub.step = "retry" THEN inbox ELSE Append(inbox, Len(published')),
             UNCHANGED <<session, proc, sub, got>>
      PROVE  FeedOK'
  <2>1. Len(published') = N + 1 /\ \A i \in 1 .. N : published'[i] = published[i]
    BY <1>0, <1>8
  <2>2. \A h \in Socket : Client_(h)' = Client_(h)
    BY <1>8 DEF Client_
  <2>3. /\ Len(inbox') \in {Len(inbox), Len(inbox) + 1}
        /\ \A j \in 1 .. Len(inbox') : inbox'[j] = IF j \in 1 .. Len(inbox) THEN inbox[j] ELSE N + 1
        /\ \A j \in 1 .. Len(inbox') : j \in 1 .. Len(inbox) \/ j = Len(inbox) + 1
    BY <1>0, <1>8, <2>1
  <2>4. InboxOK'
    <3>1. sub'.step = "retry" => inbox' = <<>>
      BY <1>8 DEF FeedOK, InboxOK
    <3>2. \A i \in 1 .. Len(inbox') : inbox'[i] \in 1 .. Len(published')
      BY <1>0, <2>1, <2>3 DEF FeedOK, InboxOK
    <3>3. \A i, j \in 1 .. Len(inbox') : i < j => inbox'[i] < inbox'[j]
      BY <1>0, <2>1, <2>3 DEF FeedOK, InboxOK
    <3> QED BY <3>1, <3>2, <3>3 DEF InboxOK
  <2>5. DispatchOK'
    <3> SUFFICES ASSUME sub.step = "send" PROVE DispatchOK'
      BY <1>8 DEF DispatchOK
    <3>1. sub.msg \in 1 .. N /\ published'[sub.msg] = published[sub.msg]
      BY <2>1 DEF FeedOK, DispatchOK
    <3>2. sub.msg \in 1 .. Len(published')
      BY <1>0, <2>1, <3>1
    <3>3. \A j \in 1 .. Len(inbox') : sub.msg < inbox'[j]
      BY <1>0, <2>3, <3>1 DEF FeedOK, DispatchOK
    <3>4. \A h \in sub.all : h \in Socket /\ published'[sub.msg] = Client_(h)'
      BY <1>0, <2>2, <3>1 DEF FeedOK, DispatchOK, SubType
    <3> QED BY <1>8, <3>2, <3>3, <3>4 DEF FeedOK, DispatchOK
  <2>6. ASSUME NEW h \in Socket PROVE GotOK(h)'
    <3> SUFFICES ASSUME NEW i \in 1 .. Len(got[h])
                 PROVE  /\ got[h][i] \in 1 .. N + 1 /\ published'[got[h][i]] = Client_(h)
                        /\ i > 1 => got[h][i - 1] < got[h][i]
                        /\ \A j \in 1 .. Len(inbox') : got[h][i] < inbox'[j]
                        /\ sub.step = "send" => got[h][i] <= sub.msg
                        /\ sub.step = "send" /\ h \in sub.todo => got[h][i] < sub.msg
      BY <1>8, <2>1, <2>2 DEF GotOK
    <3>1. got[h][i] \in 1 .. N /\ published[got[h][i]] = Client_(h)
      BY DEF FeedOK, GotOK
    <3>2. \A j \in 1 .. Len(inbox') : got[h][i] < inbox'[j]
      BY <1>0, <2>3, <3>1 DEF FeedOK, GotOK
    <3> QED BY <1>0, <2>1, <3>1, <3>2 DEF FeedOK, GotOK
  <2>7. \A h \in Socket : Hears(h)' => proc'[h].session \in Session
    BY <1>8 DEF Hears, FeedOK
  <2> QED BY <2>4, <2>5, <2>6, <2>7 DEF FeedOK
<1>9. CASE Publish
  <2>1. \E c \in Client \cup {NoClient} :
          /\ published' = Append(published, c)
          /\ inbox' = IF sub.step = "retry" THEN inbox ELSE Append(inbox, Len(published'))
    BY <1>9 DEF Publish
  <2>2. UNCHANGED <<session, proc, sub, got>>
    BY <1>9 DEF Publish, auth
  <2> QED BY <1>8, <2>1, <2>2
<1>10. ASSUME NEW h \in Socket, Send(h) PROVE FeedOK'
  <2>1. /\ h \in sub.todo /\ sub.step = "send" /\ UNCHANGED <<session, proc, inbox, published>>
        /\ sub'.step = sub.step /\ sub'.msg = sub.msg /\ sub'.all = sub.all
        /\ sub'.todo = sub.todo \ {h}
        /\ \/ sub'.failed = sub.failed /\ got' = [got EXCEPT ![h] = Append(got[h], sub.msg)]
           \/ sub'.failed = sub.failed \cup {h} /\ got' = got
    <3>1. CASE sub' = [sub EXCEPT !.todo = sub.todo \ {h}] /\ Sent(h)
      BY <1>0, <1>10, <3>1 DEF Send, Sent, SubType, auth
    <3>2. CASE got' = got /\ sub' = [sub EXCEPT !.todo = sub.todo \ {h}, !.failed = sub.failed \cup {h}]
      BY <1>0, <1>10, <3>2 DEF Send, SubType, auth
    <3> QED BY <1>10, <3>1, <3>2 DEF Send
  <2>2. \A g \in Socket : Client_(g)' = Client_(g)
    BY <2>1 DEF Client_
  <2>3. h \in sub.all /\ sub.msg \in 1 .. N /\ sub.msg \in Nat /\ published[sub.msg] = Client_(h)
    BY <1>0, <2>1 DEF SocketsOK, FeedOK, DispatchOK
  <2>4. InboxOK'
    BY <2>1 DEF FeedOK, InboxOK
  <2>5. /\ \A g \in Socket \ {h} : got'[g] = got[g]
        /\ \/ got'[h] = got[h] /\ sub'.failed = sub.failed \cup {h}
           \/ /\ Len(got'[h]) = Len(got[h]) + 1 /\ got'[h][Len(got[h]) + 1] = sub.msg
              /\ \A i \in 1 .. Len(got[h]) : got'[h][i] = got[h][i]
              /\ sub'.failed = sub.failed
    <3>1. CASE sub'.failed = sub.failed /\ got' = [got EXCEPT ![h] = Append(got[h], sub.msg)]
      <4>1. got'[h] = Append(got[h], sub.msg) /\ \A g \in Socket \ {h} : got'[g] = got[g]
        BY <1>0, <3>1
      <4>2. got[h] \in Seq(Nat)
        BY <1>0
      <4> QED BY <2>3, <3>1, <4>1, <4>2
    <3> QED BY <2>1, <3>1
  <2>6. DispatchOK'
    <3>1. \A g \in sub.all \ {h} : /\ published[sub.msg] = Client_(g) /\ g \in Socket
                                   /\ g \in sub.todo \cup sub.failed \/ \E i \in 1 .. Len(got[g]) : got[g][i] = sub.msg
      BY <1>0, <2>1 DEF FeedOK, DispatchOK, SubType
    <3>2. \A g \in sub.all \ {h} : /\ published[sub.msg] = Client_(g)' /\ got'[g] = got[g]
                                   /\ g \in sub'.todo \cup sub'.failed \/ \E i \in 1 .. Len(got'[g]) : got'[g][i] = sub.msg
      BY <2>1, <2>2, <2>5, <3>1
    <3>3. h \in sub'.failed \/ \E i \in 1 .. Len(got'[h]) : got'[h][i] = sub.msg
      <4>1. Len(got[h]) \in Nat
        BY <1>0
      <4>2. Len(got'[h]) = Len(got[h]) + 1 => Len(got[h]) + 1 \in 1 .. Len(got'[h])
        BY <4>1
      <4> QED BY <2>5, <4>2
    <3> QED BY <2>1, <2>2, <2>3, <3>2, <3>3 DEF FeedOK, DispatchOK
  <2>7. ASSUME NEW g \in Socket PROVE GotOK(g)'
    <3>1. CASE g # h
      BY <2>1, <2>2, <2>5, <3>1 DEF FeedOK, GotOK
    <3>2. CASE g = h /\ got'[h] = got[h]
      BY <2>1, <2>2, <3>2 DEF FeedOK, GotOK
    <3>3. CASE /\ g = h /\ Len(got'[h]) = Len(got[h]) + 1 /\ got'[h][Len(got[h]) + 1] = sub.msg
               /\ \A i \in 1 .. Len(got[h]) : got'[h][i] = got[h][i]
      <4> SUFFICES ASSUME NEW i \in 1 .. Len(got'[h])
                   PROVE  /\ got'[h][i] \in 1 .. N /\ published[got'[h][i]] = Client_(h)
                          /\ i > 1 => got'[h][i - 1] < got'[h][i]
                          /\ \A j \in 1 .. Len(inbox) : got'[h][i] < inbox[j]
                          /\ got'[h][i] <= sub.msg
        BY <2>1, <2>2, <3>3 DEF GotOK
      <4>1. CASE i \in 1 .. Len(got[h])
        <5>1. got'[h][i] = got[h][i] /\ (i > 1 => got'[h][i - 1] = got[h][i - 1])
          <6>1. Len(got[h]) \in Nat
            BY <1>0
          <6>2. i > 1 => i - 1 \in 1 .. Len(got[h])
            BY <4>1, <6>1
          <6> QED BY <3>3, <4>1, <6>2
        <5>2. GotOK(h)
          BY DEF FeedOK
        <5>3. /\ got[h][i] \in 1 .. N /\ published[got[h][i]] = Client_(h)
              /\ i > 1 => got[h][i - 1] < got[h][i]
              /\ \A j \in 1 .. Len(inbox) : got[h][i] < inbox[j]
              /\ got[h][i] <= sub.msg
          BY <2>1, <4>1, <5>2 DEF GotOK
        <5> QED BY <5>1, <5>3
      <4>2. CASE i = Len(got[h]) + 1
        <5>1. i > 1 => got'[h][i - 1] = got[h][i - 1] /\ got[h][i - 1] < sub.msg
          <6> SUFFICES ASSUME i > 1 PROVE got'[h][i - 1] = got[h][i - 1] /\ got[h][i - 1] < sub.msg
            OBVIOUS
          <6>1. i - 1 \in 1 .. Len(got[h])
            BY <1>0, <4>2
          <6> QED BY <2>1, <3>3, <6>1 DEF FeedOK, GotOK
        <5>2. \A j \in 1 .. Len(inbox) : sub.msg < inbox[j]
          BY <2>1 DEF FeedOK, DispatchOK
        <5> QED BY <2>3, <3>3, <4>2, <5>1, <5>2
      <4> QED BY <1>0, <3>3, <4>1, <4>2
    <3> QED BY <2>5, <3>1, <3>2, <3>3
  <2>8. \A g \in Socket : Hears(g)' => proc'[g].session \in Session
    BY <2>1, <2>3, <2>5 DEF Hears, FeedOK
  <2> QED BY <2>4, <2>6, <2>7, <2>8 DEF FeedOK
<1>11. ASSUME NEW s \in Session, EndSession(s) \/ AssignRole(s) PROVE FeedOK'
  BY <1>3, <1>11 DEF EndSession, AssignRole
<1>12. ASSUME NEW p \in Process, RequestStep(p) PROVE FeedOK'
  BY <1>3, <1>12 DEF RequestStep, GetActiveUserSession, NoConnection, ValidateAccess, Refuse
<1>13. ASSUME NEW t \in Ticket, TicketStep(t) PROVE FeedOK'
  BY <1>3, <1>13 DEF TicketStep, AskTicket, StoreTicket, StoreFails, Expire
<1>14. ASSUME NEW h \in Socket, SocketStep(h) PROVE FeedOK'
  BY <1>3, <1>10, <1>14
     DEF SocketStep, ConsumeTicket, ConsumeFails, Connect, AcceptFails, BrowserLeaves, Disconnect
<1>15. CASE OtherRequest
  BY <1>3, <1>15 DEF OtherRequest, OtherBegins, OtherEnds
<1> QED
  BY <1>3, <1>4, <1>5, <1>6, <1>7, <1>9, <1>11, <1>12, <1>13, <1>14, <1>15 DEF Next, vars, feed

-----------------------------------------------------------------------------
(* The invariant and what follows from it.                                 *)

LEMMA InitIInv == Init => IInv
<1> SUFFICES ASSUME Init PROVE IInv
  OBVIOUS
<1>0. /\ \A p \in Process : proc[p] = Idle
      /\ Socket \subseteq Process /\ Ticket \subseteq Process
      /\ sub = Waiting /\ inbox = <<>> /\ pool = {}
      /\ store = {} /\ known = {} /\ connections = [c \in {} |-> {}]
      /\ \A h \in Socket : got[h] = <<>>
  BY DEF Init, Process
<1>1. Types
  BY InitTypes
<1>2. TicketsOK
  BY <1>0 DEF TicketsOK, TicketUsedOnce, Idle
<1>3. AdmissionOK
  BY <1>0 DEF AdmissionOK, Idle
<1>4. PoolOK
  BY <1>0, FS_EmptySet, ConstantsOK DEF PoolOK, Idle
<1>5. SocketsOK
  <2>1. RegisteredAreOpen
    BY <1>0 DEF RegisteredAreOpen, Idle, Init
  <2>2. sub.failed = {} /\ sub.todo = {} /\ sub.all = {}
    BY <1>0 DEF Waiting
  <2> QED BY <1>0, <2>1, <2>2 DEF SocketsOK
<1>6. FeedOK
  <2>1. InboxOK /\ DispatchOK
    BY <1>0 DEF InboxOK, DispatchOK, Waiting
  <2>2. \A h \in Socket : GotOK(h) /\ ~ Hears(h)
    BY <1>0 DEF GotOK, Hears, Waiting
  <2> QED BY <2>1, <2>2 DEF FeedOK
<1> QED BY <1>1, <1>2, <1>3, <1>4, <1>5, <1>6 DEF IInv

LEMMA Invariance == Spec => []IInv
<1>1. IInv /\ [Next]_vars => IInv'
  BY NextTypes, NextTickets, NextAdmission, NextPool, NextSockets, NextFeed DEF IInv
<1> QED BY InitIInv, <1>1, PTL DEF Spec

(* Type correctness; no client without a name has sockets.                 *)
THEOREM Typing == Spec => []TypeOK
<1>1. IInv => TypeOK
  <2> SUFFICES ASSUME IInv PROVE TypeOK
    OBVIOUS
  <2>1. DOMAIN connections \subseteq Client
    <3> SUFFICES ASSUME NEW c \in DOMAIN connections PROVE c \in Client
      OBVIOUS
    <3>1. PICK h \in connections[c] : proc[h].step = "open" /\ Client_(h) = c
      BY DEF IInv, SocketsOK, RegisteredAreOpen
    <3>2. h \in Socket /\ proc[h].session \in Session /\ c # NoClient
      BY <3>1 DEF IInv, Types, AdmissionOK, Process
    <3> QED BY <3>1, <3>2 DEF Client_, IInv, Types
  <2>2. \A h \in Socket : \A i \in 1 .. Len(got[h]) : got[h][i] \in 1 .. Len(published)
    BY DEF IInv, FeedOK, GotOK
  <2>3. sub.failed \subseteq sub.all
    BY DEF IInv, SocketsOK
  <2> QED BY <2>1, <2>2, <2>3 DEF TypeOK, IInv, Types, ProcType, SubType, SocketsOK
<1> QED BY <1>1, Invariance, PTL

(* A ticket opens one socket at most.                                      *)
THEOREM OneSocketPerTicket == Spec => []TicketUsedOnce
<1>1. IInv => TicketUsedOnce
  BY DEF IInv, TicketsOK
<1> QED BY <1>1, Invariance, PTL

(* Only sessions that were alive when the ticket was taken are admitted.   *)
THEOREM Admission == Spec => []AdmittedAlive
<1>1. IInv => AdmittedAlive
  BY DEF IInv, AdmissionOK, AdmittedAlive
<1> QED BY <1>1, Invariance, PTL

(* The pool holds no connection for a request that is over.                *)
THEOREM Connections == Spec => []PoolGivenBack
<1>1. IInv => PoolGivenBack
  BY DEF IInv, PoolOK, PoolGivenBack, Process
<1> QED BY <1>1, Invariance, PTL

(* The manager's sockets are those of the handlers that are waiting.       *)
THEOREM Registry == Spec => []RegisteredAreOpen
<1>1. IInv => RegisteredAreOpen
  BY DEF IInv, SocketsOK
<1> QED BY <1>1, Invariance, PTL

(* A socket hears of its own client only, once each and in order.          *)
THEOREM InOrder == Spec => []FeedInOrder
<1>1. IInv => FeedInOrder
  BY DEF IInv, FeedOK, GotOK, FeedInOrder
<1> QED BY <1>1, Invariance, PTL

(* A socket that fails keeps no other from the location that is being sent.*)
THEOREM Reaches == Spec => ReachesTheOthers
<1>1. IInv /\ [Next]_vars =>
        [DropFailed => \A h \in sub.all \cap up : \E i \in 1 .. Len(got[h]) : got[h][i] = sub.msg]_vars
  <2> SUFFICES ASSUME IInv, DropFailed, NEW h \in sub.all \cap up
               PROVE  \E i \in 1 .. Len(got[h]) : got[h][i] = sub.msg
    OBVIOUS
  <2>1. sub.step = "send" /\ sub.todo = {} /\ h \notin sub.failed
    BY DEF DropFailed, IInv, SocketsOK
  <2> QED BY <2>1 DEF IInv, FeedOK, DispatchOK
<1> QED BY <1>1, Invariance, PTL DEF Spec, ReachesTheOthers
=============================================================================
