----------------------- MODULE GeofenceMembership_proofs -----------------------
(***************************************************************************)
(* Proofs about GeofenceMembership, for every number of requests, assets,  *)
(* groups and fences and every bound on the rows of a key.  The inductive  *)
(* invariant says of every request that is running that, for the keys no   *)
(* other request changed since it began, what it is about to write makes   *)
(* them as they were asked to be (PlanOK), and that the pairs it judged    *)
(* unassigned were so at some moment since it began (LapsedOK); of the     *)
(* rows, that one of a key is live at most.                                *)
(***************************************************************************)
EXTENDS GeofenceMembership, SequenceTheorems, TLAPS

Steps == {"idle", "fences", "validate", "rows", "check", "commit", "delete", "committed", "refused"}
Ops == {"none", "replace", "add", "remove", "setGroup", "assign", "unassign", "setFence"}

ReqType ==
  [op : Ops, step : Steps, at : Group \cup Fence \cup {NoPair} , keys : SUBSET Key, flag : BOOLEAN,
   fences : SUBSET Fence, kill : SUBSET (Key \X Nat), revive : SUBSET (Key \X Nat),
   insert : SUBSET Key, groups : SUBSET Group, pairs : SUBSET Pair,
   judged : Pair \cup {NoPair}, drop : SUBSET Pair]

Types ==
  /\ rows \in [Key -> Seq(BOOLEAN)]
  /\ \A k \in Key : Len(rows[k]) <= MaxRows
  /\ group \in [Group -> {"absent", "active", "inactive"}]
  /\ fence \in [Fence -> [there : BOOLEAN, active : BOOLEAN, deleted : BOOLEAN]]
  /\ states \subseteq Pair /\ looking \in Pair \cup {NoPair}
  /\ req \in [Request -> ReqType]
  /\ rival \in [Request -> SUBSET Key] /\ lapsed \in [Request -> SUBSET Pair]

(* What a request is about, by its operation.                              *)
AboutOK(q) ==
  /\ q.op \in {"replace", "add", "remove", "setGroup"} => q.at \in Group
  /\ q.op \in {"replace", "add", "remove"} => q.keys \subseteq MemberKey(q.at)
  /\ q.op \in {"assign", "unassign"} =>
       q.at \in Fence /\ (q.keys \subseteq LinkKey(q.at) \/ q.keys \subseteq DirectKey(q.at))
  /\ q.op = "unassign" /\ q.step = "rows" => q.keys \subseteq LinkKey(q.at)
  /\ q.op = "unassign" => q.step \notin {"fences", "validate"}
  /\ q.groups # {} => q.at \in Fence
  /\ q.op \in {"none", "setGroup", "setFence"} => q.keys = {}
  /\ q.op = "setFence" \/ q.step = "delete" => q.at \in Fence

(* The liveness of a key that a commit of q leaves.                        *)
WillBeLive(q, k) ==
  \/ k \in q.insert
  \/ \E n \in DOMAIN rows[k] : <<k, n>> \in q.revive \/ (rows[k][n] /\ <<k, n>> \notin q.kill)

Planned(q) == q.step \in {"check", "commit", "delete"}

PlanFor(q, changed) ==
  IF Planned(q)
  THEN /\ \A k \in Asked(q) \ changed : WillBeLive(q, k) <=> Wanted(q, k)
       /\ \A k \in q.insert \ changed : ~ Live(k)
       /\ \A k \in Key, m, n \in Nat : <<k, m>> \in q.revive /\ <<k, n>> \in q.revive => m = n
       /\ \A k \in q.insert, n \in Nat : <<k, n>> \notin q.revive
       /\ \A k \in Key \ changed, n \in Nat : <<k, n>> \in q.revive => n \in DOMAIN rows[k]
  ELSE q.insert = {} /\ q.revive = {} /\ q.kill = {}

PlanOK(r) == PlanFor(req[r], rival[r])

(* What it is about to delete was out of effect since it began.            *)
LapsedOK(q, out) ==
  /\ \A p \in Pair : ~ Effective(p) => p \in out
  /\ q.drop \subseteq out /\ q.judged \in out \cup {NoPair}

RequestOK(r) ==
  /\ AboutOK(req[r]) /\ PlanOK(r) /\ LapsedOK(req[r], lapsed[r])
  /\ req[r].op = "setFence" \/ req[r].step = "delete" => fence[req[r].at].there

FencesOK == \A f \in Fence : fence[f].deleted => fence[f].there

IInv == Types /\ OneLiveRow /\ FencesOK /\ \A r \in Request : Running(r) => RequestOK(r)

-----------------------------------------------------------------------------
(* Keys.                                                                   *)

LEMMA KeysOfGroup ==
  ASSUME NEW g \in Group
  PROVE  MemberKey(g) \subseteq Key /\ \A k \in MemberKey(g) : k[3] \in Asset
<1>1. MemberKey(g) \in {MemberKey(h) : h \in Group}
  OBVIOUS
<1>2. MemberKey(g) \subseteq Key
  BY <1>1 DEF Key
<1>3. \A k \in MemberKey(g) : k[3] \in Asset
  BY DEF MemberKey
<1> QED BY <1>2, <1>3

LEMMA KeysOfFence ==
  ASSUME NEW f \in Fence
  PROVE  /\ LinkKey(f) \subseteq Key /\ DirectKey(f) \subseteq Key
         /\ \A k \in LinkKey(f) : k[3] \in Group /\ k \notin DirectKey(f)
         /\ \A k \in DirectKey(f) : k[3] \in Asset
<1>1. LinkKey(f) \in {LinkKey(h) : h \in Fence} /\ DirectKey(f) \in {DirectKey(h) : h \in Fence}
  OBVIOUS
<1>2. LinkKey(f) \subseteq Key /\ DirectKey(f) \subseteq Key
  BY <1>1 DEF Key
<1>3. \A k \in LinkKey(f) : k[1] = "link" /\ k[3] \in Group
  BY DEF LinkKey
<1>4. \A k \in DirectKey(f) : k[1] = "direct" /\ k[3] \in Asset
  BY DEF DirectKey
<1> QED BY <1>2, <1>3, <1>4

LEMMA LiveRowsType ==
  ASSUME NEW ks \in SUBSET Key
  PROVE  /\ LiveRows(ks) \in SUBSET (Key \X Nat)
         /\ \A row \in LiveRows(ks) : row[1] \in ks
BY ConstantsOK DEF LiveRows

(* What a commit leaves live is what it will leave live.                   *)
LEMMA LiveAfter ==
  ASSUME Types, NEW r \in Request, NEW k \in Key, rows' = Written(req[r])
  PROVE  Live(k)' <=> WillBeLive(req[r], k)
<1> DEFINE q == req[r]
           old == [n \in DOMAIN rows[k] |-> \/ <<k, n>> \in q.revive
                                            \/ rows[k][n] /\ <<k, n>> \notin q.kill]
<1>1. rows[k] \in Seq(BOOLEAN) /\ DOMAIN rows[k] = 1 .. Len(rows[k]) /\ Len(rows[k]) \in Nat
  BY DEF Types
<1>2. old \in Seq(BOOLEAN) /\ Len(old) = Len(rows[k])
  BY <1>1
<1>3. rows'[k] = IF k \in q.insert THEN Append(old, TRUE) ELSE old
  BY DEF Written, Rewrite
<1>4. CASE k \in q.insert
  <2>1. rows'[k] = Append(old, TRUE)
    BY <1>3, <1>4
  <2>2. Len(old) + 1 \in DOMAIN rows'[k] /\ rows'[k][Len(old) + 1]
    BY <1>2, <2>1
  <2> QED BY <1>4, <2>2 DEF Live, WillBeLive
<1>5. CASE k \notin q.insert
  <2>1. rows'[k] = old
    BY <1>3, <1>5
  <2> QED BY <1>5, <2>1 DEF Live, WillBeLive
<1> QED BY <1>4, <1>5

-----------------------------------------------------------------------------
(* Types.                                                                  *)

LEMMA OverType == \A step \in Steps : Over(step) \in ReqType
BY DEF Over, Quiet, ReqType, Ops, Steps

(* The end of a request, for itself and for those that are running.        *)
LEMMA Finishing ==
  ASSUME Types, NEW r \in Request, NEW step \in Steps, NEW gone, Finish(r, step, gone)
  PROVE  /\ req' \in [Request -> ReqType]
         /\ rival' \in [Request -> SUBSET Key] /\ lapsed' \in [Request -> SUBSET Pair]
         /\ req'[r] = Over(step) /\ rival'[r] = {}
         /\ \A s \in Request \ {r} :
              /\ req'[s] = [req[s] EXCEPT !.drop = req[s].drop \ gone]
              /\ Running(s) => /\ rival'[s] = rival[s] \cup {k \in Key : rows'[k] # rows[k]}
                               /\ lapsed'[s] = lapsed[s] \cup {p \in Pair : ~ Effective(p)'}
<1> DEFINE others == {s \in Request \ {r} : Running(s)}
<1>0. req \in [Request -> ReqType] /\ rival \in [Request -> SUBSET Key] /\ lapsed \in [Request -> SUBSET Pair]
  BY DEF Types
<1>1. PICK changed \in {{k \in Key : rows'[k] # rows[k]}} : \E out \in {{p \in Pair : ~ Effective(p)'}} :
        /\ req' = [s \in Request |-> IF s = r THEN Over(step) ELSE [req[s] EXCEPT !.drop = @ \ gone]]
        /\ rival' = [s \in Request |-> IF s \in others THEN rival[s] \cup changed ELSE {}]
        /\ lapsed' = [s \in Request |-> IF s \in others THEN lapsed[s] \cup out ELSE {}]
  BY DEF Finish
<1>2. PICK out \in {{p \in Pair : ~ Effective(p)'}} :
        /\ req' = [s \in Request |-> IF s = r THEN Over(step) ELSE [req[s] EXCEPT !.drop = @ \ gone]]
        /\ rival' = [s \in Request |-> IF s \in others THEN rival[s] \cup changed ELSE {}]
        /\ lapsed' = [s \in Request |-> IF s \in others THEN lapsed[s] \cup out ELSE {}]
  BY <1>1
<1>3. changed = {k \in Key : rows'[k] # rows[k]} /\ out = {p \in Pair : ~ Effective(p)'}
  BY <1>1, <1>2
<1>4. Over(step) \in ReqType
  BY OverType
<1>5. ASSUME NEW s \in Request PROVE [req[s] EXCEPT !.drop = @ \ gone] \in ReqType
  <2>1. req[s] \in ReqType
    BY <1>0
  <2>2. req[s].drop \ gone \in SUBSET Pair
    BY <2>1 DEF ReqType
  <2> QED BY <2>1, <2>2 DEF ReqType
<1>6. req' \in [Request -> ReqType]
  BY <1>2, <1>4, <1>5
<1>7. rival' \in [Request -> SUBSET Key]
  BY <1>0, <1>2, <1>3
<1>8. lapsed' \in [Request -> SUBSET Pair]
  BY <1>0, <1>2, <1>3
<1> HIDE DEF others
<1>9. \A s \in Request \ {r} :
              /\ req'[s] = [req[s] EXCEPT !.drop = req[s].drop \ gone]
              /\ s \in others => rival'[s] = rival[s] \cup changed /\ lapsed'[s] = lapsed[s] \cup out
  BY <1>2
<1>10. req'[r] = Over(step) /\ (r \notin others => rival'[r] = {})
  BY <1>2
<1> QED BY <1>3, <1>6, <1>7, <1>8, <1>9, <1>10 DEF others

LEMMA Beginning ==
  ASSUME Types, NEW r \in Request, NEW request \in ReqType, Begin(r, request)
  PROVE  /\ Types'
         /\ req'[r] = request /\ rival'[r] = {} /\ lapsed'[r] = {p \in Pair : ~ Effective(p)}
         /\ \A s \in Request \ {r} :
              req'[s] = req[s] /\ rival'[s] = rival[s] /\ lapsed'[s] = lapsed[s]
<1>1. UNCHANGED <<rows, group, fence, states, looking>>
  BY DEF Begin, tables
<1>2. req' \in [Request -> ReqType] /\ rival' \in [Request -> SUBSET Key]
  BY DEF Begin, Types
<1>3. lapsed' \in [Request -> SUBSET Pair]
  BY DEF Begin, Types
<1>4. /\ req'[r] = request /\ rival'[r] = {} /\ lapsed'[r] = {p \in Pair : ~ Effective(p)}
      /\ \A s \in Request \ {r} :
           req'[s] = req[s] /\ rival'[s] = rival[s] /\ lapsed'[s] = lapsed[s]
  BY DEF Begin, Types
<1> QED BY <1>1, <1>2, <1>3, <1>4 DEF Types

LEMMA Reading ==
  ASSUME Types, NEW r \in Request, NEW request \in ReqType,
         req' = [req EXCEPT ![r] = request], UNCHANGED <<tables, looking, history>>
  PROVE  /\ Types'
         /\ req'[r] = request
         /\ \A s \in Request \ {r} : req'[s] = req[s]
BY DEF Types, tables, history

-----------------------------------------------------------------------------
(* What another request does to one that is running.                       *)

SamePlan(q, p) ==
  /\ q.op = p.op /\ q.step = p.step /\ q.at = p.at /\ q.keys = p.keys
  /\ q.kill = p.kill /\ q.revive = p.revive /\ q.insert = p.insert
  /\ q.groups = p.groups /\ q.judged = p.judged /\ q.drop \subseteq p.drop

LEMMA EffectiveKept ==
  ASSUME UNCHANGED <<rows, group, fence>>
  PROVE  \A p \in Pair : Effective(p)' <=> Effective(p)
BY DEF Effective, Usable, Covered, Live, Members

LEMMA AskedAreKeys ==
  ASSUME NEW q \in ReqType, AboutOK(q)
  PROVE  Asked(q) \subseteq Key
<1>1. q.keys \subseteq Key
  BY DEF ReqType
<1>2. q.op = "replace" => MemberKey(q.at) \subseteq Key
  BY KeysOfGroup DEF AboutOK
<1>3. {row[1] : row \in q.kill} \subseteq Key
  BY DEF ReqType
<1> QED BY <1>1, <1>2, <1>3 DEF Asked

LEMMA RequestStays ==
  ASSUME Types, NEW r \in Request, RequestOK(r), req'[r] \in ReqType, SamePlan(req'[r], req[r]),
         rival[r] \subseteq rival'[r], lapsed[r] \subseteq lapsed'[r],
         \A p \in Pair : ~ Effective(p)' => p \in lapsed'[r],
         \A k \in Key : rows'[k] # rows[k] => k \in rival'[r],
         \A f \in Fence : fence[f].there => fence'[f].there
  PROVE  RequestOK(r)'
<1> DEFINE q == req[r]  p == req'[r]
<1>1. AboutOK(p)
  BY DEF SamePlan, AboutOK, RequestOK
<1>2. Asked(p) = Asked(q) /\ \A k : Wanted(p, k) <=> Wanted(q, k)
  <2>1. CASE q.op = "replace"
    BY <2>1 DEF SamePlan, Asked, Wanted
  <2>2. CASE q.op # "replace" /\ q.op = "unassign" /\ q.keys \subseteq DirectKey(q.at)
    BY <2>2 DEF SamePlan, Asked, Wanted
  <2>3. CASE q.op # "replace" /\ ~ (q.op = "unassign" /\ q.keys \subseteq DirectKey(q.at))
    BY <2>3 DEF SamePlan, Asked, Wanted
  <2> QED BY <2>1, <2>2, <2>3
<1>3. Asked(q) \subseteq Key /\ q.insert \subseteq Key
  BY AskedAreKeys DEF RequestOK, Types, ReqType
<1>4. \A k \in Key \ rival'[r] : k \notin rival[r] /\ rows'[k] = rows[k]
  OBVIOUS
<1>5. \A k \in Key \ rival'[r] : /\ WillBeLive(req[r], k)' <=> WillBeLive(q, k)
                                 /\ Live(k)' <=> Live(k)
  BY <1>4 DEF SamePlan, WillBeLive, Live
<1>6. PlanOK(r)'
  <2>1. CASE Planned(q)
    <3>1. Planned(p)
      BY <2>1 DEF Planned, SamePlan
    <3>2. \A k \in Asked(p) \ rival'[r] : WillBeLive(req[r], k)' <=> Wanted(p, k)
      BY <1>2, <1>3, <1>4, <1>5, <2>1 DEF RequestOK, PlanOK, PlanFor
    <3>3. \A k \in p.insert \ rival'[r] : ~ Live(k)'
      BY <1>3, <1>4, <1>5, <2>1 DEF RequestOK, PlanOK, PlanFor, SamePlan
    <3>4. /\ \A k \in Key, m, n \in Nat : <<k, m>> \in p.revive /\ <<k, n>> \in p.revive => m = n
          /\ \A k \in p.insert, n \in Nat : <<k, n>> \notin p.revive
      BY <2>1 DEF RequestOK, PlanOK, PlanFor, SamePlan
    <3>5. \A k \in Key \ rival'[r], n \in Nat : <<k, n>> \in p.revive => n \in DOMAIN rows'[k]
      BY <1>4, <2>1 DEF RequestOK, PlanOK, PlanFor, SamePlan
    <3> QED BY <3>1, <3>2, <3>3, <3>4, <3>5 DEF PlanOK, PlanFor
  <2>2. CASE ~ Planned(q)
    BY <2>2 DEF RequestOK, PlanOK, PlanFor, SamePlan, Planned
  <2> QED BY <2>1, <2>2
<1>7. p.op = "setFence" \/ p.step = "delete" => fence'[p.at].there
  BY DEF SamePlan, RequestOK, AboutOK
<1>8. LapsedOK(req[r], lapsed[r])'
  BY DEF SamePlan, RequestOK, LapsedOK
<1> QED BY <1>1, <1>6, <1>7, <1>8 DEF RequestOK

-----------------------------------------------------------------------------
(* Requests that begin, and their queries.                                 *)

ThereOK(q) == q.op = "setFence" \/ q.step = "delete" => fence[q.at].there

LEMMA BeginIInv ==
  ASSUME IInv, NEW r \in Request, NEW request \in ReqType, Begin(r, request),
         AboutOK(request), PlanFor(request, {}), ThereOK(request),
         request.drop = {}, request.judged = NoPair
  PROVE  IInv'
<1>1. /\ Types'
      /\ req'[r] = request /\ rival'[r] = {} /\ lapsed'[r] = {p \in Pair : ~ Effective(p)}
      /\ \A s \in Request \ {r} :
           req'[s] = req[s] /\ rival'[s] = rival[s] /\ lapsed'[s] = lapsed[s]
  BY Beginning DEF IInv
<1>2. UNCHANGED <<rows, group, fence>>
  BY DEF Begin, tables
<1>3. OneLiveRow' /\ FencesOK' /\ \A p \in Pair : Effective(p)' <=> Effective(p)
  BY <1>2, EffectiveKept DEF IInv, OneLiveRow, FencesOK
<1>4. RequestOK(r)'
  <2>1. PlanFor(req'[r], rival'[r])
    BY <1>1
  <2>2. PlanOK(r)'
    BY <1>2, <2>1 DEF PlanOK, PlanFor, WillBeLive, Live
  <2>3. LapsedOK(req[r], lapsed[r])'
    BY <1>1, <1>3 DEF LapsedOK
  <2> QED BY <1>1, <1>2, <2>2, <2>3 DEF RequestOK, ThereOK
<1>5. ASSUME NEW s \in Request \ {r}, Running(s)' PROVE RequestOK(s)'
  <2>1. req'[s] = req[s] /\ rival'[s] = rival[s] /\ lapsed'[s] = lapsed[s] /\ Running(s)
    BY <1>1, <1>5 DEF Running
  <2>2. SamePlan(req'[s], req[s]) /\ req'[s] \in ReqType
    BY <1>1, <2>1 DEF SamePlan, Types
  <2>3. \A p \in Pair : ~ Effective(p)' => p \in lapsed'[s]
    BY <1>3, <2>1 DEF IInv, RequestOK, LapsedOK
  <2> QED BY <1>2, <2>1, <2>2, <2>3, RequestStays DEF IInv
<1> QED BY <1>1, <1>3, <1>4, <1>5 DEF IInv

LEMMA ReadIInv ==
  ASSUME IInv, NEW r \in Request, NEW request \in ReqType,
         req' = [req EXCEPT ![r] = request], UNCHANGED <<tables, looking, history>>,
         AboutOK(request), PlanFor(request, rival[r]), ThereOK(request),
         LapsedOK(request, lapsed[r])
  PROVE  IInv'
<1>1. Types' /\ req'[r] = request /\ \A s \in Request \ {r} : req'[s] = req[s]
  BY Reading DEF IInv
<1>2. UNCHANGED <<rows, group, fence, rival, lapsed>>
  BY DEF tables, history
<1>3. OneLiveRow' /\ FencesOK' /\ \A p \in Pair : Effective(p)' <=> Effective(p)
  BY <1>2, EffectiveKept DEF IInv, OneLiveRow, FencesOK
<1>4. RequestOK(r)'
  <2>1. PlanFor(req'[r], rival'[r])
    BY <1>1, <1>2
  <2>2. PlanOK(r)'
    BY <1>2, <2>1 DEF PlanOK, PlanFor, WillBeLive, Live
  <2>3. LapsedOK(req[r], lapsed[r])'
    BY <1>1, <1>2, <1>3 DEF LapsedOK
  <2> QED BY <1>1, <1>2, <2>2, <2>3 DEF RequestOK, ThereOK
<1>5. ASSUME NEW s \in Request \ {r}, Running(s)' PROVE RequestOK(s)'
  <2>1. req'[s] = req[s] /\ rival'[s] = rival[s] /\ lapsed'[s] = lapsed[s] /\ Running(s)
    BY <1>1, <1>2, <1>5 DEF Running
  <2>2. SamePlan(req'[s], req[s]) /\ req'[s] \in ReqType
    BY <1>1, <2>1 DEF SamePlan, Types
  <2>3. \A p \in Pair : ~ Effective(p)' => p \in lapsed'[s]
    BY <1>3, <2>1 DEF IInv, RequestOK, LapsedOK
  <2> QED BY <1>2, <2>1, <2>2, <2>3, RequestStays DEF IInv
<1> QED BY <1>1, <1>3, <1>4, <1>5 DEF IInv

(* A request without changes of its own has a plan as long as it asks for  *)
(* none of the keys.                                                       *)
LEMMA EmptyPlan ==
  ASSUME NEW q, q.insert = {}, q.revive = {}, q.kill = {},
         Planned(q) => q.op \notin {"replace", "unassign"} /\ q.keys = {}
  PROVE  \A ks : PlanFor(q, ks)
<1>1. CASE ~ Planned(q)
  BY <1>1 DEF PlanFor
<1>2. CASE Planned(q)
  <2>1. Asked(q) = {}
    BY <1>2 DEF Asked
  <2> QED BY <2>1 DEF PlanFor
<1> QED BY <1>1, <1>2

LEMMA BeginStepIInv ==
  ASSUME IInv, NEW r \in Request, BeginStep(r)
  PROVE  IInv'
<1>1. ASSUME NEW op \in {"replace", "add", "remove"}, NEW step \in {"fences", "rows"},
             NEW g \in Group, NEW ks \in SUBSET MemberKey(g),
             Begin(r, [Quiet EXCEPT !.op = op, !.step = step, !.at = g, !.keys = ks])
      PROVE  IInv'
  <2> DEFINE q == [Quiet EXCEPT !.op = op, !.step = step, !.at = g, !.keys = ks]
  <2>1. q \in ReqType
    BY KeysOfGroup DEF Quiet, ReqType, Ops, Steps
  <2>2. AboutOK(q) /\ ThereOK(q)
    BY DEF Quiet, AboutOK, ThereOK
  <2>3. PlanFor(q, {})
    BY EmptyPlan DEF Quiet, Planned
  <2>4. q.drop = {} /\ q.judged = NoPair
    BY DEF Quiet
  <2> QED BY <1>1, <2>1, <2>2, <2>3, <2>4, BeginIInv
<1>2. ASSUME NEW op \in {"assign", "unassign"}, NEW step \in {"validate", "rows"},
             NEW f \in Fence, NEW ks \in SUBSET Key,
             ks \subseteq LinkKey(f) \/ ks \subseteq DirectKey(f),
             op = "assign" \/ (ks \subseteq LinkKey(f) /\ step = "rows"),
             Begin(r, [Quiet EXCEPT !.op = op, !.step = step, !.at = f, !.keys = ks])
      PROVE  IInv'
  <2> DEFINE q == [Quiet EXCEPT !.op = op, !.step = step, !.at = f, !.keys = ks]
  <2>1. q \in ReqType
    BY DEF Quiet, ReqType, Ops, Steps
  <2>2. AboutOK(q) /\ ThereOK(q)
    BY <1>2 DEF Quiet, AboutOK, ThereOK
  <2>3. PlanFor(q, {})
    BY EmptyPlan DEF Quiet, Planned
  <2>4. q.drop = {} /\ q.judged = NoPair
    BY DEF Quiet
  <2> QED BY <1>2, <2>1, <2>2, <2>3, <2>4, BeginIInv
<1>3. ASSUME NEW g \in Group, NEW op \in {"none", "setGroup"}, NEW step \in {"fences", "commit"},
             NEW flag \in BOOLEAN,
             Begin(r, [Quiet EXCEPT !.op = op, !.step = step, !.at = g, !.flag = flag])
      PROVE  IInv'
  <2> DEFINE q == [Quiet EXCEPT !.op = op, !.step = step, !.at = g, !.flag = flag]
  <2>1. q \in ReqType
    BY DEF Quiet, ReqType, Ops, Steps
  <2>2. AboutOK(q) /\ ThereOK(q)
    BY DEF Quiet, AboutOK, ThereOK
  <2>3. PlanFor(q, {})
    BY EmptyPlan DEF Quiet, Planned
  <2>4. q.drop = {} /\ q.judged = NoPair
    BY DEF Quiet
  <2> QED BY <1>3, <2>1, <2>2, <2>3, <2>4, BeginIInv
<1>4. ASSUME NEW f \in Fence, Usable(f), NEW op \in {"none", "setFence"},
             NEW step \in {"commit", "delete"}, NEW flag \in BOOLEAN,
             Begin(r, [Quiet EXCEPT !.op = op, !.step = step, !.at = f, !.flag = flag])
      PROVE  IInv'
  <2> DEFINE q == [Quiet EXCEPT !.op = op, !.step = step, !.at = f, !.flag = flag]
  <2>1. q \in ReqType
    BY DEF Quiet, ReqType, Ops, Steps
  <2>2. AboutOK(q) /\ ThereOK(q)
    BY <1>4 DEF Quiet, AboutOK, ThereOK, Usable
  <2>3. PlanFor(q, {})
    BY EmptyPlan DEF Quiet, Planned
  <2>4. q.drop = {} /\ q.judged = NoPair
    BY DEF Quiet
  <2> QED BY <1>4, <2>1, <2>2, <2>3, <2>4, BeginIInv
<1>5. ASSUME NEW f \in Fence, NEW k \in DirectKey(f), NEW n \in DOMAIN rows[k],
             Begin(r, [Quiet EXCEPT !.op = "unassign", !.step = "check", !.at = f, !.keys = {k},
                                    !.kill = IF rows[k][n] THEN {<<k, n>>} ELSE {},
                                    !.pairs = {<<f, k[3]>>}])
      PROVE  IInv'
  <2> DEFINE kill == IF rows[k][n] THEN {<<k, n>>} ELSE {}
             q == [Quiet EXCEPT !.op = "unassign", !.step = "check", !.at = f, !.keys = {k},
                                !.kill = kill, !.pairs = {<<f, k[3]>>}]
  <2>0. k \in Key /\ k[3] \in Asset
    BY KeysOfFence
  <2>1. kill \in SUBSET (Key \X Nat)
    <3>1. n \in Nat
      BY <2>0 DEF IInv, Types
    <3> QED BY <2>0, <3>1
  <2> HIDE DEF kill
  <2>2. q \in ReqType
    <3> DEFINE pair == {<<f, k[3]>>}
    <3>1. pair \in SUBSET Pair /\ {k} \in SUBSET Key
      BY <2>0 DEF Pair
    <3> HIDE DEF pair
    <3>2. [Quiet EXCEPT !.op = "unassign", !.step = "check", !.at = f, !.keys = {k},
                        !.kill = kill, !.pairs = pair] \in ReqType
      BY <2>1, <3>1 DEF Quiet, ReqType, Ops, Steps
    <3> QED BY <3>2 DEF pair
  <2>3. /\ q.op = "unassign" /\ q.step = "check" /\ q.at = f /\ q.keys = {k} /\ q.kill = kill
        /\ q.insert = {} /\ q.revive = {} /\ q.groups = {} /\ q.drop = {} /\ q.judged = NoPair
    BY DEF Quiet
  <2>4. AboutOK(q) /\ ThereOK(q)
    BY <2>3 DEF AboutOK, ThereOK
  <2>5. Asked(q) = {row[1] : row \in kill} /\ \A j : ~ Wanted(q, j)
    BY <2>3 DEF Asked, Wanted
  <2>6. \A j \in Asked(q) : ~ WillBeLive(q, j)
    <3> SUFFICES ASSUME NEW j \in Asked(q), NEW m \in DOMAIN rows[j], rows[j][m]
                 PROVE  <<j, m>> \in kill
      BY <2>3 DEF WillBeLive
    <3>1. j = k /\ kill = {<<k, n>>} /\ rows[k][n]
      BY <2>5 DEF kill
    <3>2. m = n
      BY <2>0, <3>1 DEF IInv, OneLiveRow, AtMostOne
    <3> QED BY <3>1, <3>2
  <2>7. PlanFor(q, {})
    BY <2>3, <2>5, <2>6 DEF PlanFor, Planned
  <2> QED BY <1>5, <2>2, <2>3, <2>4, <2>7, BeginIInv DEF kill
<1>6. CASE ReplaceMembers(r) \/ AddMembers(r) \/ RemoveMembers(r)
  BY <1>1, <1>6 DEF ReplaceMembers, AddMembers, RemoveMembers
<1>7. CASE SetGroupActive(r)
  BY <1>3, <1>7 DEF SetGroupActive
<1>8. CASE AssignGroups(r) \/ RemoveGroups(r) \/ AssignAssets(r)
  <2>0. \A f \in Fence : LinkKey(f) \subseteq Key /\ DirectKey(f) \subseteq Key
    BY KeysOfFence
  <2>1. CASE AssignGroups(r)
    <3>1. PICK f \in Fence : \E ks \in SUBSET LinkKey(f) :
            Begin(r, [Quiet EXCEPT !.op = "assign", !.step = "validate", !.at = f, !.keys = ks])
      BY <2>1 DEF AssignGroups
    <3>2. PICK ks \in SUBSET LinkKey(f) :
            Begin(r, [Quiet EXCEPT !.op = "assign", !.step = "validate", !.at = f, !.keys = ks])
      BY <3>1
    <3>3. ks \in SUBSET Key /\ ks \subseteq LinkKey(f)
      BY <2>0
    <3> QED BY <1>2, <3>2, <3>3
  <2>2. CASE RemoveGroups(r)
    <3>1. PICK f \in Fence : \E ks \in SUBSET LinkKey(f) :
            Begin(r, [Quiet EXCEPT !.op = "unassign", !.step = "rows", !.at = f, !.keys = ks])
      BY <2>2 DEF RemoveGroups
    <3>2. PICK ks \in SUBSET LinkKey(f) :
            Begin(r, [Quiet EXCEPT !.op = "unassign", !.step = "rows", !.at = f, !.keys = ks])
      BY <3>1
    <3>3. ks \in SUBSET Key /\ ks \subseteq LinkKey(f)
      BY <2>0
    <3> QED BY <1>2, <3>2, <3>3
  <2>3. CASE AssignAssets(r)
    <3>1. PICK f \in Fence : \E ks \in SUBSET DirectKey(f) :
            Begin(r, [Quiet EXCEPT !.op = "assign", !.step = "rows", !.at = f, !.keys = ks])
      BY <2>3 DEF AssignAssets
    <3>2. PICK ks \in SUBSET DirectKey(f) :
            Begin(r, [Quiet EXCEPT !.op = "assign", !.step = "rows", !.at = f, !.keys = ks])
      BY <3>1
    <3>3. ks \in SUBSET Key /\ ks \subseteq DirectKey(f)
      BY <2>0
    <3> QED BY <1>2, <3>2, <3>3
  <2> QED BY <1>8, <2>1, <2>2, <2>3
<1>9. CASE DeactivateAssignment(r)
  BY <1>5, <1>9 DEF DeactivateAssignment
<1>10. CASE SetFenceActive(r)
  BY <1>4, <1>10 DEF SetFenceActive
<1>11. CASE DeleteFence(r)
  <2>1. PICK f \in Fence :
          /\ Usable(f)
          /\ Begin(r, [Quiet EXCEPT !.op = IF fence[f].active THEN "setFence" ELSE "none",
                                    !.step = "delete", !.at = f])
    BY <1>11 DEF DeleteFence
  <2> DEFINE op == IF fence[f].active THEN "setFence" ELSE "none"
             q == [Quiet EXCEPT !.op = op, !.step = "delete", !.at = f]
  <2>2. op \in {"none", "setFence"}
    OBVIOUS
  <2> HIDE DEF op
  <2>3. q \in ReqType
    BY <2>2 DEF Quiet, ReqType, Ops, Steps
  <2>4. AboutOK(q) /\ ThereOK(q)
    BY <2>1, <2>2 DEF Quiet, AboutOK, ThereOK, Usable
  <2>5. PlanFor(q, {})
    BY <2>2, EmptyPlan DEF Quiet, Planned
  <2>6. q.drop = {} /\ q.judged = NoPair
    BY DEF Quiet
  <2> QED BY <2>1, <2>3, <2>4, <2>5, <2>6, BeginIInv DEF op
<1> QED BY <1>6, <1>7, <1>8, <1>9, <1>10, <1>11 DEF BeginStep

-----------------------------------------------------------------------------
(* The queries.                                                            *)

(* A step that leaves the plan alone.                                      *)
LEMMA PlanKept ==
  ASSUME IInv, NEW r \in Request, Running(r), NEW request \in ReqType, request.step # "delete",
         request.op = req[r].op, request.at = req[r].at, request.keys = req[r].keys,
         request.kill = req[r].kill, request.revive = req[r].revive,
         request.insert = req[r].insert, request.groups \subseteq req[r].groups,
         Planned(request) <=> Planned(req[r]), request.step # "rows" \/ req[r].op # "unassign",
         request.step \notin {"fences", "validate"}
  PROVE  AboutOK(request) /\ PlanFor(request, rival[r]) /\ ThereOK(request)
<1> DEFINE q == req[r]
<1>1. RequestOK(r)
  BY DEF IInv
<1>2. AboutOK(request) /\ ThereOK(request)
  BY <1>1 DEF AboutOK, ThereOK, RequestOK
<1>3. Asked(request) = Asked(q) /\ \A k : Wanted(request, k) <=> Wanted(q, k)
  <2>1. CASE q.op = "replace"
    BY <2>1 DEF Asked, Wanted
  <2>2. CASE q.op # "replace" /\ q.op = "unassign" /\ q.keys \subseteq DirectKey(q.at)
    BY <2>2 DEF Asked, Wanted
  <2>3. CASE q.op # "replace" /\ ~ (q.op = "unassign" /\ q.keys \subseteq DirectKey(q.at))
    BY <2>3 DEF Asked, Wanted
  <2> QED BY <2>1, <2>2, <2>3
<1>4. \A k : WillBeLive(request, k) <=> WillBeLive(q, k)
  BY DEF WillBeLive
<1>5. PlanFor(request, rival[r])
  <2>1. CASE Planned(request)
    BY <1>1, <1>3, <1>4, <2>1 DEF RequestOK, PlanOK, PlanFor
  <2>2. CASE ~ Planned(request)
    BY <1>1, <2>2 DEF RequestOK, PlanOK, PlanFor
  <2> QED BY <2>1, <2>2
<1> QED BY <1>2, <1>5

LEMMA ReadFencesIInv ==
  ASSUME IInv, NEW r \in Request, ReadFences(r)
  PROVE  IInv'
<1> DEFINE q == req[r]
           fences == {f \in Fence : Live(<<"link", f, q.at>>)}
           request == [q EXCEPT !.fences = fences, !.step = "rows"]
<1>1. q \in ReqType /\ q.step = "fences" /\ Running(r)
  BY DEF IInv, Types, ReadFences, Running
<1>2. RequestOK(r)
  BY <1>1 DEF IInv
<1>3. request \in ReqType
  BY <1>1 DEF ReqType, Steps
<1>4. req' = [req EXCEPT ![r] = request] /\ UNCHANGED <<tables, looking, history>>
  BY <1>1 DEF ReadFences, IInv, Types
<1>5. /\ request.op = q.op /\ request.at = q.at /\ request.keys = q.keys /\ request.kill = q.kill
      /\ request.revive = q.revive /\ request.insert = q.insert /\ request.groups = q.groups
      /\ request.step = "rows" /\ request.drop = q.drop /\ request.judged = q.judged
  BY <1>1 DEF ReqType
<1> HIDE DEF request
<1>6. /\ AboutOK(request) /\ PlanFor(request, rival[r]) /\ ThereOK(request)
      /\ LapsedOK(request, lapsed[r])
  <2>1. q.op # "unassign"
    BY <1>1, <1>2 DEF RequestOK, AboutOK
  <2>2. LapsedOK(request, lapsed[r])
    BY <1>2, <1>5 DEF RequestOK, LapsedOK
  <2> QED BY <1>1, <1>3, <1>5, <2>1, <2>2, PlanKept DEF Planned
<1> QED BY <1>3, <1>4, <1>6, ReadIInv

(* The steps of delete_state_if_unassigned and those around them.          *)
LEMMA CheckIInv ==
  ASSUME IInv, NEW r \in Request, Running(r), NEW request \in ReqType,
         req' = [req EXCEPT ![r] = request], UNCHANGED <<tables, looking, history>>,
         req[r].step = "check", request.step \in {"check", "commit"},
         request.op = req[r].op, request.at = req[r].at, request.keys = req[r].keys,
         request.kill = req[r].kill, request.revive = req[r].revive,
         request.insert = req[r].insert, request.groups \subseteq req[r].groups,
         request.drop \subseteq lapsed[r], request.judged \in lapsed[r] \cup {NoPair}
  PROVE  IInv'
<1>1. AboutOK(request) /\ PlanFor(request, rival[r]) /\ ThereOK(request)
  BY PlanKept DEF Planned
<1>2. LapsedOK(request, lapsed[r])
  BY DEF IInv, RequestOK, LapsedOK
<1> QED BY <1>1, <1>2, ReadIInv

LEMMA CheckStepIInv ==
  ASSUME IInv, NEW r \in Request,
         ReadAssetsOfGroup(r) \/ HasEffectiveAssignment(r) \/ FindState(r) \/ Checked(r)
  PROVE  IInv'
<1> DEFINE q == req[r]
<1>1. q \in ReqType /\ q.step = "check" /\ Running(r)
  BY DEF IInv, Types, ReadAssetsOfGroup, HasEffectiveAssignment, FindState, Checked, Running
<1>2. RequestOK(r)
  BY <1>1 DEF IInv
<1>3. /\ q.drop \subseteq lapsed[r] /\ q.judged \in lapsed[r] \cup {NoPair}
      /\ \A p \in Pair : ~ Effective(p) => p \in lapsed[r]
  BY <1>2 DEF RequestOK, LapsedOK
<1>4. CASE ReadAssetsOfGroup(r)
  <2>1. PICK g \in q.groups :
          req' = [req EXCEPT ![r].groups = @ \ {g},
                             ![r].pairs = @ \cup ({req[r].at} \X Members(g))]
    BY <1>4 DEF ReadAssetsOfGroup
  <2> DEFINE pairs == q.pairs \cup ({q.at} \X Members(g))
             request == [q EXCEPT !.groups = q.groups \ {g}, !.pairs = pairs]
  <2>2. pairs \in SUBSET Pair
    BY <1>1, <1>2 DEF ReqType, Pair, Members, RequestOK, AboutOK
  <2> HIDE DEF pairs
  <2>3. request \in ReqType
    BY <1>1, <2>2 DEF ReqType
  <2>4. req' = [req EXCEPT ![r] = request] /\ UNCHANGED <<tables, looking, history>>
    BY <1>1, <1>4, <2>1 DEF ReadAssetsOfGroup, IInv, Types, pairs
  <2>5. /\ request.op = q.op /\ request.at = q.at /\ request.keys = q.keys
        /\ request.kill = q.kill /\ request.revive = q.revive /\ request.insert = q.insert
        /\ request.groups \subseteq q.groups /\ request.step = "check"
        /\ request.drop = q.drop /\ request.judged = q.judged
    BY <1>1 DEF ReqType
  <2> HIDE DEF request
  <2> QED BY <1>1, <1>3, <2>3, <2>4, <2>5, CheckIInv
<1>5. CASE HasEffectiveAssignment(r)
  <2>1. PICK p \in q.pairs :
          req' = [req EXCEPT ![r].pairs = @ \ {p},
                             ![r].judged = IF Effective(p) THEN NoPair ELSE p]
    BY <1>5 DEF HasEffectiveAssignment
  <2> DEFINE judged == IF Effective(p) THEN NoPair ELSE p
             request == [q EXCEPT !.pairs = q.pairs \ {p}, !.judged = judged]
  <2>2. p \in Pair
    BY <1>1 DEF ReqType
  <2>3. judged \in Pair \cup {NoPair} /\ judged \in lapsed[r] \cup {NoPair}
    BY <1>3, <2>2
  <2>4. req' = [req EXCEPT ![r] = request] /\ UNCHANGED <<tables, looking, history>>
    BY <1>1, <1>5, <2>1 DEF HasEffectiveAssignment, IInv, Types
  <2> HIDE DEF judged
  <2>5. request \in ReqType
    BY <1>1, <2>3 DEF ReqType
  <2>6. /\ request.op = q.op /\ request.at = q.at /\ request.keys = q.keys
        /\ request.kill = q.kill /\ request.revive = q.revive /\ request.insert = q.insert
        /\ request.groups = q.groups /\ request.step = "check"
        /\ request.drop = q.drop /\ request.judged = judged
    BY <1>1 DEF ReqType
  <2> HIDE DEF request
  <2> QED BY <1>1, <1>3, <2>3, <2>4, <2>5, <2>6, CheckIInv
<1>6. CASE FindState(r)
  <2> DEFINE drop == IF q.judged \in states THEN q.drop \cup {q.judged} ELSE q.drop
             request == [q EXCEPT !.judged = NoPair, !.drop = drop]
  <2>1. q.judged # NoPair /\ q.judged \in Pair
    BY <1>1, <1>6 DEF FindState, ReqType
  <2>2. drop \in SUBSET Pair /\ drop \subseteq lapsed[r]
    BY <1>1, <1>3, <2>1 DEF ReqType
  <2>3. req' = [req EXCEPT ![r] = request] /\ UNCHANGED <<tables, looking, history>>
    BY <1>1, <1>6 DEF FindState, IInv, Types
  <2> HIDE DEF drop
  <2>4. request \in ReqType
    BY <1>1, <2>2 DEF ReqType
  <2>5. /\ request.op = q.op /\ request.at = q.at /\ request.keys = q.keys
        /\ request.kill = q.kill /\ request.revive = q.revive /\ request.insert = q.insert
        /\ request.groups = q.groups /\ request.step = "check"
        /\ request.drop = drop /\ request.judged = NoPair
    BY <1>1 DEF ReqType
  <2> HIDE DEF request
  <2> QED BY <1>1, <2>2, <2>3, <2>4, <2>5, CheckIInv
<1>7. CASE Checked(r)
  <2> DEFINE request == [q EXCEPT !.step = "commit"]
  <2>1. req' = [req EXCEPT ![r] = request] /\ UNCHANGED <<tables, looking, history>>
    BY <1>1, <1>7 DEF Checked, IInv, Types
  <2>2. request \in ReqType
    BY <1>1 DEF ReqType, Steps
  <2>3. /\ request.op = q.op /\ request.at = q.at /\ request.keys = q.keys
        /\ request.kill = q.kill /\ request.revive = q.revive /\ request.insert = q.insert
        /\ request.groups = q.groups /\ request.step = "commit"
        /\ request.drop = q.drop /\ request.judged = q.judged
    BY <1>1 DEF ReqType
  <2> HIDE DEF request
  <2> QED BY <1>1, <1>3, <2>1, <2>2, <2>3, CheckIInv
<1> QED BY <1>4, <1>5, <1>6, <1>7

(* What a query of rows leaves out of the rows of its keys, dies.          *)
LEMMA Killed ==
  ASSUME Types, NEW ks \in SUBSET Key, NEW q, NEW k \in ks, k \notin q.insert,
         LiveRows(ks) \subseteq q.kill, \A n \in Nat : <<k, n>> \notin q.revive
  PROVE  ~ WillBeLive(q, k)
<1>1. DOMAIN rows[k] = 1 .. Len(rows[k]) /\ Len(rows[k]) \in Nat /\ Len(rows[k]) <= MaxRows
  BY DEF Types
<1>0. \A n \in DOMAIN rows[k] : n \in Nat
  BY <1>1
<1> SUFFICES ASSUME NEW n \in DOMAIN rows[k], rows[k][n] PROVE <<k, n>> \in q.kill
  BY <1>0 DEF WillBeLive
<1>2. n \in Nat /\ n \in 1 .. MaxRows
  BY <1>1, ConstantsOK
<1>3. <<k, n>> \in LiveRows(ks)
  BY <1>2 DEF LiveRows
<1> QED BY <1>3

LEMMA ReadMembersIInv ==
  ASSUME IInv, NEW r \in Request, ReadMembers(r)
  PROVE  IInv'
<1> DEFINE q == req[r]
           known == Known(q.keys)
<1>1. q \in ReqType /\ q.step = "rows" /\ q.op \in {"replace", "add"} /\ Running(r)
  BY DEF IInv, Types, ReadMembers, Running
<1>2. RequestOK(r) /\ q.at \in Group /\ q.keys \subseteq MemberKey(q.at)
  BY <1>1 DEF IInv, RequestOK, AboutOK
<1>3. MemberKey(q.at) \subseteq Key /\ \A k \in MemberKey(q.at) : k[3] \in Asset
  BY <1>2, KeysOfGroup
<1>4. PICK pick \in [known -> 1 .. MaxRows] :
       /\ \A k \in known : pick[k] \in DOMAIN rows[k]
       /\ LET kill == IF q.op = "add" THEN {} ELSE LiveRows(MemberKey(q.at) \ q.keys)
              revive == {<<k, pick[k]>> : k \in {j \in known : ~ rows[j][pick[j]]}}
          IN req' = [req EXCEPT ![r].kill = kill, ![r].revive = revive,
                                ![r].insert = q.keys \ known,
                                ![r].pairs = q.fences \X {row[1][3] : row \in kill},
                                ![r].step = "check"]
  BY DEF ReadMembers
<1> DEFINE kill == IF q.op = "add" THEN {} ELSE LiveRows(MemberKey(q.at) \ q.keys)
           revive == {<<k, pick[k]>> : k \in {j \in known : ~ rows[j][pick[j]]}}
           pairs == q.fences \X {row[1][3] : row \in kill}
           insert == q.keys \ known
           request == [q EXCEPT !.kill = kill, !.revive = revive, !.insert = insert,
                                !.pairs = pairs, !.step = "check"]
<1>5. req' = [req EXCEPT ![r] = request] /\ UNCHANGED <<tables, looking, history>>
  <2>1. req' = [req EXCEPT ![r].kill = kill, ![r].revive = revive, ![r].insert = insert,
                           ![r].pairs = pairs, ![r].step = "check"]
    BY <1>4
  <2>2. req \in [Request -> ReqType]
    BY DEF IInv, Types
  <2>3. UNCHANGED <<tables, looking, history>>
    BY DEF ReadMembers
  <2> HIDE DEF kill, revive, insert, pairs
  <2> QED BY <2>1, <2>2, <2>3
<1>6. known \subseteq q.keys /\ \A k \in q.keys \ known : rows[k] = <<>>
  BY DEF Known
<1>7. kill \in SUBSET (Key \X Nat) /\ \A row \in kill : row[1] \in MemberKey(q.at) \ q.keys
  <2> DEFINE others == MemberKey(q.at) \ q.keys
  <2>1. others \in SUBSET Key
    BY <1>3
  <2>2. kill = {} \/ kill = LiveRows(others)
    OBVIOUS
  <2> HIDE DEF others, kill
  <2>3. kill \in SUBSET (Key \X Nat) /\ \A row \in kill : row[1] \in others
    BY <2>1, <2>2, LiveRowsType
  <2> QED BY <2>3 DEF others
<1>8. pairs \in SUBSET Pair
  BY <1>1, <1>3, <1>7 DEF ReqType, Pair
<1>17. \A k \in known : pick[k] \in Nat
  <2>1. \A n \in 1 .. MaxRows : n \in Nat
    BY ConstantsOK
  <2> HIDE DEF known
  <2> QED BY <1>4, <2>1
<1>9. /\ revive \in SUBSET (Key \X Nat)
      /\ \A k \in Key, n \in Nat : <<k, n>> \in revive => k \in known /\ n = pick[k]
  <2>1. ASSUME NEW w \in revive PROVE \E k \in known : w = <<k, pick[k]>>
    OBVIOUS
  <2>2. known \subseteq Key
    BY <1>2, <1>3, <1>6
  <2> HIDE DEF revive, known
  <2> QED BY <1>17, <2>1, <2>2
<1>10. \A k \in known : rows[k][pick[k]] \/ <<k, pick[k]>> \in revive
  OBVIOUS
<1> HIDE DEF revive, pairs
<1>11. request \in ReqType
  <2> HIDE DEF kill, known
  <2> QED BY <1>1, <1>7, <1>8, <1>9 DEF ReqType, Steps
<1>12. /\ request.op = q.op /\ request.at = q.at /\ request.keys = q.keys /\ request.kill = kill
       /\ request.revive = revive /\ request.insert = insert /\ request.groups = q.groups
       /\ request.step = "check" /\ request.drop = q.drop /\ request.judged = q.judged
  BY <1>1 DEF ReqType
<1>13. \A k \in q.keys : Wanted(request, k) /\ WillBeLive(request, k)
  <2> SUFFICES ASSUME NEW k \in q.keys, k \in known PROVE WillBeLive(request, k)
    BY <1>1, <1>6, <1>12 DEF Wanted, WillBeLive
  <2>1. pick[k] \in DOMAIN rows[k] /\ <<k, pick[k]>> \notin kill
    BY <1>4, <1>7
  <2> QED BY <1>10, <1>12, <2>1 DEF WillBeLive
<1>14. \A k \in Asked(request) : WillBeLive(request, k) <=> Wanted(request, k)
  <2>1. CASE q.op = "add"
    <3>1. Asked(request) = q.keys
      BY <1>12, <2>1 DEF Asked
    <3> QED BY <1>13, <3>1
  <2>2. CASE q.op = "replace"
    <3>1. Asked(request) = MemberKey(q.at)
      BY <1>12, <2>2 DEF Asked
    <3>2. ASSUME NEW k \in MemberKey(q.at) \ q.keys PROVE ~ WillBeLive(request, k) /\ ~ Wanted(request, k)
      <4>1. k \notin request.insert /\ \A n \in Nat : <<k, n>> \notin request.revive
        BY <1>3, <1>6, <1>9, <1>12
      <4>2. LiveRows(MemberKey(q.at) \ q.keys) \subseteq request.kill
        BY <1>12, <2>2
      <4>3. ~ WillBeLive(request, k)
        BY <1>3, <4>1, <4>2, Killed DEF IInv
      <4> QED BY <1>12, <4>3 DEF Wanted
    <3> QED BY <1>13, <3>1, <3>2
  <2> QED BY <1>1, <2>1, <2>2
<1>15. PlanFor(request, rival[r])
  <2>1. \A k \in insert : ~ Live(k) /\ \A n \in Nat : <<k, n>> \notin revive
    BY <1>2, <1>3, <1>6, <1>9 DEF Live
  <2>2. \A k \in Key, m, n \in Nat : <<k, m>> \in revive /\ <<k, n>> \in revive => m = n
    BY <1>9
  <2>3. \A k \in Key, n \in Nat : <<k, n>> \in revive => n \in DOMAIN rows[k]
    BY <1>4, <1>9
  <2> QED BY <1>12, <1>14, <2>1, <2>2, <2>3 DEF PlanFor, Planned
<1>16. AboutOK(request) /\ ThereOK(request) /\ LapsedOK(request, lapsed[r])
  BY <1>1, <1>2, <1>12 DEF AboutOK, ThereOK, LapsedOK, RequestOK
<1> HIDE DEF request
<1> QED BY <1>5, <1>11, <1>15, <1>16, ReadIInv

(* A query whose rows the request deactivates.                             *)
LEMMA DeactivatingIInv ==
  ASSUME IInv, NEW r \in Request, NEW request \in ReqType, Running(r),
         req' = [req EXCEPT ![r] = request], UNCHANGED <<tables, looking, history>>,
         req[r].step = "rows", req[r].op \in {"remove", "unassign"}, request.step = "check",
         request.op = req[r].op, request.at = req[r].at, request.keys = req[r].keys,
         request.kill = LiveRows(req[r].keys), request.revive = req[r].revive,
         request.insert = req[r].insert, request.groups # {} => req[r].at \in Fence,
         request.drop = req[r].drop, request.judged = req[r].judged
  PROVE  IInv'
<1> DEFINE q == req[r]
<1>1. RequestOK(r) /\ q.keys \subseteq Key
  BY DEF IInv, Types, ReqType
<1>2. q.insert = {} /\ q.revive = {}
  BY <1>1 DEF RequestOK, PlanOK, PlanFor, Planned
<1>3. Asked(request) \subseteq q.keys
  <2>1. \A row \in request.kill : row[1] \in q.keys
    BY <1>1, LiveRowsType
  <2> QED BY <2>1 DEF Asked
<1>4. \A k \in q.keys : ~ WillBeLive(request, k) /\ ~ Wanted(request, k)
  BY <1>1, <1>2, Killed DEF IInv, Wanted
<1>5. PlanFor(request, rival[r])
  BY <1>2, <1>3, <1>4 DEF PlanFor, Planned
<1>6. AboutOK(request) /\ ThereOK(request) /\ LapsedOK(request, lapsed[r])
  BY <1>1 DEF AboutOK, ThereOK, LapsedOK, RequestOK
<1> QED BY <1>5, <1>6, ReadIInv

LEMMA ReadRemovedIInv ==
  ASSUME IInv, NEW r \in Request, ReadRemoved(r)
  PROVE  IInv'
<1> DEFINE q == req[r]
           kill == LiveRows(q.keys)
           pairs == q.fences \X {row[1][3] : row \in kill}
           request == [q EXCEPT !.kill = kill, !.step = "check", !.pairs = pairs]
<1>1. q \in ReqType /\ q.step = "rows" /\ q.op = "remove" /\ Running(r)
  BY DEF IInv, Types, ReadRemoved, Running
<1>2. RequestOK(r) /\ q.at \in Group /\ q.keys \subseteq MemberKey(q.at)
  BY <1>1 DEF IInv, RequestOK, AboutOK
<1>3. kill \in SUBSET (Key \X Nat) /\ \A row \in kill : row[1][3] \in Asset
  BY <1>1, <1>2, KeysOfGroup, LiveRowsType DEF ReqType
<1>4. pairs \in SUBSET Pair
  BY <1>1, <1>3 DEF ReqType, Pair
<1>5. req' = [req EXCEPT ![r] = request] /\ UNCHANGED <<tables, looking, history>>
  BY <1>1 DEF ReadRemoved, IInv, Types
<1> HIDE DEF pairs, kill
<1>6. request \in ReqType
  BY <1>1, <1>3, <1>4 DEF ReqType, Steps
<1>7. /\ request.op = q.op /\ request.at = q.at /\ request.keys = q.keys /\ request.kill = kill
      /\ request.revive = q.revive /\ request.insert = q.insert /\ request.groups = q.groups
      /\ request.step = "check" /\ request.drop = q.drop /\ request.judged = q.judged
  BY <1>1 DEF ReqType
<1>8. request.groups # {} => q.at \in Fence
  BY <1>2, <1>7 DEF RequestOK, AboutOK
<1> HIDE DEF request
<1> QED BY <1>1, <1>5, <1>6, <1>7, <1>8, DeactivatingIInv DEF kill

LEMMA ReadUnassignedIInv ==
  ASSUME IInv, NEW r \in Request, ReadUnassigned(r)
  PROVE  IInv'
<1> DEFINE q == req[r]
           kill == LiveRows(q.keys)
           groups == {row[1][3] : row \in kill}
           request == [q EXCEPT !.kill = kill, !.step = "check", !.groups = groups]
<1>1. q \in ReqType /\ q.step = "rows" /\ q.op = "unassign" /\ Running(r)
  BY DEF IInv, Types, ReadUnassigned, Running
<1>2. q.at \in Fence /\ q.keys \subseteq LinkKey(q.at)
  BY <1>1 DEF IInv, RequestOK, AboutOK
<1>3. kill \in SUBSET (Key \X Nat) /\ \A row \in kill : row[1][3] \in Group
  BY <1>1, <1>2, KeysOfFence, LiveRowsType DEF ReqType
<1>4. groups \in SUBSET Group
  BY <1>3
<1>5. req' = [req EXCEPT ![r] = request] /\ UNCHANGED <<tables, looking, history>>
  BY <1>1 DEF ReadUnassigned, IInv, Types
<1> HIDE DEF groups, kill
<1>6. request \in ReqType
  BY <1>1, <1>3, <1>4 DEF ReqType, Steps
<1>7. /\ request.op = q.op /\ request.at = q.at /\ request.keys = q.keys /\ request.kill = kill
      /\ request.revive = q.revive /\ request.insert = q.insert
      /\ request.step = "check" /\ request.drop = q.drop /\ request.judged = q.judged
  BY <1>1 DEF ReqType
<1> HIDE DEF request
<1> QED BY <1>1, <1>2, <1>5, <1>6, <1>7, DeactivatingIInv DEF kill

LEMMA ReadGroupAssetsIInv ==
  ASSUME IInv, NEW r \in Request, ReadGroupAssets(r)
  PROVE  IInv'
<1> DEFINE q == req[r]
           pairs == q.fences \X Members(q.at)
           request == [q EXCEPT !.step = "check", !.pairs = pairs]
<1>1. q \in ReqType /\ q.step = "rows" /\ q.op = "setGroup" /\ Running(r)
  BY DEF IInv, Types, ReadGroupAssets, Running
<1>2. RequestOK(r) /\ q.keys = {} /\ q.insert = {} /\ q.revive = {} /\ q.kill = {}
  BY <1>1 DEF IInv, RequestOK, AboutOK, PlanOK, PlanFor, Planned
<1>3. pairs \in SUBSET Pair
  BY <1>1 DEF ReqType, Pair, Members
<1>4. req' = [req EXCEPT ![r] = request] /\ UNCHANGED <<tables, looking, history>>
  BY <1>1 DEF ReadGroupAssets, IInv, Types
<1> HIDE DEF pairs
<1>5. request \in ReqType
  BY <1>1, <1>3 DEF ReqType, Steps
<1>6. /\ request.op = q.op /\ request.at = q.at /\ request.keys = q.keys /\ request.kill = q.kill
      /\ request.revive = q.revive /\ request.insert = q.insert /\ request.groups = q.groups
      /\ request.step = "check" /\ request.drop = q.drop /\ request.judged = q.judged
  BY <1>1 DEF ReqType
<1> HIDE DEF request
<1>7. AboutOK(request) /\ ThereOK(request) /\ LapsedOK(request, lapsed[r])
  BY <1>1, <1>2, <1>6 DEF AboutOK, ThereOK, LapsedOK, RequestOK
<1>8. PlanFor(request, rival[r])
  BY <1>1, <1>2, <1>6, EmptyPlan
<1> QED BY <1>4, <1>5, <1>7, <1>8, ReadIInv

LEMMA ReadAssignedIInv ==
  ASSUME IInv, NEW r \in Request, ReadAssigned(r)
  PROVE  IInv'
<1> DEFINE q == req[r]
           insert == {k \in q.keys : ~ Live(k)}
           request == [q EXCEPT !.step = "commit", !.insert = insert]
<1>1. q \in ReqType /\ q.step = "rows" /\ q.op = "assign" /\ Running(r)
  BY DEF IInv, Types, ReadAssigned, Running
<1>2. RequestOK(r) /\ q.revive = {} /\ q.kill = {}
  BY <1>1 DEF IInv, RequestOK, PlanOK, PlanFor, Planned
<1>3. req' = [req EXCEPT ![r] = request] /\ UNCHANGED <<tables, looking, history>>
  BY <1>1 DEF ReadAssigned, IInv, Types
<1>4. insert \in SUBSET Key
  BY <1>1 DEF ReqType
<1> HIDE DEF insert
<1>5. request \in ReqType
  BY <1>1, <1>4 DEF ReqType, Steps
<1>6. /\ request.op = q.op /\ request.at = q.at /\ request.keys = q.keys /\ request.kill = q.kill
      /\ request.revive = q.revive /\ request.insert = insert /\ request.groups = q.groups
      /\ request.step = "commit" /\ request.drop = q.drop /\ request.judged = q.judged
  BY <1>1 DEF ReqType
<1> HIDE DEF request
<1>7. AboutOK(request) /\ ThereOK(request) /\ LapsedOK(request, lapsed[r])
  BY <1>1, <1>2, <1>6 DEF AboutOK, ThereOK, LapsedOK, RequestOK
<1>8. Asked(request) = q.keys
  BY <1>1, <1>6 DEF Asked
<1>9. \A k \in q.keys : Wanted(request, k) /\ WillBeLive(request, k)
  BY <1>1, <1>2, <1>6 DEF Wanted, WillBeLive, Live, insert
<1>10. PlanFor(request, rival[r])
  BY <1>2, <1>6, <1>8, <1>9 DEF PlanFor, Planned, insert
<1> QED BY <1>3, <1>5, <1>7, <1>10, ReadIInv

-----------------------------------------------------------------------------
(* The end of a request.                                                   *)

LEMMA EndIInv ==
  ASSUME IInv, NEW r \in Request, NEW step \in {"committed", "refused"}, NEW gone,
         Finish(r, step, gone),
         rows' \in [Key -> Seq(BOOLEAN)], \A k \in Key : Len(rows'[k]) <= MaxRows,
         group' \in [Group -> {"absent", "active", "inactive"}],
         fence' \in [Fence -> [there : BOOLEAN, active : BOOLEAN, deleted : BOOLEAN]],
         states' \subseteq Pair, UNCHANGED looking,
         OneLiveRow', FencesOK', \A f \in Fence : fence[f].there => fence'[f].there
  PROVE  IInv'
<1>1. step \in Steps
  BY DEF Steps
<1>2. /\ req' \in [Request -> ReqType]
      /\ rival' \in [Request -> SUBSET Key] /\ lapsed' \in [Request -> SUBSET Pair]
      /\ req'[r] = Over(step)
      /\ \A s \in Request \ {r} :
           /\ req'[s] = [req[s] EXCEPT !.drop = req[s].drop \ gone]
           /\ Running(s) => /\ rival'[s] = rival[s] \cup {k \in Key : rows'[k] # rows[k]}
                            /\ lapsed'[s] = lapsed[s] \cup {p \in Pair : ~ Effective(p)'}
  BY <1>1, Finishing DEF IInv
<1>3. Types'
  BY <1>2 DEF IInv, Types
<1>4. ASSUME NEW s \in Request, Running(s)' PROVE RequestOK(s)'
  <2>1. s # r
    BY <1>2, <1>4 DEF Running, Over, Quiet
  <2>2. req'[s] = [req[s] EXCEPT !.drop = req[s].drop \ gone] /\ req[s] \in ReqType
    BY <1>2, <2>1 DEF IInv, Types
  <2>3. SamePlan(req'[s], req[s]) /\ Running(s)
    BY <1>4, <2>2 DEF SamePlan, ReqType, Running
  <2>4. /\ rival'[s] = rival[s] \cup {k \in Key : rows'[k] # rows[k]}
        /\ lapsed'[s] = lapsed[s] \cup {p \in Pair : ~ Effective(p)'}
    BY <1>2, <2>1, <2>3
  <2>5. /\ rival[s] \subseteq rival'[s] /\ lapsed[s] \subseteq lapsed'[s]
        /\ \A k \in Key : rows'[k] # rows[k] => k \in rival'[s]
        /\ \A p \in Pair : ~ Effective(p)' => p \in lapsed'[s]
    BY <2>4
  <2>6. req'[s] \in ReqType
    BY <1>2
  <2> QED BY <2>3, <2>5, <2>6, RequestStays DEF IInv
<1> QED BY <1>3, <1>4 DEF IInv

LEMMA NothingWrittenIInv ==
  ASSUME IInv, NEW r \in Request, NEW step \in {"committed", "refused"}, NEW gone,
         Finish(r, step, gone), UNCHANGED <<tables, looking>>
  PROVE  IInv'
<1>1. UNCHANGED <<rows, group, fence, states>>
  BY DEF tables
<1>2. OneLiveRow' /\ FencesOK'
  BY <1>1 DEF IInv, OneLiveRow, FencesOK
<1> QED BY <1>1, <1>2, EndIInv DEF IInv, Types

LEMMA ValidateIInv ==
  ASSUME IInv, NEW r \in Request, Validate(r)
  PROVE  IInv'
<1> DEFINE q == req[r]
           request == [q EXCEPT !.step = "rows"]
<1>1. q \in ReqType /\ q.step = "validate" /\ Running(r)
  BY DEF IInv, Types, Validate, Running
<1>2. RequestOK(r)
  BY <1>1 DEF IInv
<1>3. CASE Finish(r, "refused", {})
  BY <1>3, NothingWrittenIInv DEF Validate
<1>4. CASE req' = [req EXCEPT ![r].step = "rows"] /\ UNCHANGED history
  <2>1. request \in ReqType
    BY <1>1 DEF ReqType, Steps
  <2>2. req' = [req EXCEPT ![r] = request] /\ UNCHANGED <<tables, looking, history>>
    BY <1>1, <1>4 DEF Validate, IInv, Types
  <2>3. /\ request.op = q.op /\ request.at = q.at /\ request.keys = q.keys /\ request.kill = q.kill
        /\ request.revive = q.revive /\ request.insert = q.insert /\ request.groups = q.groups
        /\ request.step = "rows" /\ request.drop = q.drop /\ request.judged = q.judged
    BY <1>1 DEF ReqType
  <2>4. q.op # "unassign"
    BY <1>1, <1>2 DEF RequestOK, AboutOK
  <2>5. LapsedOK(request, lapsed[r])
    BY <1>2, <2>3 DEF RequestOK, LapsedOK
  <2> HIDE DEF request
  <2>6. AboutOK(request) /\ PlanFor(request, rival[r]) /\ ThereOK(request)
    BY <1>1, <2>1, <2>3, <2>4, PlanKept DEF Planned
  <2> QED BY <2>1, <2>2, <2>5, <2>6, ReadIInv
<1> QED BY <1>3, <1>4 DEF Validate

LEMMA ReadStepIInv ==
  ASSUME IInv, NEW r \in Request, ReadStep(r)
  PROVE  IInv'
BY ReadFencesIInv, ValidateIInv, ReadMembersIInv, ReadRemovedIInv, ReadGroupAssetsIInv,
   ReadAssignedIInv, ReadUnassignedIInv, CheckStepIInv DEF ReadStep

LEMMA Appended ==
  ASSUME NEW old \in Seq(BOOLEAN)
  PROVE  /\ Append(old, TRUE) \in Seq(BOOLEAN) /\ Len(Append(old, TRUE)) = Len(old) + 1
         /\ \A n \in DOMAIN Append(old, TRUE) :
              n = Len(old) + 1 \/ (n \in DOMAIN old /\ Append(old, TRUE)[n] = old[n])
<1>1. /\ Append(old, TRUE) \in Seq(BOOLEAN) /\ Len(Append(old, TRUE)) = Len(old) + 1
      /\ \A n \in 1 .. Len(old) : Append(old, TRUE)[n] = old[n]
  BY AppendProperties
<1> DEFINE new == Append(old, TRUE)
<1>2. /\ DOMAIN new = 1 .. Len(new) /\ DOMAIN old = 1 .. Len(old) /\ Len(old) \in Nat
  BY <1>1
<1> HIDE DEF new
<1>3. Len(new) = Len(old) + 1
  BY <1>1 DEF new
<1>4. \A n \in DOMAIN new : n = Len(old) + 1 \/ n \in 1 .. Len(old)
  BY <1>2, <1>3
<1> QED BY <1>1, <1>2, <1>4 DEF new

(* One row of a key at most is live after a commit that did not clash.     *)
LEMMA OneRowWritten ==
  ASSUME IInv, NEW r \in Request, Commit(r), NEW k \in Key
  PROVE  /\ rows'[k] \in Seq(BOOLEAN) /\ Len(rows'[k]) <= MaxRows /\ AtMostOne(rows'[k])
<1> DEFINE q == req[r]
           old == [n \in DOMAIN rows[k] |-> \/ <<k, n>> \in q.revive
                                            \/ rows[k][n] /\ <<k, n>> \notin q.kill]
<1>1. rows[k] \in Seq(BOOLEAN) /\ DOMAIN rows[k] = 1 .. Len(rows[k]) /\ Len(rows[k]) \in Nat
  BY DEF IInv, Types
<1>2. /\ old \in Seq(BOOLEAN) /\ Len(old) = Len(rows[k]) /\ DOMAIN old = DOMAIN rows[k]
      /\ Len(rows[k]) <= MaxRows
  BY <1>1 DEF IInv, Types
<1>3. rows'[k] = IF k \in q.insert THEN Append(old, TRUE) ELSE old
  BY DEF Commit, WriteTables, Written, Rewrite
<1>4. PlanFor(q, rival[r]) /\ Planned(q) /\ q \in ReqType
  BY DEF IInv, RequestOK, PlanOK, Commit, Running, Planned, Types
<1>5. \A n \in DOMAIN rows[k] : n \in Nat /\ (old[n] <=> <<k, n>> \in q.revive \/ (rows[k][n] /\ <<k, n>> \notin q.kill))
  BY <1>1
<1>6. Clashes(q) = {}
  BY DEF Commit
<1> HIDE DEF old
<1>7. CASE k \in q.insert
  <2>1. \A n \in DOMAIN rows[k] : ~ rows[k][n] /\ <<k, n>> \notin q.revive
    BY <1>4, <1>5, <1>6, <1>7 DEF Clashes, Live, PlanFor
  <2>2. rows'[k] = Append(old, TRUE)
    BY <1>3, <1>7
  <2>8. Len(rows[k]) < MaxRows
    BY <1>7 DEF Commit
  <2>6. \A n \in DOMAIN old : ~ old[n]
    BY <1>1, <1>2, <1>5, <2>1
  <2>3. \A n \in DOMAIN rows'[k] : rows'[k][n] => n = Len(old) + 1
    BY <1>2, <2>2, <2>6, Appended
  <2>4. AtMostOne(rows'[k])
    BY <2>3 DEF AtMostOne
  <2>5. MaxRows \in Nat
    BY ConstantsOK
  <2>7. rows'[k] \in Seq(BOOLEAN) /\ Len(rows'[k]) = Len(rows[k]) + 1
    BY <1>2, <2>2, Appended
  <2>9. Len(rows[k]) + 1 <= MaxRows
    BY <1>1, <2>5, <2>8
  <2> QED BY <2>4, <2>7, <2>9
<1>8. CASE k \notin q.insert
  <2>1. ASSUME NEW m \in DOMAIN rows[k], NEW n \in DOMAIN rows[k], old[m], old[n], m # n
        PROVE  FALSE
    <3>1. CASE <<k, m>> \in q.revive
      <4>1. k \in {row[1] : row \in {w \in q.revive : \E j \in DOMAIN rows[w[1]] : j # w[2] /\ rows[w[1]][j]}}
              \/ ~ rows[k][n]
        BY <2>1, <3>1
      <4>2. ~ rows[k][n]
        BY <1>6, <4>1 DEF Clashes
      <4>3. <<k, n>> \in q.revive
        BY <1>5, <2>1, <4>2
      <4> QED BY <1>4, <1>5, <2>1, <3>1, <4>3 DEF PlanFor
    <3>2. CASE <<k, n>> \in q.revive
      <4>1. k \in {row[1] : row \in {w \in q.revive : \E j \in DOMAIN rows[w[1]] : j # w[2] /\ rows[w[1]][j]}}
              \/ ~ rows[k][m]
        BY <2>1, <3>2
      <4>2. ~ rows[k][m]
        BY <1>6, <4>1 DEF Clashes
      <4>3. <<k, m>> \in q.revive
        BY <1>5, <2>1, <4>2
      <4> QED BY <1>4, <1>5, <2>1, <3>2, <4>3 DEF PlanFor
    <3>3. CASE <<k, m>> \notin q.revive /\ <<k, n>> \notin q.revive
      BY <1>5, <2>1, <3>3 DEF IInv, OneLiveRow, AtMostOne
    <3> QED BY <3>1, <3>2, <3>3
  <2>2. rows'[k] = old /\ DOMAIN old = DOMAIN rows[k]
    BY <1>1, <1>2, <1>3, <1>8
  <2>3. AtMostOne(rows'[k])
    BY <2>1, <2>2 DEF AtMostOne
  <2> QED BY <1>2, <2>2, <2>3
<1> QED BY <1>7, <1>8

LEMMA FenceWritten ==
  ASSUME IInv, NEW r \in Request, Commit(r)
  PROVE  /\ fence' \in [Fence -> [there : BOOLEAN, active : BOOLEAN, deleted : BOOLEAN]]
         /\ \A f \in Fence : /\ fence'[f].there = fence[f].there
                             /\ fence[f].deleted => fence'[f].deleted
         /\ FencesOK'
<1> DEFINE q == req[r]
<1>1. RequestOK(r) /\ q \in ReqType
  BY DEF IInv, Types, Commit, Running
<1>2. fence \in [Fence -> [there : BOOLEAN, active : BOOLEAN, deleted : BOOLEAN]]
  BY DEF IInv, Types
<1>3. CASE q.op = "setFence" \/ q.step = "delete"
  <2>1. q.at \in Fence /\ fence[q.at].there /\ q.flag \in BOOLEAN
    BY <1>1, <1>3 DEF RequestOK, AboutOK, ReqType
  <2>2. fence' = [fence EXCEPT ![q.at] = FenceRow(q)]
    BY <1>3 DEF Commit, WriteTables
  <2>3. /\ FenceRow(q) \in [there : BOOLEAN, active : BOOLEAN, deleted : BOOLEAN]
        /\ FenceRow(q).there = fence[q.at].there
        /\ fence[q.at].deleted => FenceRow(q).deleted
    BY <1>2, <2>1 DEF FenceRow
  <2> QED BY <1>2, <2>1, <2>2, <2>3 DEF IInv, FencesOK
<1>4. CASE ~ (q.op = "setFence" \/ q.step = "delete")
  <2>1. fence' = fence
    BY <1>4 DEF Commit, WriteTables
  <2> QED BY <1>2, <2>1 DEF IInv, FencesOK
<1> QED BY <1>3, <1>4

LEMMA CommitIInv ==
  ASSUME IInv, NEW r \in Request, Commit(r)
  PROVE  IInv'
<1> DEFINE q == req[r]
<1>1. RequestOK(r) /\ q \in ReqType
  BY DEF IInv, Types, Commit, Running
<1>2. \A k \in Key : rows'[k] \in Seq(BOOLEAN) /\ Len(rows'[k]) <= MaxRows /\ AtMostOne(rows'[k])
  BY OneRowWritten
<1>3. rows' \in [Key -> Seq(BOOLEAN)]
  <2>1. rows' = [k \in Key |-> Rewrite(q, k)]
    BY DEF Commit, WriteTables, Written
  <2>2. \A k \in Key : rows'[k] = Rewrite(q, k)
    BY <2>1
  <2> QED BY <1>2, <2>1, <2>2
<1>4. group' \in [Group -> {"absent", "active", "inactive"}]
  BY <1>1 DEF IInv, Types, Commit, WriteTables, RequestOK, AboutOK
<1>5. states' \subseteq Pair /\ UNCHANGED looking
  BY DEF IInv, Types, Commit, WriteTables
<1>6. OneLiveRow'
  BY <1>2 DEF OneLiveRow
<1>7. /\ fence' \in [Fence -> [there : BOOLEAN, active : BOOLEAN, deleted : BOOLEAN]]
      /\ \A f \in Fence : fence[f].there => fence'[f].there
      /\ FencesOK'
  BY FenceWritten
<1>8. Finish(r, "committed", q.drop)
  BY DEF Commit
<1> QED BY <1>2, <1>3, <1>4, <1>5, <1>6, <1>7, <1>8, EndIInv

LEMMA CreateIInv ==
  ASSUME IInv, NEW r \in Request, CreateGroup(r) \/ CreateFence(r)
  PROVE  IInv'
<1>1. CASE CreateGroup(r)
  <2>1. PICK g \in Group, ks \in SUBSET Key :
          /\ group' = [group EXCEPT ![g] = "active"]
          /\ rows' = [k \in Key |-> IF k \in ks THEN <<TRUE>> ELSE rows[k]]
          /\ UNCHANGED <<fence, states, looking>>
          /\ Finish(r, "committed", {})
    BY <1>1, KeysOfGroup DEF CreateGroup
  <2>2. <<TRUE>> \in Seq(BOOLEAN) /\ Len(<<TRUE>>) = 1 /\ AtMostOne(<<TRUE>>) /\ 1 <= MaxRows
    BY ConstantsOK DEF AtMostOne
  <2>3. rows' \in [Key -> Seq(BOOLEAN)] /\ \A k \in Key : rows'[k] = <<TRUE>> \/ rows'[k] = rows[k]
    BY <2>1, <2>2 DEF IInv, Types
  <2>4. \A k \in Key : Len(rows'[k]) <= MaxRows /\ AtMostOne(rows'[k])
    BY <2>2, <2>3 DEF IInv, Types, OneLiveRow
  <2>5. OneLiveRow' /\ FencesOK'
    BY <2>1, <2>4 DEF OneLiveRow, IInv, FencesOK
  <2>6. group' \in [Group -> {"absent", "active", "inactive"}]
    BY <2>1 DEF IInv, Types
  <2>7. /\ fence' \in [Fence -> [there : BOOLEAN, active : BOOLEAN, deleted : BOOLEAN]]
        /\ states' \subseteq Pair /\ \A f \in Fence : fence[f].there => fence'[f].there
    BY <2>1 DEF IInv, Types
  <2> QED BY <2>1, <2>3, <2>4, <2>5, <2>6, <2>7, EndIInv
<1>2. CASE CreateFence(r)
  <2>1. PICK f \in Fence, flag \in BOOLEAN :
          /\ ~ fence[f].there
          /\ fence' = [fence EXCEPT ![f] = [NewFence EXCEPT !.there = TRUE, !.active = flag]]
          /\ UNCHANGED <<rows, group, states, looking>>
          /\ Finish(r, "committed", {})
    BY <1>2 DEF CreateFence
  <2>2. /\ fence' \in [Fence -> [there : BOOLEAN, active : BOOLEAN, deleted : BOOLEAN]]
        /\ \A h \in Fence : fence[h].there => fence'[h].there
        /\ \A h \in Fence : fence'[h].deleted => fence'[h].there
    BY <2>1 DEF IInv, Types, FencesOK, NewFence
  <2>3. OneLiveRow' /\ FencesOK'
    BY <2>1, <2>2 DEF IInv, OneLiveRow, FencesOK
  <2> QED BY <2>1, <2>2, <2>3, EndIInv DEF IInv, Types
<1> QED BY <1>1, <1>2

LEMMA EndStepIInv ==
  ASSUME IInv, NEW r \in Request, EndStep(r)
  PROVE  IInv'
<1>1. CASE Refuse(r)
  BY <1>1, NothingWrittenIInv DEF Refuse
<1> QED BY <1>1, CommitIInv, CreateIInv DEF EndStep

(* Evaluations.                                                            *)
LEMMA StatesIInv ==
  ASSUME IInv, UNCHANGED <<rows, group, fence, req, history>>,
         states' \subseteq Pair, looking' \in Pair \cup {NoPair}
  PROVE  IInv'
<1>1. UNCHANGED <<rival, lapsed>> /\ \A p \in Pair : Effective(p)' <=> Effective(p)
  BY EffectiveKept DEF history
<1>2. Types' /\ OneLiveRow' /\ FencesOK'
  BY <1>1 DEF IInv, Types, OneLiveRow, FencesOK
<1>3. ASSUME NEW r \in Request, Running(r)' PROVE RequestOK(r)'
  <2>1. Running(r) /\ SamePlan(req'[r], req[r]) /\ req'[r] \in ReqType
    BY <1>3 DEF Running, SamePlan, IInv, Types
  <2>2. \A p \in Pair : ~ Effective(p)' => p \in lapsed'[r]
    BY <1>1, <2>1 DEF IInv, RequestOK, LapsedOK
  <2> QED BY <1>1, <2>1, <2>2, RequestStays DEF IInv
<1> QED BY <1>2, <1>3 DEF IInv

-----------------------------------------------------------------------------
LEMMA InitIInv == Init => IInv
<1> SUFFICES ASSUME Init PROVE IInv
  OBVIOUS
<1>1. rows \in [Key -> Seq(BOOLEAN)] /\ \A k \in Key : Len(rows[k]) <= MaxRows /\ AtMostOne(rows[k])
  BY ConstantsOK DEF Init
<1>2. Quiet \in ReqType /\ Quiet.step = "idle"
  BY DEF Quiet, ReqType, Ops, Steps
<1>6. /\ NewFence \in [there : BOOLEAN, active : BOOLEAN, deleted : BOOLEAN]
      /\ [NewFence EXCEPT !.there = TRUE, !.active = TRUE]
           \in [there : BOOLEAN, active : BOOLEAN, deleted : BOOLEAN]
      /\ ~ NewFence.deleted /\ ~ [NewFence EXCEPT !.there = TRUE, !.active = TRUE].deleted
  BY DEF NewFence
<1>7. fence \in [Fence -> {NewFence, [NewFence EXCEPT !.there = TRUE, !.active = TRUE]}]
  BY DEF Init
<1>8. fence \in [Fence -> [there : BOOLEAN, active : BOOLEAN, deleted : BOOLEAN]]
  BY <1>6, <1>7
<1>4. FencesOK
  BY <1>6, <1>7 DEF FencesOK
<1>9. /\ group \in [Group -> {"absent", "active", "inactive"}]
      /\ states \subseteq Pair /\ looking \in Pair \cup {NoPair}
  BY DEF Init
<1>10. /\ req \in [Request -> ReqType]
       /\ rival \in [Request -> SUBSET Key] /\ lapsed \in [Request -> SUBSET Pair]
  BY <1>2 DEF Init
<1>3. Types
  BY <1>1, <1>8, <1>9, <1>10 DEF Types
<1>5. \A r \in Request : ~ Running(r)
  BY <1>2 DEF Init, Running
<1> QED BY <1>1, <1>3, <1>4, <1>5 DEF IInv, OneLiveRow

LEMMA NextIInv == IInv /\ [Next]_vars => IInv'
<1> SUFFICES ASSUME IInv, [Next]_vars PROVE IInv'
  OBVIOUS
<1>1. CASE \E r \in Request : BeginStep(r) \/ ReadStep(r) \/ EndStep(r)
  BY <1>1, BeginStepIInv, ReadStepIInv, EndStepIInv
<1>2. CASE Look
  BY <1>2, StatesIInv DEF Look, IInv, Types, tables
<1>3. CASE StoreState
  BY <1>3, StatesIInv DEF StoreState, IInv, Types
<1>4. CASE UNCHANGED vars
  BY <1>4, StatesIInv DEF vars, tables, IInv, Types
<1> QED BY <1>1, <1>2, <1>3, <1>4 DEF Next

THEOREM Invariance == Spec => []IInv
BY InitIInv, NextIInv, PTL DEF Spec

-----------------------------------------------------------------------------
(* Types: the tables and the history of the requests.                      *)
THEOREM Typing == Spec => []TypeOK
<1>1. IInv => TypeOK
  BY DEF IInv, Types, TypeOK
<1> QED BY <1>1, Invariance, PTL

(* One live row of a key, whatever requests of crud_asset_group.py and     *)
(* crud_geofence.py overlap.                                               *)
THEOREM OneRow == Spec => []OneLiveRow
<1>1. IInv => OneLiveRow
  BY DEF IInv
<1> QED BY <1>1, Invariance, PTL

(* A deleted fence stays deleted and watches nothing.                      *)
THEOREM Deleted == Spec => DeletedWatchesNothing
<1> DEFINE Kept == \A f \in Fence : fence[f].deleted =>
                     fence'[f].deleted /\ \A a \in Asset : ~ Effective(<<f, a>>)'
<1>1. IInv /\ [Next]_vars => Kept
  <2> SUFFICES ASSUME IInv, [Next]_vars, NEW f \in Fence, fence[f].deleted
               PROVE  fence'[f].deleted
    BY DEF Effective, Usable
  <2>1. CASE UNCHANGED fence
    BY <2>1
  <2>2. CASE \E r \in Request : Commit(r)
    BY <2>2, FenceWritten
  <2>3. CASE \E r \in Request : CreateFence(r)
    BY <2>3 DEF CreateFence, IInv, Types, FencesOK
  <2>4. CASE Look \/ StoreState \/ UNCHANGED vars
    BY <2>1, <2>4 DEF Look, StoreState, vars, tables
  <2>5. ASSUME NEW r \in Request, BeginStep(r) PROVE UNCHANGED fence
    BY <2>5 DEF BeginStep, ReplaceMembers, AddMembers, RemoveMembers, SetGroupActive, AssignGroups,
       RemoveGroups, AssignAssets, DeactivateAssignment, SetFenceActive, DeleteFence, Begin, tables
  <2>6. ASSUME NEW r \in Request, ReadStep(r) PROVE UNCHANGED fence
    BY <2>6 DEF ReadStep, ReadFences, Validate, ReadMembers, ReadRemoved, ReadGroupAssets,
       ReadAssigned, ReadUnassigned, ReadAssetsOfGroup, HasEffectiveAssignment, FindState, Checked,
       tables
  <2>7. ASSUME NEW r \in Request, Refuse(r) \/ CreateGroup(r) PROVE UNCHANGED fence
    BY <2>7 DEF Refuse, CreateGroup, tables
  <2>8. CASE \E r \in Request : BeginStep(r) \/ ReadStep(r)
    BY <2>1, <2>5, <2>6, <2>8
  <2>9. CASE \E r \in Request : EndStep(r)
    BY <2>1, <2>2, <2>3, <2>7, <2>9 DEF EndStep
  <2> QED BY <2>4, <2>8, <2>9 DEF Next
<1> QED BY <1>1, Invariance, PTL DEF Spec, DeletedWatchesNothing

(* A running request is ended by its own commit or refusal.                *)
LEMMA EndsItself ==
  ASSUME IInv, [Next]_vars, NEW r \in Request, Running(r), req'[r].step \in {"committed", "refused"}
  PROVE  \/ req'[r].step = "committed" /\ Commit(r)
         \/ req'[r].step = "refused" /\ (Refuse(r) \/ Validate(r))
<1>0. req[r] \in ReqType /\ req'[r].step # req[r].step
  BY DEF Running, IInv, Types
<1>1. ASSUME NEW s \in Request, NEW step \in {"committed", "refused"}, NEW gone, Finish(s, step, gone)
      PROVE  s = r /\ req'[r].step = step
  <2>1. req'[s] = Over(step) /\ \A t \in Request \ {s} : req'[t] = [req[t] EXCEPT !.drop = req[t].drop \ gone]
    <3>1. step \in Steps
      BY DEF Steps
    <3> QED BY <1>1, <3>1, Finishing DEF IInv
  <2>2. s = r
    BY <1>0, <2>1 DEF ReqType
  <2> QED BY <2>1, <2>2 DEF Over, Quiet
<1>2. ASSUME NEW s \in Request, BeginStep(s)
      PROVE  FALSE
  <2>1. PICK request : Begin(s, request)
    BY <1>2 DEF BeginStep, ReplaceMembers, AddMembers, RemoveMembers, SetGroupActive, AssignGroups,
       RemoveGroups, AssignAssets, DeactivateAssignment, SetFenceActive, DeleteFence
  <2>2. req[s].step = "idle" /\ req' = [req EXCEPT ![s] = request]
    BY <2>1 DEF Begin
  <2> QED BY <1>0, <2>2 DEF Running, IInv, Types
<1>3. ASSUME NEW s \in Request, ReadStep(s), ~ Validate(s)
      PROVE  FALSE
  <2>1. PICK q \in ReqType : q = req[s]
    BY DEF IInv, Types
  <2>2. req \in [Request -> ReqType]
    BY DEF IInv, Types
  <2>3. ASSUME NEW request, req' = [req EXCEPT ![s] = request], request.step \in {"rows", "check", "commit"}
        PROVE  FALSE
    BY <1>0, <2>2, <2>3
  <2>4. CASE ReadFences(s)
    <3> DEFINE fences == {f \in Fence : Live(<<"link", f, q.at>>)}
    <3>1. req' = [req EXCEPT ![s] = [q EXCEPT !.fences = fences, !.step = "rows"]]
      BY <2>1, <2>2, <2>4 DEF ReadFences
    <3> HIDE DEF fences
    <3>2. [q EXCEPT !.fences = fences, !.step = "rows"].step = "rows"
      BY <2>1 DEF ReqType
    <3> QED BY <2>3, <3>1, <3>2
  <2>5. CASE ReadMembers(s)
    <3>1. PICK pick \in [Known(req[s].keys) -> 1 .. MaxRows] :
       LET kill == IF req[s].op = "add" THEN {} ELSE LiveRows(MemberKey(req[s].at) \ req[s].keys)
           revive == {<<k, pick[k]>> : k \in {j \in Known(req[s].keys) : ~ rows[j][pick[j]]}}
          IN req' = [req EXCEPT ![s].kill = kill, ![s].revive = revive,
                                ![s].insert = req[s].keys \ Known(req[s].keys),
                                ![s].pairs = req[s].fences \X {row[1][3] : row \in kill},
                                ![s].step = "check"]
      BY Zenon, <2>5 DEF ReadMembers
    <3>2. PICK kill, revive, insert, pairs :
       req' = [req EXCEPT ![s].kill = kill, ![s].revive = revive, ![s].insert = insert,
                          ![s].pairs = pairs, ![s].step = "check"]
      BY <3>1
    <3> DEFINE request == [q EXCEPT !.kill = kill, !.revive = revive, !.insert = insert,
                                    !.pairs = pairs, !.step = "check"]
    <3>3. req' = [req EXCEPT ![s] = request]
      BY <2>1, <2>2, <3>2
    <3>4. request.step = "check"
      BY <2>1 DEF ReqType
    <3> QED BY <2>3, <3>3, <3>4
  <2>6. CASE ReadRemoved(s)
    BY <2>1, <2>2, <2>3, <2>6 DEF ReadRemoved, ReqType
  <2>7. CASE ReadGroupAssets(s)
    BY <2>1, <2>2, <2>3, <2>7 DEF ReadGroupAssets, ReqType
  <2>8. CASE ReadAssigned(s)
    BY <2>1, <2>2, <2>3, <2>8 DEF ReadAssigned, ReqType
  <2>9. CASE ReadUnassigned(s)
    BY <2>1, <2>2, <2>3, <2>9 DEF ReadUnassigned, ReqType
  <2>10. CASE ReadAssetsOfGroup(s)
    <3>1. PICK groups, pairs : q.step = "check" /\ req' = [req EXCEPT ![s].groups = groups, ![s].pairs = pairs]
      BY <2>1, <2>10 DEF ReadAssetsOfGroup
    <3> DEFINE request == [q EXCEPT !.groups = groups, !.pairs = pairs]
    <3>2. req' = [req EXCEPT ![s] = request] /\ request.step = "check"
      BY <2>1, <2>2, <3>1 DEF ReqType
    <3> QED BY <2>3, <3>2
  <2>11. CASE HasEffectiveAssignment(s)
    <3>1. q.step = "check"
      BY <2>1, <2>11 DEF HasEffectiveAssignment
    <3>2. PICK p, judged : req' = [req EXCEPT ![s].pairs = @ \ {p}, ![s].judged = judged]
      BY <2>11 DEF HasEffectiveAssignment
    <3>3. req' = [req EXCEPT ![s] = [q EXCEPT !.pairs = @ \ {p}, !.judged = judged]]
      BY <2>1, <2>2, <3>2
    <3>4. [q EXCEPT !.pairs = @ \ {p}, !.judged = judged].step = "check"
      BY <2>1, <3>1 DEF ReqType
    <3> QED BY <2>3, <3>3, <3>4
  <2>12. CASE FindState(s)
    BY <2>1, <2>2, <2>3, <2>12 DEF FindState, ReqType
  <2>13. CASE Checked(s)
    BY <2>1, <2>2, <2>3, <2>13 DEF Checked, ReqType
  <2> QED BY <1>3, <2>4, <2>5, <2>6, <2>7, <2>8, <2>9, <2>10, <2>11, <2>12, <2>13 DEF ReadStep
<1>4. ASSUME NEW s \in Request, Validate(s)
      PROVE  s = r /\ req'[r].step = "refused"
  <2>1. CASE Finish(s, "refused", {})
    BY <1>1, <2>1
  <2>2. CASE req' = [req EXCEPT ![s].step = "rows"]
    BY <1>0, <2>2 DEF IInv, Types, ReqType
  <2> QED BY <1>4, <2>1, <2>2 DEF Validate
<1>5. ASSUME NEW s \in Request, Commit(s)
      PROVE  s = r /\ req'[r].step = "committed"
  BY <1>1, <1>5 DEF Commit
<1>6. ASSUME NEW s \in Request, Refuse(s)
      PROVE  s = r /\ req'[r].step = "refused"
  BY <1>1, <1>6 DEF Refuse
<1>7. ASSUME NEW s \in Request, CreateGroup(s) \/ CreateFence(s)
      PROVE  FALSE
  <2>1. s = r /\ req[s].step = "idle"
    BY <1>1, <1>7 DEF CreateGroup, CreateFence
  <2> QED BY <2>1 DEF Running
<1>8. CASE Look \/ StoreState \/ UNCHANGED vars
  BY <1>0, <1>8 DEF Look, StoreState, vars
<1> QED BY <1>2, <1>3, <1>4, <1>5, <1>6, <1>7, <1>8 DEF Next, EndStep

(* When a request commits, every key that no other request changed is left *)
(* as it was asked.                                                        *)
THEOREM AsAsked == Spec => OutcomeAsAsked
<1>1. IInv /\ [Next]_vars =>
        \A r \in Request : Running(r) /\ req'[r].step = "committed" =>
          \A k \in Asked(req[r]) \ rival[r] : Live(k)' = Wanted(req[r], k)
  <2> SUFFICES ASSUME IInv, [Next]_vars, NEW r \in Request, Running(r), req'[r].step = "committed",
                      NEW k \in Asked(req[r]) \ rival[r]
               PROVE  Live(k)' = Wanted(req[r], k)
    OBVIOUS
  <2>1. Commit(r)
    BY EndsItself
  <2>2. RequestOK(r) /\ req[r] \in ReqType
    BY DEF IInv, Types
  <2>3. k \in Key
    BY <2>2, AskedAreKeys DEF RequestOK
  <2>4. Live(k)' <=> WillBeLive(req[r], k)
    BY <2>1, <2>3, LiveAfter DEF IInv, Commit, WriteTables
  <2>5. WillBeLive(req[r], k) <=> Wanted(req[r], k)
    BY <2>1, <2>2 DEF RequestOK, PlanOK, PlanFor, Planned, Commit
  <2>6. Live(k)' <=> Wanted(req[r], k)
    BY <2>4, <2>5
  <2> QED BY <2>6 DEF Live, Wanted
<1> QED BY <1>1, Invariance, PTL DEF Spec, OutcomeAsAsked

(* The unique index refuses a request only for a rival or an ambiguous key.*)
THEOREM Refusals == Spec => RefusedForARival
<1>1. IInv /\ [Next]_vars =>
        \A r \in Request : req[r].step = "commit" /\ req'[r].step = "refused" =>
          \E k \in Clashes(req[r]) : k \in rival[r] \/ Len(rows[k]) > 1
  <2> SUFFICES ASSUME IInv, [Next]_vars, NEW r \in Request,
                      req[r].step = "commit", req'[r].step = "refused"
               PROVE  \E k \in Clashes(req[r]) : k \in rival[r] \/ Len(rows[k]) > 1
    OBVIOUS
  <2> DEFINE q == req[r]
  <2>1. Running(r)
    BY DEF Running
  <2>2. Clashes(q) # {}
    BY <2>1, EndsItself DEF Refuse, Validate
  <2>3. PlanFor(q, rival[r]) /\ Planned(q) /\ q \in ReqType
    BY <2>1 DEF IInv, Types, RequestOK, PlanOK, Planned
  <2>4. CASE \E k \in q.insert : Live(k)
    BY <2>3, <2>4 DEF PlanFor, Clashes
  <2>5. CASE \E w \in q.revive : \E n \in DOMAIN rows[w[1]] : n # w[2] /\ rows[w[1]][n]
    <3>1. PICK w \in q.revive, n \in Nat :
            n \in DOMAIN rows[w[1]] /\ n # w[2] /\ rows[w[1]][n]
      BY <2>3, <2>5 DEF IInv, Types, ReqType
    <3>2. w[1] \in Key /\ w[2] \in Nat /\ w = <<w[1], w[2]>>
      BY <2>3 DEF ReqType
    <3>3. w[1] \in Clashes(q)
      BY <3>1 DEF Clashes
    <3>4. w[1] \notin rival[r] => w[2] \in DOMAIN rows[w[1]]
      BY <2>3, <3>2 DEF PlanFor
    <3>5. DOMAIN rows[w[1]] = 1 .. Len(rows[w[1]]) /\ Len(rows[w[1]]) \in Nat
      BY <3>2 DEF IInv, Types
    <3>6. w[1] \notin rival[r] => Len(rows[w[1]]) > 1
      BY <3>1, <3>2, <3>4, <3>5
    <3> QED BY <3>3, <3>6
  <2> QED BY <2>2, <2>4, <2>5 DEF Clashes
<1> QED BY <1>1, Invariance, PTL DEF Spec, RefusedForARival

(* A request drops the state of a pair only if the pair was out of effect  *)
(* at some moment since it began.                                          *)
THEOREM StatesSurvive == Spec => StateSurvivesCover
<1>1. IInv /\ [Next]_vars =>
        \A r \in Request, p \in states \ states' :
          Running(r) /\ req'[r].step = "committed" => p \in lapsed[r]
  <2> SUFFICES ASSUME IInv, [Next]_vars, NEW r \in Request, NEW p \in states \ states',
                      Running(r), req'[r].step = "committed"
               PROVE  p \in lapsed[r]
    OBVIOUS
  <2>1. Commit(r)
    BY EndsItself
  <2>2. p \in req[r].drop
    BY <2>1 DEF Commit, WriteTables
  <2> QED BY <2>2 DEF IInv, RequestOK, LapsedOK
<1> QED BY <1>1, Invariance, PTL DEF Spec, StateSurvivesCover
=============================================================================
