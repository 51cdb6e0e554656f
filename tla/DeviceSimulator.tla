---------------------------- MODULE DeviceSimulator ----------------------------
(***************************************************************************)
(* The LoRaWAN device of infra/chirpstack-simulator: three loops and one   *)
(* goroutine per answered command share a frame counter, the flag of a     *)
(* downlink to acknowledge, the keys of the session and two channels.  The *)
(* network server and the gateway's MQTT client are external.              *)
(***************************************************************************)
EXTENDS Integers, Sequences, SequencesExt, FiniteSets

CONSTANTS
  Capacity,        \* of both channels; 100 in the code
  MaxFrames,       \* bound: frames after which no location is sent
  MaxJoins,        \* bound: join requests
  MaxDownlinks     \* bound: commands sent to the device

ASSUME CapacityIsPositive == Capacity \in Nat \ {0}
ASSUME BoundsAreNumbers == MaxFrames \in Nat /\ MaxJoins \in Nat /\ MaxDownlinks \in Nat

VARIABLES
  cancelled,       \* the context of Run: a signal, or the error of a loop
  uplink,          \* uplinkLoop: where it is, its ack flag and its frame
  answer,          \* per command, the goroutine that answers it
  downlink,        \* downlinkLoop: where it is
  sender,          \* uplinkSenderLoop: where it is, and the frame in its hands
  outboundUplinks, downlinkFrames,      \* the channels
  activated, devNonce, keys,            \* keys: the session's address and two keys
  pendingAck, fCntUp,
  published,       \* the frames that reached the network, in order
  accepted, downs  \* network: join nonces answered, commands sent

loops == <<uplink, answer, downlink, sender>>
device == <<activated, devNonce, keys>>
network == <<accepted, downs>>
deviceVars == <<cancelled, loops, outboundUplinks, downlinkFrames, device, pendingAck, fCntUp, published, network>>

NoFrame == [kind |-> "none"]
Join(nonce) == [kind |-> "join", nonce |-> nonce]
Data(fcnt, ack, command, with) ==
  [kind |-> "data", fcnt |-> fcnt, ack |-> ack, command |-> command, keys |-> with]
At(where, ack, frame) == [at |-> where, ack |-> ack, frame |-> frame]
Location == 0      \* the command that a location frame answers: none

Command == 1 .. MaxDownlinks

(* What a session consists of: DevAddr, AppSKey and NwkSKey.  A part is    *)
(* named by the join-accept it comes from and by the request whose nonce   *)
(* it was derived with.                                                    *)
Parts == {"address", "appSKey", "nwkSKey"}
Part(accept, request) == [accept |-> accept, request |-> request]
NoPart == Part(0, 0)
NoKeys == [p \in Parts |-> NoPart]

DeviceInit ==
  /\ cancelled = FALSE
  /\ uplink = At("top", FALSE, NoFrame)
  /\ answer = [c \in Command |-> At("none", FALSE, NoFrame)]
  /\ downlink = [at |-> "idle", frame |-> NoFrame, derived |-> NoKeys]
  /\ sender = At("idle", FALSE, NoFrame)
  /\ outboundUplinks = <<>> /\ downlinkFrames = <<>>
  /\ activated = FALSE /\ devNonce = 0 /\ keys = NoKeys
  /\ pendingAck = FALSE /\ fCntUp = 0
  /\ published = <<>> /\ accepted = {} /\ downs = <<>>

-----------------------------------------------------------------------------
\* The bounds stop a round before it begins, unless the device is stopping.
MayGoOn == IF activated THEN fCntUp < MaxFrames ELSE devNonce < MaxJoins

(* joinAccept holds the mutex from its first store to its last.            *)
Locked == downlink.at = "store" /\ \E p \in Parts : downlink.derived[p] = NoPart

(* uplinkLoop.  The state is read before the join request is built; the    *)
(* timers between rounds are the freedom of LoopTop.                       *)
LoopTop ==
  /\ uplink.at = "top" /\ (cancelled \/ (MayGoOn /\ ~ Locked))
  /\ uplink' = At(IF cancelled THEN "ended" ELSE IF activated THEN "ack" ELSE "join", FALSE, NoFrame)
  /\ UNCHANGED <<cancelled, answer, downlink, sender, outboundUplinks, downlinkFrames, device,
                 pendingAck, fCntUp, published, network>>

JoinRequest ==
  /\ uplink.at = "join"
  /\ devNonce' = devNonce + 1
  /\ uplink' = At("push", FALSE, Join(devNonce + 1))
  /\ UNCHANGED <<cancelled, answer, downlink, sender, outboundUplinks, downlinkFrames, activated, keys,
                 pendingAck, fCntUp, published, network>>

(* consumePendingAck and nextFCntUp: each takes the mutex, the pair does   *)
(* not.                                                                    *)
\* Mutant: the flag is read and not cleared.
FlagStays == pendingAck

AfterConsume == FALSE

AfterFCnt == fCntUp + 1

UplinkTakesAck ==
  /\ uplink.at = "ack" /\ ~ Locked
  /\ uplink' = At("count", pendingAck, NoFrame)
  /\ pendingAck' = AfterConsume
  /\ UNCHANGED <<cancelled, answer, downlink, sender, outboundUplinks, downlinkFrames, device,
                 fCntUp, published, network>>

UplinkTakesCount ==
  /\ uplink.at = "count" /\ ~ Locked
  /\ uplink' = At("address", uplink.ack, Data(fCntUp, uplink.ack, Location, NoKeys))
  /\ fCntUp' = AfterFCnt
  /\ UNCHANGED <<cancelled, answer, downlink, sender, outboundUplinks, downlinkFrames, device,
                 pendingAck, published, network>>

(* sendDataFrame reads the address and the keys one after the other, and   *)
(* without the mutex: joinAccept may store others in between.              *)
NextRead == [address |-> "appSKey", appSKey |-> "nwkSKey", nwkSKey |-> "push"]
WithPart(f, p) == Data(f.fcnt, f.ack, f.command, [f.keys EXCEPT ![p] = keys[p]])

UplinkReadsPart ==
  /\ uplink.at \in Parts
  /\ uplink' = At(NextRead[uplink.at], uplink.ack, WithPart(uplink.frame, uplink.at))
  /\ UNCHANGED <<cancelled, answer, downlink, sender, outboundUplinks, downlinkFrames, device,
                 pendingAck, fCntUp, published, network>>

(* enqueueUplink: a send to a channel, without the context.                *)
UplinkPushes ==
  /\ uplink.at = "push" /\ Len(outboundUplinks) < Capacity
  /\ outboundUplinks' = Append(outboundUplinks, uplink.frame)
  /\ uplink' = At("top", FALSE, NoFrame)
  /\ UNCHANGED <<cancelled, answer, downlink, sender, downlinkFrames, device,
                 pendingAck, fCntUp, published, network>>

-----------------------------------------------------------------------------
(* sendApplicationAck, in its own goroutine after a delay.                 *)
AnswerDelay(c) ==
  /\ answer[c].at = "delay"
  /\ \E next \in {"ack"} \cup (IF cancelled THEN {"ended"} ELSE {}) : answer' = [answer EXCEPT ![c].at = next]
  /\ UNCHANGED <<cancelled, uplink, downlink, sender, outboundUplinks, downlinkFrames, device,
                 pendingAck, fCntUp, published, network>>

AnswerTakesAck(c) ==
  /\ answer[c].at = "ack" /\ ~ Locked
  /\ answer' = [answer EXCEPT ![c] = At("count", pendingAck, NoFrame)]
  /\ pendingAck' = AfterConsume
  /\ UNCHANGED <<cancelled, uplink, downlink, sender, outboundUplinks, downlinkFrames, device,
                 fCntUp, published, network>>

AnswerTakesCount(c) ==
  /\ answer[c].at = "count" /\ ~ Locked
  /\ answer' = [answer EXCEPT ![c] = At("address", @.ack, Data(fCntUp, @.ack, c, NoKeys))]
  /\ fCntUp' = AfterFCnt
  /\ UNCHANGED <<cancelled, uplink, downlink, sender, outboundUplinks, downlinkFrames, device,
                 pendingAck, published, network>>

AnswerReadsPart(c) ==
  /\ answer[c].at \in Parts
  /\ answer' = [answer EXCEPT ![c] = At(NextRead[@.at], @.ack, WithPart(@.frame, @.at))]
  /\ UNCHANGED <<cancelled, uplink, downlink, sender, outboundUplinks, downlinkFrames, device,
                 pendingAck, fCntUp, published, network>>

\* Mutant: an answer is dropped when the channel is full.
AnswerPushesIfRoom(c) ==
  /\ answer[c].at = "push"
  /\ outboundUplinks' = IF Len(outboundUplinks) < Capacity THEN Append(outboundUplinks, answer[c].frame) ELSE outboundUplinks
  /\ answer' = [answer EXCEPT ![c] = At("ended", FALSE, NoFrame)]
  /\ UNCHANGED <<cancelled, uplink, downlink, sender, downlinkFrames, device,
                 pendingAck, fCntUp, published, network>>

AnswerPushes(c) ==
  /\ answer[c].at = "push" /\ Len(outboundUplinks) < Capacity
  /\ outboundUplinks' = Append(outboundUplinks, answer[c].frame)
  /\ answer' = [answer EXCEPT ![c] = At("ended", FALSE, NoFrame)]
  /\ UNCHANGED <<cancelled, uplink, downlink, sender, downlinkFrames, device,
                 pendingAck, fCntUp, published, network>>

-----------------------------------------------------------------------------
(* uplinkSenderLoop: with the context done and a frame ready, select takes *)
(* either.  A publication waits for its token without a time-out and       *)
(* without the context, and the client reconnects by itself: it may last   *)
(* as long as the broker is away.                                          *)
SenderTakes ==
  /\ sender.at = "idle" /\ outboundUplinks # <<>>
  /\ sender' = At("publish", FALSE, Head(outboundUplinks))
  /\ outboundUplinks' = Tail(outboundUplinks)
  /\ UNCHANGED <<cancelled, uplink, answer, downlink, downlinkFrames, device,
                 pendingAck, fCntUp, published, network>>

SenderPublishes ==
  /\ sender.at = "publish"
  /\ published' = Append(published, sender.frame)
  /\ sender' = At("idle", FALSE, NoFrame)
  /\ UNCHANGED <<cancelled, uplink, answer, downlink, outboundUplinks, downlinkFrames, device,
                 pendingAck, fCntUp, network>>

SenderFails ==
  /\ sender.at = "publish"
  /\ cancelled' = TRUE
  /\ sender' = At("ended", FALSE, NoFrame)
  /\ UNCHANGED <<uplink, answer, downlink, outboundUplinks, downlinkFrames, device,
                 pendingAck, fCntUp, published, network>>

SenderEnds ==
  /\ sender.at = "idle" /\ cancelled
  /\ sender' = At("ended", FALSE, NoFrame)
  /\ UNCHANGED <<cancelled, uplink, answer, downlink, outboundUplinks, downlinkFrames, device,
                 pendingAck, fCntUp, published, network>>

-----------------------------------------------------------------------------
(* downlinkLoop: a join-accept, or a frame with data.  The loop stores and *)
(* reads the session's keys itself.                                        *)
Arrived == Head(downlinkFrames)

DownlinkEnds ==
  /\ downlink.at = "idle" /\ cancelled
  /\ downlink' = [downlink EXCEPT !.at = "ended"]
  /\ UNCHANGED <<cancelled, uplink, answer, sender, outboundUplinks, downlinkFrames, device,
                 pendingAck, fCntUp, published, network>>

(* joinAccept.  The MIC of a LoRaWAN 1.0 accept does not cover DevNonce:   *)
(* an accept of an older request passes.                                   *)
JoinAcceptArrives ==
  /\ downlink.at = "idle" /\ downlinkFrames # <<>> /\ Arrived.kind = "accept"
  /\ downlink' = [at |-> "appSKey", frame |-> Arrived, derived |-> NoKeys]
  /\ downlinkFrames' = Tail(downlinkFrames)
  /\ UNCHANGED <<cancelled, uplink, answer, sender, outboundUplinks, device,
                 pendingAck, fCntUp, published, network>>

(* Each key is derived with the nonce as it is then.                       *)
DerivesAppSKey ==
  /\ downlink.at = "appSKey"
  /\ LET n == downlink.frame.nonce IN
       downlink' = [at |-> "nwkSKey", frame |-> downlink.frame,
                    derived |-> [address |-> Part(n, n), appSKey |-> Part(n, devNonce), nwkSKey |-> NoPart]]
  /\ UNCHANGED <<cancelled, uplink, answer, sender, outboundUplinks, downlinkFrames, device,
                 pendingAck, fCntUp, published, network>>

DerivesNwkSKey ==
  /\ downlink.at = "nwkSKey"
  /\ downlink' = [at |-> "store", frame |-> downlink.frame,
                  derived |-> [downlink.derived EXCEPT !.nwkSKey = Part(downlink.frame.nonce, devNonce)]]
  /\ UNCHANGED <<cancelled, uplink, answer, sender, outboundUplinks, downlinkFrames, device,
                 pendingAck, fCntUp, published, network>>

(* Those who read without the mutex see the stores in any order.           *)
StoresPart(p) ==
  /\ downlink.at = "store" /\ downlink.derived[p] # NoPart
  /\ keys' = [keys EXCEPT ![p] = downlink.derived[p]]
  /\ downlink' = [downlink EXCEPT !.derived = [@ EXCEPT ![p] = NoPart]]
  /\ UNCHANGED <<cancelled, uplink, answer, sender, outboundUplinks, downlinkFrames, activated, devNonce,
                 pendingAck, fCntUp, published, network>>

JoinAcceptActivates ==
  /\ downlink.at = "store" /\ downlink.derived = NoKeys
  /\ activated' = TRUE
  /\ downlink' = [at |-> "idle", frame |-> NoFrame, derived |-> NoKeys]
  /\ UNCHANGED <<cancelled, uplink, answer, sender, outboundUplinks, downlinkFrames, devNonce, keys,
                 pendingAck, fCntUp, published, network>>

(* downlinkData: the MIC is that of the network's key; then the frame's    *)
(* flag, and a goroutine that answers.  A payload that is empty or has no  *)
(* readable number is heard and answered by none.                          *)
Heard == Part(Arrived.session, Arrived.session) = keys["nwkSKey"]

DownlinkData ==
  /\ downlink.at = "idle" /\ downlinkFrames # <<>> /\ Arrived.kind = "command" /\ Heard
  /\ pendingAck' = (pendingAck \/ Arrived.confirmed)
  /\ \E next \in {"delay", "silent"} : answer' = [answer EXCEPT ![Arrived.command] = At(next, FALSE, NoFrame)]
  /\ downlinkFrames' = Tail(downlinkFrames)
  /\ UNCHANGED <<cancelled, uplink, downlink, sender, outboundUplinks, device, fCntUp, published, network>>

InvalidMic ==
  /\ downlink.at = "idle" /\ downlinkFrames # <<>> /\ Arrived.kind = "command" /\ ~ Heard
  /\ cancelled' = TRUE
  /\ downlink' = [downlink EXCEPT !.at = "ended"]
  /\ downlinkFrames' = Tail(downlinkFrames)
  /\ UNCHANGED <<uplink, answer, sender, outboundUplinks, device, pendingAck, fCntUp, published, network>>

-----------------------------------------------------------------------------
(* The network answers a join request at any later time, or never, and     *)
(* sends a downlink after an uplink with the session's address and network *)
(* key.  handleDownlink hands a frame over when the channel has room.      *)
Session == IF accepted = {} THEN 0 ELSE CHOOSE n \in accepted : \A o \in accepted : o <= n

AcceptJoin(n) ==
  /\ Join(n) \in Range(published) /\ n > Session /\ Len(downlinkFrames) < Capacity
  /\ accepted' = accepted \cup {n}
  /\ downlinkFrames' = Append(downlinkFrames, [kind |-> "accept", nonce |-> n])
  /\ UNCHANGED <<cancelled, loops, outboundUplinks, device, pendingAck, fCntUp, published, downs>>

CommandArrives(confirmed) ==
  /\ Len(downs) < MaxDownlinks /\ Session # 0 /\ Len(downlinkFrames) < Capacity
  /\ \E f \in Range(published) :
       f.kind = "data" /\ \A p \in {"address", "nwkSKey"} : f.keys[p] = Part(Session, Session)
  /\ downs' = Append(downs, confirmed)
  /\ downlinkFrames' = Append(downlinkFrames,
       [kind |-> "command", session |-> Session, command |-> Len(downs) + 1, confirmed |-> confirmed])
  /\ UNCHANGED <<cancelled, loops, outboundUplinks, device, pendingAck, fCntUp, published, accepted>>

Cancel ==
  /\ ~cancelled
  /\ cancelled' = TRUE
  /\ UNCHANGED <<loops, outboundUplinks, downlinkFrames, device, pendingAck, fCntUp, published, network>>

UplinkLoop == LoopTop \/ JoinRequest \/ UplinkTakesAck \/ UplinkTakesCount \/ UplinkReadsPart \/ UplinkPushes
JoinAccept ==
  JoinAcceptArrives \/ DerivesAppSKey \/ DerivesNwkSKey \/ (\E p \in Parts : StoresPart(p)) \/ JoinAcceptActivates
DownlinkLoop == DownlinkEnds \/ JoinAccept \/ DownlinkData \/ InvalidMic
SenderLoop == SenderTakes \/ SenderPublishes \/ SenderFails \/ SenderEnds
AnswerGoroutine(c) ==
  AnswerDelay(c) \/ AnswerTakesAck(c) \/ AnswerTakesCount(c) \/ AnswerReadsPart(c) \/ AnswerPushes(c)

DeviceNext ==
  \/ UplinkLoop \/ DownlinkLoop \/ SenderLoop \/ Cancel
  \/ \E c \in Command : AnswerGoroutine(c)
  \/ \E n \in 1 .. MaxJoins : AcceptJoin(n)
  \/ \E confirmed \in BOOLEAN : CommandArrives(confirmed)

DeviceSpec == DeviceInit /\ [][DeviceNext]_deviceVars

(* The runtime schedules every goroutine and hands a channel's room to     *)
(* those that wait in turn.  Nothing makes a publication end.              *)
DeviceFairness ==
  /\ WF_deviceVars(LoopTop \/ JoinRequest \/ UplinkTakesAck \/ UplinkTakesCount \/ UplinkReadsPart)
  /\ SF_deviceVars(UplinkPushes)
  /\ WF_deviceVars(DownlinkLoop) /\ WF_deviceVars(SenderTakes \/ SenderEnds)
  /\ \A c \in Command :
       /\ WF_deviceVars(AnswerDelay(c) \/ AnswerTakesAck(c) \/ AnswerTakesCount(c) \/ AnswerReadsPart(c))
       /\ SF_deviceVars(AnswerPushes(c))

FairDeviceSpec == DeviceSpec /\ DeviceFairness

-----------------------------------------------------------------------------
DeviceTypeOK ==
  /\ cancelled \in BOOLEAN /\ activated \in BOOLEAN /\ pendingAck \in BOOLEAN
  /\ uplink.at \in {"top", "join", "ack", "count", "push", "ended"} \cup Parts
  /\ \A c \in Command : answer[c].at \in {"none", "silent", "delay", "ack", "count", "push", "ended"} \cup Parts
  /\ downlink.at \in {"idle", "appSKey", "nwkSKey", "store", "ended"}
  /\ sender.at \in {"idle", "publish", "ended"}
  /\ Len(outboundUplinks) <= Capacity /\ Len(downlinkFrames) <= Capacity
  /\ devNonce \in 0 .. MaxJoins
  /\ \A p \in Parts : keys[p].accept \in accepted \cup {0} /\ keys[p].request \in 0 .. MaxJoins

(* The frames on their way: published, in the sender's hands, waiting for  *)
(* it; and the goroutines that hold a data frame, from its number on.      *)
IsData(f) == f.kind = "data"
Held == IF sender.at = "publish" THEN <<sender.frame>> ELSE <<>>
Line == published \o Held \o outboundUplinks
DataAt == {i \in DOMAIN Line : IsData(Line[i])}

Goroutine == Command \cup {Location}
Of(g) == IF g = Location THEN uplink ELSE answer[g]
Holding == Parts \cup {"push"}
Waiting == {g \in Goroutine : Of(g).at \in Holding /\ IsData(Of(g).frame)}

(* nextFCntUp is called by all goroutines, each at its time: every number  *)
(* is that of one frame, and while the device is not stopped none is lost  *)
(* between the mutex and the network (device.go:344, 374, 387).            *)
OneFramePerNumber ==
  /\ \A i, j \in DataAt : Line[i].fcnt = Line[j].fcnt => i = j
  /\ \A g \in Waiting, i \in DataAt : Line[i].fcnt # Of(g).frame.fcnt
  /\ \A g, h \in Waiting : Of(g).frame.fcnt = Of(h).frame.fcnt => g = h
  /\ ~ cancelled => \A n \in 0 .. fCntUp - 1 :
       (\E i \in DataAt : Line[i].fcnt = n) \/ (\E g \in Waiting : Of(g).frame.fcnt = n)

(* Answers overtake each other and the locations, but no location another  *)
(* (device.go:140, 387).                                                   *)
LocationsInOrder ==
  \A i, j \in DataAt :
    i < j /\ Line[i].command = Location /\ Line[j].command = Location => Line[i].fcnt < Line[j].fcnt

(* A command has one answer at most, which exists when its goroutine is    *)
(* over, unless the device is stopped (device.go:319).                     *)
AnsweredOnce ==
  /\ \A i, j \in DataAt : Line[i].command = Line[j].command /\ Line[i].command # Location => i = j
  /\ \A c \in Command : answer[c].at = "ended" /\ ~ cancelled => \E i \in DataAt : Line[i].command = c

(* The network is sent no more acknowledgements than it sent confirmed     *)
(* downlinks, whichever goroutines take the flag (device.go:444).          *)
AcksAreOwed ==
  Cardinality({i \in DataAt : Line[i].ack}) <= Cardinality({c \in DOMAIN downs : downs[c]})

(* The parts of a session are read without the mutex while a second accept *)
(* may store its own: a frame may mix two joins, but every part of it is   *)
(* one that a join gave, none is missing; and the device that was accepted *)
(* once has frames of that session only (device.go:236, 355-367).          *)
FramesHaveKeys ==
  \A i \in DataAt, p \in Parts : Line[i].keys[p].accept \in accepted

(* What the network sees of the goroutines that share a device: all of the *)
(* above (device.go:344).                                                  *)
FramesSound == OneFramePerNumber /\ LocationsInOrder /\ AnsweredOnce /\ AcksAreOwed /\ FramesHaveKeys

(* A broker that is there again and again: no publication lasts for ever.  *)
PublicationsEnd == []<>(sender.at # "publish")

(* Every command whose answer was started is answered, however full the    *)
(* channel gets, unless the device is stopped (device.go:319, 387).        *)
CommandAnswered ==
  \A c \in Command :
    answer[c].at \notin {"none", "silent"} ~>
      (cancelled \/ \E i \in DOMAIN published : published[i].kind = "data" /\ published[i].command = c)

(* The frames that a stopped device may still push, one for each goroutine *)
(* that is not over, and the room of the channel if nobody takes any more. *)
MayPush == {g \in Goroutine : Of(g).at \notin {"none", "silent", "ended"}}
RoomForAll == Len(outboundUplinks) + Cardinality(MayPush) <= Capacity

(* A device that is stopped, by a signal or by the error of a loop, ends   *)
(* its loops: the one for downlinks always, the sender when the broker     *)
(* lets it go, and the one that pushes without a look at the context if    *)
(* the channel has room for all who push when no more downlinks are taken  *)
(* (device.go:99, 374, 387).                                               *)
StoppedLoopsEnd ==
  /\ cancelled ~> downlink.at = "ended"
  /\ (downlink.at = "ended" /\ RoomForAll) ~> uplink.at = "ended"

StoppedSenderEnds == cancelled ~> sender.at = "ended"

(* The loops serve the device to its end: all of the above, the answers    *)
(* and the sender's end if publications end.                               *)
LoopsServe == StoppedLoopsEnd /\ (PublicationsEnd => (CommandAnswered /\ StoppedSenderEnds))
=============================================================================
