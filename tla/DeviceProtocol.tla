----------------------------- MODULE DeviceProtocol -----------------------------
(***************************************************************************)
(* The binary protocol between the server (Python) and a device (the       *)
(* simulator, in Go): a command goes down, the device decodes it and       *)
(* answers, the server decodes the answer; a device also sends locations   *)
(* and states of its own accord.  On its way a payload may turn into one   *)
(* of another firmware: a byte differs, or some are missing or added.      *)
(* A payload is a sequence of bytes; base64 is left out.                   *)
(***************************************************************************)
EXTENDS Integers, Sequences, SequencesExt, FiniteSetsExt

CONSTANTS
  Commands,        \* calls of encode_command_downlink: type, seq, flags, fields
  Answers,         \* what a device answers to a command: status and error code
  Points,          \* locations of a device, in the units of the payload
  Objects,         \* the same, decoded by ChirpStack: parts may be missing
  States,          \* status reports of a device
  StrangeBytes,    \* bytes that another firmware may send
  UncertainAbove   \* gps_uncertain_accuracy_meters

Byte == 0 .. 255
MaxUint16 == 65535
Uint16 == 0 .. MaxUint16
MaxInt16 == 32767
MinInt16 == -MaxInt16 - 1
Int16 == MinInt16 .. MaxInt16
MaxInt32 == 2147483647
MinInt32 == -MaxInt32 - 1
Int32 == MinInt32 .. MaxInt32

ASSUME BytesOK == StrangeBytes \subseteq Byte /\ UncertainAbove \in 0 .. 254

(* The callers' numbers are integers, which need not fit; a device's are of*)
(* the types of its variables.                                             *)
ASSUME ValuesOK ==
  /\ \A c \in Commands :
       /\ "seq" \in DOMAIN c
       /\ "duration_ms" \in DOMAIN c.fields => c.fields.duration_ms \in Int
  /\ Answers \subseteq [status : 1 .. 5, error : Byte]
  /\ Points \subseteq [lat : Int32, lng : Int32, altitude : Int16, accuracy : Int,
                       battery : Byte, fix : Byte]
  /\ States \subseteq [battery : Byte, mv : Uint16, state : Byte, fix : Byte, errors : Byte]

Version == 1
CommandCode == [SET_REPORT_INTERVAL |-> 1, WARNING_SOUND |-> 2, STOP_CORRECTION |-> 3, REQUEST_STATUS |-> 4]
EXECUTED == 1
FAILED == 3
NO_ERROR == 0
INVALID_PAYLOAD == 2
NO_FIX == 0

Invalid == [invalid |-> TRUE]      \* the decoder raises
NoObject == [none |-> TRUE]

VARIABLES
  phase,      \* idle, down, up, done or refused
  port,       \* the fPort of the uplink: 10 location, 11 status, 20 ACK
  meant,      \* what the sender wanted to say
  link,       \* the message on its way: data and decoded object
  heard,      \* the bytes of the command as the device received them
  altered,    \* no, down or up: where the payload became another
  server      \* what the server read in the uplink

protocolVars == <<phase, port, meant, link, heard, altered, server>>

-----------------------------------------------------------------------------
(* struct and encoding/binary: big-endian integers of a fixed width.  The  *)
(* division rounds down, so a negative number gives its two's complement.  *)
Bytes16(v) == <<(v \div 256) % 256, v % 256>>
Bytes32(v) == Bytes16((v \div 256) \div 256) \o Bytes16(v)
Unsigned16(b, i) == b[i] * 256 + b[i + 1]
Signed8(n) == IF n < 128 THEN n ELSE n - 256
Signed16(b, i) == Signed8(b[i]) * 256 + b[i + 1]
Signed32(b, i) == ((Signed8(b[i]) * 256 + b[i + 1]) * 256 + b[i + 2]) * 256 + b[i + 3]

-----------------------------------------------------------------------------
(* Commands.  payload_fields holds what the caller gave; a duration in     *)
(* milliseconds is rounded up to seconds, and lasts one second at least.   *)
\* Mutant: the milliseconds are divided without rounding up.
FloorSeconds(ms) == Max({1, ms \div 1000})

CeilSeconds(ms) == Max({1, -((-ms) \div 1000)})

DurationSeconds(fields) ==
  IF "duration_seconds" \in DOMAIN fields THEN fields.duration_seconds
  ELSE IF "duration_ms" \in DOMAIN fields THEN CeilSeconds(fields.duration_ms)
  ELSE 0      \* missing, refused as zero is

IntervalSeconds(fields) == IF "interval_seconds" \in DOMAIN fields THEN fields.interval_seconds ELSE 0

Encodable(c) ==
  /\ c.seq \in Uint16 \ {0}
  /\ c.flags \in Byte
  /\ c.type \in DOMAIN CommandCode
  /\ c.type = "SET_REPORT_INTERVAL" => IntervalSeconds(c.fields) \in Uint16 \ {0}
  /\ c.type = "WARNING_SOUND" => DurationSeconds(c.fields) \in Byte \ {0}

FieldBytes(c) ==
  CASE c.type = "SET_REPORT_INTERVAL" -> Bytes16(IntervalSeconds(c.fields))
    [] c.type = "WARNING_SOUND" -> <<DurationSeconds(c.fields)>>
    [] OTHER -> <<>>

EncodeCommand(c) ==
  <<Version, CommandCode[c.type]>> \o Bytes16(c.seq) \o <<c.flags>> \o FieldBytes(c)

FieldLength(code) == CASE code = 1 -> 2 [] code = 2 -> 1 [] OTHER -> 0

WellFormedCommand(b) ==
  /\ Len(b) >= 5
  /\ b[1] = Version
  /\ Unsigned16(b, 3) # 0
  /\ b[2] \in Range(CommandCode)
  /\ Len(b) = 5 + FieldLength(b[2])

(* The server's own decoder, which its tools use in place of a device.     *)
DecodeCommandDownlink(b) ==
  IF WellFormedCommand(b)
  THEN [type |-> CHOOSE t \in DOMAIN CommandCode : CommandCode[t] = b[2],
        seq |-> Unsigned16(b, 3), flags |-> b[5],
        field |-> CASE b[2] = 1 -> Unsigned16(b, 6) [] b[2] = 2 -> b[6] [] OTHER -> 0]
  ELSE Invalid

(* The device's decoder: it checks the parameters' length, not their value.*)
DecodeCommandPayload(b) ==
  IF /\ Len(b) >= 5 /\ b[1] = Version /\ Unsigned16(b, 3) # 0
     /\ \/ b[2] = 1 /\ Len(b) = 7
        \/ b[2] = 2 /\ Len(b) = 6
        \/ b[2] \in {3, 4} /\ Len(b) = 5
  THEN [type |-> b[2], seq |-> Unsigned16(b, 3), flags |-> b[5]]
  ELSE Invalid

\* Mutant: the command's number is looked for one byte early.
EarlySeq(b) == IF Len(b) < 4 THEN 0 ELSE Unsigned16(b, 2)

ExtractCommandSeq(b) == IF Len(b) < 4 THEN 0 ELSE Unsigned16(b, 3)   \* 0: error

-----------------------------------------------------------------------------
(* ACKs.                                                                   *)
EncodeCommandAck(seq, status, error) == <<Version>> \o Bytes16(seq) \o <<status, error>>

DecodeCommandAck(b) ==
  IF /\ Len(b) = 5 /\ b[1] = Version
     /\ Unsigned16(b, 2) # 0
     /\ b[4] \in 1 .. 5
  THEN [seq |-> Unsigned16(b, 2), status |-> b[4], error |-> b[5]]   \* a strange error is kept in its text
  ELSE Invalid

-----------------------------------------------------------------------------
(* Locations, in 1e-7 degrees and metres, and status reports.              *)
Clamp(n) == Max({0, Min({255, n})})

EncodeLocation(p) ==
  <<Version, 1>> \o Bytes32(p.lat) \o Bytes32(p.lng) \o Bytes16(p.altitude)
    \o <<Clamp(p.accuracy), p.battery, p.fix>>

WithinCoordinates(lat, lng) ==
  /\ lat \in -900000000 .. 900000000
  /\ lng \in -1800000000 .. 1800000000

Altitude(b) == Signed16(b, 11)

\* Mutant: a location without a fix keeps the accuracy it was sent with.
SentAccuracy(b) == b[13]
Accuracy(b) == IF b[15] = NO_FIX THEN Max({b[13], 255}) ELSE b[13]

DecodeLocation(b) ==
  IF /\ Len(b) = 15 /\ b[1] = Version /\ b[2] = 1
     /\ WithinCoordinates(Signed32(b, 3), Signed32(b, 7))
     /\ b[15] \in 0 .. 3
  THEN [lat |-> Signed32(b, 3), lng |-> Signed32(b, 7), altitude |-> Altitude(b),
        accuracy |-> Accuracy(b), battery |-> b[14], fix |-> b[15]]
  ELSE Invalid

(* decode_up_event: a location that ChirpStack decoded goes before the data*)
DecodeUpEvent(message) ==
  IF {"lat", "lng"} \subseteq DOMAIN message.object
  THEN IF WithinCoordinates(message.object.lat, message.object.lng) THEN message.object ELSE Invalid
  ELSE DecodeLocation(message.data)

EncodeStatus(s) == <<Version, 2, s.battery>> \o Bytes16(s.mv) \o <<s.state, s.fix, s.errors>>

DecodeStatus(b) ==
  IF /\ Len(b) = 8 /\ b[1] = Version /\ b[2] = 2
     /\ b[6] \in 0 .. 5 /\ b[7] \in 0 .. 3
  THEN [battery |-> b[3], mv |-> Unsigned16(b, 4), state |-> b[6], fix |-> b[7], errors |-> b[8]]
  ELSE Invalid

-----------------------------------------------------------------------------
Message(bytes) == [data |-> bytes, object |-> NoObject]

ProtocolInit ==
  /\ phase = "idle" /\ port = 0 /\ meant = [none |-> TRUE] /\ link = Message(<<>>)
  /\ heard = <<>> /\ altered = "no" /\ server = Invalid

(* encode_command_downlink.                                                *)
SendCommand(c) ==
  /\ phase = "idle" /\ Encodable(c)
  /\ phase' = "down" /\ meant' = c /\ link' = Message(EncodeCommand(c))
  /\ UNCHANGED <<port, heard, altered, server>>

RefuseCommand(c) ==
  /\ phase = "idle" /\ ~Encodable(c)
  /\ phase' = "refused" /\ meant' = c
  /\ UNCHANGED <<port, link, heard, altered, server>>

Uplink(p, what, message) ==
  /\ phase = "idle"
  /\ phase' = "up" /\ port' = p /\ meant' = what /\ link' = message
  /\ UNCHANGED <<heard, altered, server>>

SendLocation(p) == Uplink(10, p, Message(EncodeLocation(p)))
SendStatus(s) == Uplink(11, s, Message(EncodeStatus(s)))
SendObject(p, o) == Uplink(10, p, [data |-> EncodeLocation(p), object |-> o])

OtherForms(b) ==
  {[b EXCEPT ![i] = x] : i \in DOMAIN b, x \in StrangeBytes}
    \cup {SubSeq(b, 1, n) : n \in 0 .. Len(b) - 1}
    \cup {Append(b, x) : x \in StrangeBytes}

(* The sender's firmware is not the receiver's.                            *)
Alter ==
  /\ phase \in {"down", "up"} /\ altered = "no"
  /\ \E b \in OtherForms(link.data) \ {link.data} : link' = [link EXCEPT !.data = b]
  /\ altered' = phase
  /\ UNCHANGED <<phase, port, meant, heard, server>>

SendAck(seq, status, error) ==
  /\ phase' = "up" /\ port' = 20
  /\ link' = Message(EncodeCommandAck(seq, status, error))

(* downlinkData: a command it can decode is answered, EXECUTED by the      *)
(* simulator; one it cannot is answered FAILED if its number can be read.  *)
AckCommand ==
  /\ phase = "down" /\ DecodeCommandPayload(link.data) # Invalid
  /\ \E a \in Answers : SendAck(DecodeCommandPayload(link.data).seq, a.status, a.error)
  /\ heard' = link.data
  /\ UNCHANGED <<meant, altered, server>>

AckInvalidCommand ==
  /\ phase = "down" /\ link.data # <<>> /\ DecodeCommandPayload(link.data) = Invalid
  /\ ExtractCommandSeq(link.data) # 0
  /\ SendAck(ExtractCommandSeq(link.data), FAILED, INVALID_PAYLOAD)
  /\ heard' = link.data
  /\ UNCHANGED <<meant, altered, server>>

IgnoreCommand ==
  /\ phase = "down" /\ DecodeCommandPayload(link.data) = Invalid
  /\ link.data = <<>> \/ ExtractCommandSeq(link.data) = 0
  /\ phase' = "done" /\ heard' = link.data
  /\ UNCHANGED <<port, meant, link, altered, server>>

(* The event service reads an uplink by its fPort; no data is an error.    *)
ReadUplink ==
  /\ phase = "up"
  /\ phase' = "done"
  /\ server' = CASE port = 10 -> DecodeUpEvent(link)
                 [] port = 11 -> DecodeStatus(link.data)
                 [] port = 20 -> DecodeCommandAck(link.data)
  /\ UNCHANGED <<port, meant, link, heard, altered>>

ProtocolNext ==
  \/ \E c \in Commands : SendCommand(c) \/ RefuseCommand(c)
  \/ \E p \in Points : SendLocation(p) \/ \E o \in Objects : SendObject(p, o)
  \/ \E s \in States : SendStatus(s)
  \/ Alter
  \/ AckCommand \/ AckInvalidCommand \/ IgnoreCommand
  \/ ReadUplink

ProtocolSpec == ProtocolInit /\ [][ProtocolNext]_protocolVars

-----------------------------------------------------------------------------
ProtocolTypeOK ==
  /\ phase \in {"idle", "down", "up", "done", "refused"}
  /\ port \in {0, 10, 11, 20}
  /\ altered \in {"no", "down", "up"}
  /\ Range(link.data) \subseteq Byte /\ Range(heard) \subseteq Byte

Commanded == "seq" \in DOMAIN meant

(* The device reads the command that was meant, and a sound lasts as long  *)
(* as was asked, less than a second longer: whatever passed the ranges of  *)
(* downlink_encoder.py:179 fits its field (the numbers at its boundaries   *)
(* are of the tests and of allocate_next_command_seq).                     *)
DeviceUnderstands ==
  phase = "down" /\ altered = "no" =>
    LET read == DecodeCommandDownlink(link.data) IN
    /\ DecodeCommandPayload(link.data) =
         [type |-> CommandCode[meant.type], seq |-> meant.seq, flags |-> meant.flags]
    /\ read # Invalid /\ read.type = meant.type /\ read.seq = meant.seq /\ read.flags = meant.flags
    /\ meant.type = "SET_REPORT_INTERVAL" => read.field = meant.fields.interval_seconds
    /\ meant.type = "WARNING_SOUND" =>
         /\ "duration_seconds" \in DOMAIN meant.fields => read.field = meant.fields.duration_seconds
         /\ "duration_seconds" \notin DOMAIN meant.fields =>
              /\ read.field * 1000 >= meant.fields.duration_ms
              /\ read.field = 1 \/ read.field * 1000 < meant.fields.duration_ms + 1000

(* The device and the server's decoder take the same payloads, whoever     *)
(* made them, and read the same command in them (payload.go:53 against     *)
(* downlink_encoder.py:62).                                                *)
DecodersAgree ==
  phase = "down" =>
    LET go == DecodeCommandPayload(link.data)
        py == DecodeCommandDownlink(link.data) IN
    /\ (go = Invalid) <=> (py = Invalid)
    /\ go # Invalid => go = [type |-> CommandCode[py.type], seq |-> py.seq, flags |-> py.flags]

(* A command payload is read alike by all, and as it was meant.            *)
ReadAlike == DeviceUnderstands /\ DecodersAgree

(* The ACK that the server reads names the command that the device heard,  *)
(* and says EXECUTED only of one that could be decoded; if nothing changed *)
(* on the way there is an ACK, and it names the command that was sent      *)
(* (device.go:300, payload_codec.py:140).                                  *)
AckNamesTheCommand ==
  /\ phase = "done" /\ port = 20 /\ altered # "up" =>
       /\ server # Invalid /\ server.seq = Unsigned16(heard, 3)
       /\ server.status = EXECUTED => DecodeCommandDownlink(heard) # Invalid
       /\ altered = "no" => server.seq = meant.seq
  /\ phase = "done" /\ Commanded /\ altered = "no" => port = 20

(* A location arrives as it was sent, and one that geofences must not      *)
(* trust, by its accuracy or for want of a fix, is not trusted when read   *)
(* (payload_codec.py:82, "forcing a clearly unreliable accuracy").         *)
LocationArrives ==
  phase = "done" /\ port = 10 /\ altered = "no" /\ link.object = NoObject =>
    IF WithinCoordinates(meant.lat, meant.lng) /\ meant.fix \in 0 .. 3
    THEN /\ \A part \in {"lat", "lng", "altitude", "battery", "fix"} : server[part] = meant[part]
         /\ server.accuracy > UncertainAbove <=> (meant.accuracy > UncertainAbove \/ meant.fix = NO_FIX)
    ELSE server = Invalid

(* Nothing is read into a payload: what the server accepted, encoded again,*)
(* is the payload that arrived, and a location is one on earth, from the   *)
(* data or from ChirpStack's object (payload_codec.py:52, decoder.py:12).  *)
ReadBack ==
  phase = "done" /\ server # Invalid =>
    CASE port = 20 -> EncodeCommandAck(server.seq, server.status, server.error) = link.data
      [] port = 11 -> EncodeStatus(server) = link.data
      [] port = 10 ->
           /\ WithinCoordinates(server.lat, server.lng)
           /\ {"lat", "lng"} \subseteq DOMAIN link.object
                \/ EncodeLocation(server) = link.data
                \/ server.fix = NO_FIX

(* What a device sends of its own accord arrives, and nothing else does.   *)
UplinksArrive == LocationArrives /\ ReadBack
=============================================================================
