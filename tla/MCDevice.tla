------------------------------- MODULE MCDevice -------------------------------
(* Instances of DeviceProtocol and DeviceSimulator for TLC.  The two share *)
(* no state: a behaviour is one of the one or of the other.                *)
EXTENDS DeviceProtocol, DeviceSimulator

Types == {"SET_REPORT_INTERVAL", "WARNING_SOUND", "VIBRATION", "STOP_CORRECTION",
          "EMERGENCY_DISABLE", "REQUEST_STATUS"}

\* The fields that callers and tests give, at the boundaries of their ranges.
Fields ==
  {[flags |-> 0]} \cup {[interval_seconds |-> n] : n \in {0, 1, 256, 65535, 65536}}
    \cup {[duration_seconds |-> n] : n \in {0, 1, 255, 256}}
    \cup {[duration_ms |-> n] : n \in {-1, 0, 999, 1001, 254001, 255000, 255001}}
    \cup {[duration_seconds |-> 3, duration_ms |-> 1500]}

MCCommands == [type : Types, seq : {0, 1, 258, 65535, 65536}, flags : {-1, 7, 256}, fields : Fields]
MCAnswers == {[status |-> 1, error |-> 0], [status |-> 5, error |-> 9]}

\* Locations at the ends of the earth, and at one place with all that goes with it.
MCPoints ==
  [lat : {-900000001, -900000000, 0, 900000000}, lng : {-1800000000, -663731088, 1800000001},
   altitude : {520}, accuracy : {30}, battery : {87}, fix : {1}]
  \cup [lat : {-332933408}, lng : {-663731088}, altitude : {-430, 32767}, accuracy : {-1, 30, 31, 300},
        battery : {87}, fix : {0, 1, 4}]
MCObjects == {[lat |-> 0]} \cup [lat : {-900000001, 0}, lng : {0, 1800000001}, accuracy : {5}]
MCStates == [battery : {87}, mv : {255, 65535}, state : {0, 5, 6}, fix : {0, 3, 4}, errors : {0, 255}]
MCStrangeBytes == {0, 1, 2, 3, 128, 255}

VARIABLE part
mcVars == <<part, protocolVars, deviceVars>>

MCInit == part \in {"payloads", "loops"} /\ ProtocolInit /\ DeviceInit

MCNext ==
  \/ part = "payloads" /\ ProtocolNext /\ UNCHANGED <<part, deviceVars>>
  \/ part = "loops" /\ DeviceNext /\ UNCHANGED <<part, protocolVars>>

\* The fairness is that of the loops, and so are the liveness properties.
MCSpec == MCInit /\ [][MCNext]_mcVars /\ DeviceFairness
=============================================================================
