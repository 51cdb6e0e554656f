----------------------------- MODULE MCEventIngest -----------------------------
(* Instances of EventIngest for TLC.                                        *)
EXTENDS EventIngest, TLC

CONSTANTS loc, stat, join, log, dev

MCDevices == {dev}
MCEvents == {loc, stat, join, log}
MCAnonymous == {stat}

MCKinds == (loc :> "location") @@ (stat :> "status") @@ (join :> "join")
           @@ (log :> "log")
MCDeviceOf == [e \in MCEvents |-> dev]
=============================================================================
