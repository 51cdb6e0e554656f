--------------------------- MODULE MCDeviceAssignment ---------------------------
(* Instances of DeviceAssignment for TLC.                                   *)
EXTENDS DeviceAssignment

CONSTANTS d1, d2, a1, a2, r1, r2

MCDevices == {d1, d2}
MCAssets == {a1, a2}
MCRequests == {r1, r2}
=============================================================================
