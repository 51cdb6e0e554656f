--------------------------- MODULE MCRealtimeGateway ---------------------------
(* Instances of RealtimeGateway for TLC.                                   *)
EXTENDS RealtimeGateway

CONSTANTS c1, s1, t1, t2, h1, h2, o1

MCOneClient == {c1}
MCOneSession == {s1}
MCTwoTickets == {t1, t2}
MCTwoSockets == {h1, h2}
MCOneOther == {o1}
=============================================================================
