------------------------------ MODULE MCTcGpio ------------------------------
(* Two pins on one ERU channel and one on another, or the shared channel   *)
(* alone with different edges.                                             *)
EXTENDS TcGpio

CONSTANTS p1, p2, p3, fall, rise

MCPins == {p1, p2, p3}
MCShared == {p1, p2}
MCChanOf == [p \in MCPins |-> IF p = p3 THEN 0 ELSE 1]
MCSharedChanOf == [p \in MCShared |-> 1]
MCEdge == {{fall}}
MCEdgeSets == {{fall}, {fall, rise}}
=============================================================================
