------------------------- MODULE MCHeartbeatMonitor -------------------------
(***************************************************************************)
(* HeartbeatMonitor for TLC: two workers that may crash, and a punctual     *)
(* one whose cpu is sometimes saturated. A load does not change what the    *)
(* monitor does, so heartbeats carry none.                                  *)
(***************************************************************************)
EXTENDS HeartbeatMonitor

CONSTANTS n1, n2, n3

MCNode == {n1, n2, n3}
MCPunctual == {n3}
MCReport ==
  [n \in MCNode |->
     [active : {0}, hot : IF n \in MCPunctual THEN BOOLEAN ELSE {FALSE}]]

=============================================================================
