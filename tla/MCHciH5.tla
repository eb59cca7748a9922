------------------------------ MODULE MCHciH5 ------------------------------
(* Instances of HciH5 for TLC. *)
EXTENDS HciH5

CONSTANTS host, ctrl

MCSide == {host, ctrl}
MCPeer == [s \in MCSide |-> IF s = host THEN ctrl ELSE host]
MCMsg21 == [s \in MCSide |-> IF s = host THEN 2 ELSE 1]
MCMsg22 == [s \in MCSide |-> 2]
MCMsg11 == [s \in MCSide |-> 1]
MCMsg10 == [s \in MCSide |-> IF s = host THEN 1 ELSE 0]
MCAllFrames == LinkMsg \cup {"ACK", "DATA"}
MCAllButAck == LinkMsg \cup {"DATA"}
MCWin2 == [s \in MCSide |-> 2]
MCWin1 == [s \in MCSide |-> 1]
=============================================================================
