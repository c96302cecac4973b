---------------------------- MODULE MCPipeServer ----------------------------
(* An instance of PipeServer for TLC: two requests share Desktop's one       *)
(* connection, a third is sent on a second one.                              *)
EXTENDS PipeServer

CONSTANTS rpc, events, r1, r2, r3

MCConn == {rpc, events}
MCRequest == {r1, r2, r3}
MCconn == [r \in MCRequest |-> IF r = r3 THEN events ELSE rpc]
=============================================================================
