---------------------------- MODULE MCRunRegistry ----------------------------
(***************************************************************************)
(* Two questions asked in the browser beside two terminal commands: enough *)
(* for two requests inside the await, for a command between a request's    *)
(* check and its write, and for a third party to profit from a race of the *)
(* other two.                                                              *)
(***************************************************************************)
EXTENDS RunRegistry

CONSTANTS r1, r2, c1, c2

MCRequests == {r1, r2}
MCCommands == {c1, c2}
MCObjs == MCRequests \cup MCCommands
MCPids == {Server} \cup MCCommands
MCPidOf == [o \in MCObjs |-> IF o \in MCRequests THEN Server ELSE o]
=============================================================================
