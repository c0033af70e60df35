------------------------------ MODULE MCGateway ------------------------------
(* Values of Gateway's constants for TLC: h1, h2 are connections of          *)
(* hack_http.cpp, t1 of test.cpp.                                            *)
EXTENDS Gateway

CONSTANTS h1, h2, t1

(* Every client may talk to every node.                                      *)
AnyTarget == [c \in Conn |-> Node]
=============================================================================
