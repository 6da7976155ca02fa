-------------------------- MODULE MCWsVideoServer --------------------------
(* Instances of WsVideoServer for TLC; the configurations name the values. *)
EXTENDS WsVideoServer

CONSTANTS c1, c2, c3

MCThreeClients == {c1, c2, c3}
MCTwoClients == {c1, c2}
MCReports == {0, 9}
MCGarbage == {0, 255}
MCCleared == {0}
=============================================================================
