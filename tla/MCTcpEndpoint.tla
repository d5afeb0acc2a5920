--------------------------- MODULE MCTcpEndpoint ---------------------------
(* TcpEndpoint with interchangeable connections.                           *)
EXTENDS TcpEndpoint, TLC

CONSTANTS c1, c2

Conns == Permutations(Conn)
=============================================================================
