--------------------------- MODULE MCTcpConnection ---------------------------
(* TLC instances of TcpConnection: two tasks, one of which may name no      *)
(* connection, and a pool that holds one request or two.                    *)
EXTENDS TcpConnection

CONSTANTS t1, t2, m1, m2, r1, r2

PooledOne == <<r1>>
PooledTwo == <<r1, r2>>
=============================================================================
