------------------------- MODULE MCConnectionManager -------------------------
(* TLC instances of ConnectionManager: two sessions, with one loop or two.  *)
EXTENDS ConnectionManager

CONSTANTS c1, c2, k1, k2
=============================================================================
