----------------------------- MODULE MCEventLoop -----------------------------
(***************************************************************************)
(* TLC instances of EventLoop.  io is the loop's thread, p1 and p2 are     *)
(* other threads; a and b are work, s1 and s2 the lambdas of two stop()s.  *)
(***************************************************************************)
EXTENDS EventLoop

CONSTANTS io, p1, p2, a, b, s1, s2

TwoPosters == {io, p1, p2}
TwoStops == {a, s1, s2}
=============================================================================
