------------------------------- MODULE MCBroker -------------------------------
(* TLC instances of Broker: clients on loops of their own or on one loop.   *)
EXTENDS Broker

TwoTimers == 1..2
OneTimer == {1}
=============================================================================
