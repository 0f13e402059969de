-------------------------------- MODULE Outbox --------------------------------
(***************************************************************************)
(* What a TcpConnection promises about the tasks handed to sendMsg: they   *)
(* go to the network in the order in which they were handed over until a   *)
(* write fails; from then on in any order, since what failed is kept for   *)
(* the next stream; but none goes out twice, and none that went out is     *)
(* reported as failed.  TcpConnection implements it.                       *)
(***************************************************************************)
EXTENDS Naturals, Sequences, SequencesExt

CONSTANT Task

VARIABLES
  accepted,   \* the tasks handed over, in order
  delivered,  \* the tasks the network has taken, in order
  failed      \* the tasks a write of which failed

vars == <<accepted, delivered, failed>>

Init == accepted = <<>> /\ delivered = <<>> /\ failed = {}

Undelivered == ToSet(accepted) \ ToSet(delivered)

Accept(t) ==
  /\ t \notin ToSet(accepted)
  /\ accepted' = Append(accepted, t)
  /\ UNCHANGED <<delivered, failed>>

Deliver(t) ==
  /\ t \in Undelivered
  /\ failed = {} => t = accepted[Len(delivered) + 1]
  /\ delivered' = Append(delivered, t)
  /\ UNCHANGED <<accepted, failed>>

Fail(S) ==
  /\ S \subseteq Undelivered
  /\ failed' = failed \cup S
  /\ UNCHANGED <<accepted, delivered>>

Next ==
  \/ \E t \in Task : Accept(t) \/ Deliver(t)
  \/ \E S \in SUBSET Task : Fail(S)

Spec == Init /\ [][Next]_vars
=============================================================================
