---------------------------- MODULE CallbackQueue ----------------------------
(***************************************************************************)
(* What an EventLoop promises about the callbacks handed to its queue:     *)
(* each is started at most once, in the order in which they were handed    *)
(* over, one after the other, and none is forgotten: the callbacks not yet *)
(* started are always exactly a suffix of the callbacks handed over.       *)
(* EventLoop implements it, TcpConnection relies on it.                    *)
(***************************************************************************)
EXTENDS Naturals, Sequences

CONSTANT Callback

VARIABLES
  posted,  \* the callbacks handed over, in order
  ran      \* the callbacks started, in order

vars == <<posted, ran>>

Init == posted = <<>> /\ ran = <<>>

Post(c) ==
  /\ \A i \in 1..Len(posted) : posted[i] # c
  /\ posted' = Append(posted, c)
  /\ UNCHANGED ran

Start ==
  /\ Len(ran) < Len(posted)
  /\ ran' = Append(ran, posted[Len(ran) + 1])
  /\ UNCHANGED posted

Next == Start \/ \E c \in Callback : Post(c)

Spec == Init /\ [][Next]_vars
=============================================================================
