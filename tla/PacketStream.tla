----------------------------- MODULE PacketStream -----------------------------
(***************************************************************************)
(* What a dispatcher promises about a stream of packets, whatever the      *)
(* reads are that bring it: the bytes are read between calls only; a call  *)
(* passes on packets one by one, in order, each once and only when its     *)
(* last byte is there; and it does not return while a whole packet is left.*)
(* SimpleMsgDispatcher implements it.                                      *)
(*                                                                         *)
(* The stream is named by positions: lenAt[a] is the length field of a     *)
(* header that starts at a.                                                *)
(***************************************************************************)
EXTENDS Naturals, Sequences

CONSTANTS
  Hdr,       \* the length of a header
  Lengths,   \* the values of the length field
  MaxBytes   \* bound: the length of the stream

VARIABLES
  lenAt,   \* the stream
  rcvd,    \* how many bytes of it have been read
  due,     \* where the next packet to be passed on starts
  bodies,  \* the data of the packets passed on
  inCall   \* whether a call is under way

vars == <<lenAt, rcvd, due, bodies, inCall>>

End(a) == a + Hdr + lenAt[a]

Init ==
  /\ lenAt \in [0..MaxBytes -> Lengths]
  /\ rcvd = 0 /\ due = 0
  /\ bodies = <<>>
  /\ ~inCall

\* Whether the packet that starts at a is whole once n bytes are there.
Whole(a, n) == a + Hdr <= n /\ End(a) <= n

PassOn(n) ==
  /\ Whole(due, n)
  /\ due' = End(due)
  /\ bodies' = Append(bodies, [i \in 1..lenAt[due] |-> due + Hdr + i - 1])

Next ==
  /\ UNCHANGED lenAt
  /\ rcvd' \in rcvd..MaxBytes /\ (inCall => rcvd' = rcvd)
  /\ PassOn(rcvd') \/ UNCHANGED <<due, bodies>>
  /\ inCall' \/ ~Whole(due', rcvd')

Spec == Init /\ [][Next]_vars
=============================================================================
