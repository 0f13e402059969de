-------------------------- MODULE ReconnectedStream --------------------------
(***************************************************************************)
(* SimpleMsgDispatcher on a client that connects again: the streams of the *)
(* connections follow each other, and TcpConnection::connect               *)
(* (src/src/TcpConnection.cpp) starts the next one while the vector keeps  *)
(* what the last read of the old one left in it.                           *)
(***************************************************************************)
EXTENDS SimpleMsgDispatcher

VARIABLE start  \* where the stream of the current connection starts

streamsVars == <<vars, start>>

\* connect() resets the counters of the connection, not its buffer.
Connect ==
  /\ pc = "idle"
  /\ start = 0 /\ rcvd > 0
  /\ start' = rcvd
  /\ delivered' = <<>>
  /\ UNCHANGED <<streamVars, vec, cap, buf, pc>>

StreamsInit == Init /\ start = 0
StreamsNext == Connect \/ (Next /\ UNCHANGED start)

StreamsSpec == StreamsInit /\ [][StreamsNext]_streamsVars

\* SimpleMsgDispatcher.cpp:19 has the dispatcher look for bytes left over "in
\* the current connection": what it delivers since the connect are bytes that
\* came after the connect.
DeliversOwnBytes ==
  \A k \in 1..Len(delivered) :
    \A i \in 1..Len(delivered[k].body) : delivered[k].body[i] >= start
=============================================================================
