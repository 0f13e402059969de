------------------------ MODULE MCReconnectedStream ------------------------
(* TLC instance of ReconnectedStream.                                       *)
EXTENDS ReconnectedStream
=============================================================================
