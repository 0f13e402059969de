------------------------ MODULE MCSimpleMsgDispatcher ------------------------
(* TLC instances of SimpleMsgDispatcher.                                    *)
EXTENDS SimpleMsgDispatcher
=============================================================================
