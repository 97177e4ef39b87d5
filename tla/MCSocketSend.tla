---------------------------- MODULE MCSocketSend ----------------------------
(* Model-checking instances of SocketSend. *)
EXTENDS SocketSend

CONSTANTS t1, t2

=============================================================================
