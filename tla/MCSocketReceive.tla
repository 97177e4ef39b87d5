--------------------------- MODULE MCSocketReceive ---------------------------
(* Model-checking instances of SocketReceive. *)
EXTENDS SocketReceive

=============================================================================
