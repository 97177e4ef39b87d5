------------------------------- MODULE Socket -------------------------------
(***************************************************************************)
(* What the sending side (SocketSend) and the receiving side               *)
(* (SocketReceive) of a connection have in common: the buffers and the     *)
(* flag that says the socket was closed.  They share nothing else.         *)
(***************************************************************************)
EXTENDS NetworkBuffer

CONSTANT None

VARIABLE closed_    \* Socket::closed_

=============================================================================
