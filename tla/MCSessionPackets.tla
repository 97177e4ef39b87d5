-------------------------- MODULE MCSessionPackets --------------------------
(* Model-checking instances of SessionPackets. *)
EXTENDS SessionPackets

AllKinds == DOMAIN opcodeTable

=============================================================================
