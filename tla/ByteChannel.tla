----------------------------- MODULE ByteChannel -----------------------------
(***************************************************************************)
(* What the sending side of a Socket promises: a channel that delivers the *)
(* bytes it accepted, in order, each once, and all of them unless it       *)
(* breaks.                                                                 *)
(***************************************************************************)
EXTENDS Integers, Sequences

CONSTANT Byte

VARIABLES accepted, received, broken

chan == <<accepted, received, broken>>

Init == accepted = << >> /\ received = << >> /\ broken = FALSE

Accept == /\ accepted' \in Seq(Byte)
          /\ Len(accepted') > Len(accepted)
          /\ SubSeq(accepted', 1, Len(accepted)) = accepted
          /\ UNCHANGED <<received, broken>>

\* Bytes that are on their way when the channel breaks may still arrive.
Deliver == /\ \E n \in Len(received) + 1 .. Len(accepted) :
                 received' = SubSeq(accepted, 1, n)
           /\ UNCHANGED <<accepted, broken>>

Break == ~broken /\ broken' = TRUE /\ UNCHANGED <<accepted, received>>

Next == Accept \/ Deliver \/ Break

Spec == Init /\ [][Next]_chan /\ WF_chan(~broken /\ Deliver)

=============================================================================
