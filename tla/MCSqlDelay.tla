------------------------------ MODULE MCSqlDelay ------------------------------
(* Model-checking instances of SqlDelay. *)
EXTENDS SqlDelay

\* The world thread and a network thread.
TwoCallers == {"world", "network"}

=============================================================================
