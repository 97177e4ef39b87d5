--------------------------- MODULE MCShutdownTimer ---------------------------
(* Model-checking instances of ShutdownTimer. *)
EXTENDS ShutdownTimer

\* At once, and after more seconds than one tick takes.
Delays == {0, 3}

Codes == {0, 2}

=============================================================================
