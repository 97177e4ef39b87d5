---------------------------- MODULE MCWorldSocket ----------------------------
(* Model-checking instances of WorldSocket. *)
EXTENDS WorldSocket

CONSTANTS k1, k2, w1, w2

=============================================================================
