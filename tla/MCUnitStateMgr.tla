--------------------------- MODULE MCUnitStateMgr ---------------------------
(* A model-checking instance of UnitStateMgr. *)
EXTENDS UnitStateMgr

PushedKinds == {"chase", "point", "assist", "confused", "flee", "stun"}
ScriptAnswers == {"point", None}

=============================================================================
