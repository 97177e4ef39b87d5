------------------------- MODULE MCWorldSessions -------------------------
(* Model-checking instances of WorldSessions. *)
EXTENDS WorldSessions, TLC

CONSTANTS p1, p2, gm, s1, s2, s3

\* Two players, or two players and a game master.
TwoPlayers == [a \in {p1, p2} |-> SEC_PLAYER]
PlayersAndGM == (p1 :> SEC_PLAYER) @@ (p2 :> SEC_PLAYER) @@ (gm :> 2)

NoLimits == {}
AllLimits == {-2, 0, 1, 2}

\* Session objects are interchangeable.
SessSymmetry == Permutations(Sess)

=============================================================================
