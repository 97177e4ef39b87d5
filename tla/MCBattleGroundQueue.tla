------------------------ MODULE MCBattleGroundQueue ------------------------
(* Model-checking instance of BattleGroundQueue. *)
EXTENDS BattleGroundQueue, TLC

CONSTANTS a1, a2, h1, h2, b1, b2

\* Two against one; each has a party, whose second member on one side is offline.
Teams == (a1 :> "ALLIANCE") @@ (a2 :> "ALLIANCE") @@ (h1 :> "HORDE") @@ (h2 :> "HORDE")
Parties == {{a1, a2}, {h1, h2}}
Clients == {a1, a2, h1}
Quiet == [premadeWait |-> FALSE, castDeserter |-> FALSE, maxPlayersPerTeam |-> 2,
          instances |-> {b1}, client |-> {a1, a2, h1}, traveller |-> {},
          leaver |-> {}, events |-> [p \in Player |-> 1]]

\* One place and two battlegrounds at a time; premades and logouts; deserters,
\* travels, logouts and stale events.
Situations == {[Quiet EXCEPT !.instances = {b1, b2}, !.maxPlayersPerTeam = 1],
               [Quiet EXCEPT !.premadeWait = TRUE, !.leaver = {a1}],
               [Quiet EXCEPT !.castDeserter = TRUE, !.traveller = {a1}, !.leaver = {a1},
                             !.events[h1] = 2]}

=============================================================================
