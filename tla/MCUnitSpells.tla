---------------------------- MODULE MCUnitSpells ----------------------------
(* A model-checking instance of UnitSpells. *)
EXTENDS UnitSpells

Entry(slot, casttime, duration, flight, autoshot) ==
    [slot |-> slot, casttime |-> casttime, duration |-> duration, flight |-> flight,
     autoshot |-> autoshot]

\* A cast that flies to two targets, a channel, one that starts after a flight, a spell
\* of the next swing, a wand and a bow.
Known ==
    [volley |-> Entry("generic", 1, 0, {1, 3}, FALSE),
     drain  |-> Entry("channeled", 0, 2, {}, FALSE),
     chain  |-> Entry("channeled", 0, 1, {1}, FALSE),
     slam   |-> Entry("melee", 0, 0, {}, FALSE),
     wand   |-> Entry("autorepeat", 0, 0, {}, FALSE),
     bow    |-> Entry("autorepeat", 0, 0, {1}, TRUE)]
AllCasts == DOMAIN Known
TwoSpells == 1 .. 2
OneTick == {1}

=============================================================================
