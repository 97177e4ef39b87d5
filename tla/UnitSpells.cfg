SPECIFICATION Spec
CONSTANTS
    None = None
    Sp <- TwoSpells
    Cast <- AllCasts
    SpellInfo <- Known
    Ticks <- OneTick
    MaxNest = 1
INVARIANTS
    SpellsOwned
    SlotsLive
PROPERTIES
    LeaksWereKilled
    FlightsSurvive
    FinishedFreed
CHECK_DEADLOCK FALSE
