SPECIFICATION Spec
CONSTANTS
    None = None
    Pushed <- PushedKinds
    Answers <- ScriptAnswers
INVARIANTS
    TableSound
    StatesFollowActions
CHECK_DEADLOCK FALSE
