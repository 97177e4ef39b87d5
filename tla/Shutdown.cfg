SPECIFICATION ShutdownSpec
CONSTANTS
    NoPlan = NoPlan
    Cancel = Cancel
    Word = 16
    Delay <- Delays
    Code <- Codes
    MaxJump = 2
    MaxBack = 1
    MaxBacks = 1
    MaxCommands = 3
    MaxSessions = 1
INVARIANTS
    CountdownAgrees
    ExitCodeStands
PROPERTIES
    StopsAsPlanned
    Obeyed
CHECK_DEADLOCK FALSE
