SPECIFICATION Spec
CONSTANTS
    a1 = a1
    a2 = a2
    h1 = h1
    h2 = h2
    b1 = b1
    b2 = b2
    None = None
    Free = Free
    Player = {a1, a2, h1, h2}
    TeamOf <- Teams
    Party <- Parties
    BG = {b1, b2}
    Start <- Situations
    MinPlayersPerTeam = 1
    Counts = 5
INVARIANTS
    CountsExact
    InvitationHolds
    PlacesOffered
PROPERTY
    InvitationLasts
