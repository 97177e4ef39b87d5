SPECIFICATION TradeSpec
CONSTANTS
    p1 = p1
    p2 = p2
    p3 = p3
    i1 = i1
    i2 = i2
    None = None
    Player = {p1, p2, p3}
    Item = {i1, i2}
    Mail = {1, 2, 3}
    MaxGold = 4
    Room = 1
    Auction = {1}
    Start <- Situations
    Deposit = 1
    CutPercent = 50
    StartBid = {1}
    Buyout = {0, 2}
    Price = {1, 2}
    Postage = 1
    Sum = {1}
    TradeGold = {0, 1}
    MaxPlayers = 2
INVARIANTS
    NothingLostOrDoubled
    MemoryStored
    WinnerPays
    TradesPaired
PROPERTY
    DealAsAccepted
