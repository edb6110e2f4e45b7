\* The ring as a line of frames: it wraps around, the clock stalls.
CONSTANTS
    p1 = p1
    p2 = p2
    Nobody = Nobody
    Player <- OnePlayer
    Namesake <- OnePlayer
    AllowedDelay = 1
    AllowedAhead = 1
    AllowedExist = 3
    BufferSize = 6
    OneFrameSize = 3
    LobbyOps = FALSE
    FirstFrame = 1
    MaxStall = 2
    MaxFrame = 7
    MaxMess = 3
    MaxGame = 1
SPECIFICATION LSpec
INVARIANTS InBounds OnSchedule PlayerOrderUntil
PROPERTY ImplementsTimeline
