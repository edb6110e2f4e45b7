\* Long stalls, operations in the lobby, frame numbers below 1, two games.
CONSTANTS
    p1 = p1
    p2 = p2
    Nobody = Nobody
    Player <- TwoPlayers
    Namesake <- TwoPlayers
    AllowedDelay = 1
    AllowedAhead = 1
    AllowedExist = 2
    BufferSize = 3
    OneFrameSize = 1
    LobbyOps = TRUE
    FirstFrame = 0
    MaxStall = 5
    MaxFrame = 5
    MaxMess = 2
    MaxGame = 2
SYMMETRY PlayerSymmetry
SPECIFICATION Spec
INVARIANTS RingRight SameGame FramesInOrder
CHECK_DEADLOCK FALSE
