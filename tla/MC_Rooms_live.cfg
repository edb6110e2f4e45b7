\* One room of two seats; a write arrives, is lost or fails.
SPECIFICATION FairSpec
CONSTANTS
    u1 = u1
    u2 = u2
    u3 = u3
    NoUser = NoUser
    User <- TwoUsers
    MaxRoom = 1
    MaxPlayer = 2
    TeamMode = {2}
    TeamId = {}
    GameOption = {}
    Unset <- AnyMemory
    SendResult = {"ok", "lost", "error"}
    GameEndIn = {"ingame"}
PROPERTIES
    LoadingEnds
    EmptyRoomErased
\* A NULL dereference ends the process.
CHECK_DEADLOCK FALSE
