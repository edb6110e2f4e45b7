SPECIFICATION FairSpec
CONSTANTS
    u1 = u1
    u2 = u2
    u3 = u3
    NoUser = NoUser
    User <- TwoUsers
    MaxRoom = 1
    MaxPlayer = 2
    TeamMode = {2}
    TeamId = {}
    GameOption = {}
    Unset <- AnyMemory
    SendResult = {"ok"}
    GameEndIn = {"waiting", "ingame"}
PROPERTIES
    EmptyRoomErased
\* A NULL dereference ends the process.
CHECK_DEADLOCK FALSE
