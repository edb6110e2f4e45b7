\* One room in which any write may fail, or two of two players each.
SPECIFICATION MCSpec
CONSTANTS
    u1 = u1
    u2 = u2
    u3 = u3
    NoUser = NoUser
    User <- ThreeUsers
    MaxRoom = 2
    MaxPlayer = 3
    TeamMode = {1, 2}
    TeamId = {2}
    GameOption = {20}
    Unset <- UsedMemory
    SendResult = {"ok", "error"}
    GameEndIn = {"ingame"}
SYMMETRY UserSymmetry
INVARIANTS
    TypeOK
    MemberHasSeat
    RoomCounts
    PendingRoomsExist
    FreeRoomsApart
    TablesAgree
    ExitsTold
    JoinRoomNeverNull
    RoomKnownUntil
PROPERTIES
    StartsLoadedUntil
    TeamFollowsPlayer
\* A NULL dereference ends the process.
CHECK_DEADLOCK FALSE
