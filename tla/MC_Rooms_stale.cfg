SPECIFICATION Spec
CONSTANTS
    u1 = u1
    u2 = u2
    u3 = u3
    NoUser = NoUser
    User <- ThreeUsers
    MaxRoom = 1
    MaxPlayer = 3
    TeamMode = {2}
    TeamId = {2}
    GameOption = {}
    Unset <- AnyMemory
    SendResult = {"ok", "error"}
    GameEndIn = {"ingame"}
SYMMETRY UserSymmetry
INVARIANTS
    PlayerIdKnown
\* A NULL dereference ends the process.
CHECK_DEADLOCK FALSE
