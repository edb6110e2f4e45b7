\* Numbers of two digits, and a ring of two frames with two slots each.
SPECIFICATION CMessageSpec
CONSTANTS
    NULL = NULL
    Byte = 8
    IntBytes = 2
    MaxLen = 10
    Entries <- MC_Entries
    Ids <- MC_Ids
    FrameNums <- MC_FrameNums
    Hashes = {63}
    Contents = {"a", "b"}
    Bodies <- MC_Bodies
    Garbage <- MC_Garbage
    Frames = 2
    Slots = 2
    Serialize <- MC_Serialize
INVARIANTS HandledRight HandlerFits SentDecodes MessageMemory
