\* Two connections in turn, every way they end, writes that fail.
CONSTANTS
    short = short
    long = long
    large = large
    s1 = s1
    t1 = t1
    t2 = t2
    None = None
    Msg = {short, long, large}
    Size <- MCSize
    LenBytes = 1
    BufSize = 5
    MaxSize = 3
    Beat = {short}
    MaxSent = 3
    MaxConns = 2
    SendBufSize = 4
    Kernel = 5
SPECIFICATION TcpSpec
INVARIANTS BuffersRight StreamIntact NoFalseDisconnect
PROPERTIES ImplementsStreams Delivered SendLostOnlyWhenFull SendFlushed
CHECK_DEADLOCK FALSE
