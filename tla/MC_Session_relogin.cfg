\* A client sends CSLogin on a connection that is logged in.
CONSTANTS
    Fd = {2, 3}
    User = {1, 2}
    Relogin = TRUE
    MaxConns = 4
SPECIFICATION Spec
INVARIANT OwnConnection
CHECK_DEADLOCK FALSE
