\* Three users on three descriptors: deletions nest, descriptors are reused.
CONSTANTS
    Fd = {2, 3, 4}
    User = {1, 2, 3}
    Relogin = FALSE
    MaxConns = 3
SPECIFICATION Spec
INVARIANTS TablesRight SocketPool OwnConnection
CHECK_DEADLOCK FALSE
