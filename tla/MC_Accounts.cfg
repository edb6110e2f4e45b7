\* Queries and replies fail, the server restarts, clients try again.
CONSTANTS
    alice = alice
    again = again
    carol = carol
    bob = bob
    n1 = n1
    n2 = n2
    p1 = p1
    p2 = p2
    NoRow = NoRow
    Client = {alice, again, carol, bob}
    Name <- MCName
    Passwd <- MCPasswd
    NameLen <- MCNameLen
    PasswdLen <- MCPasswdLen
    MaxFails = 2
    MaxCrashes = 1
SPECIFICATION FairSpec
INVARIANT SessionsRight
PROPERTIES AccountsKept OwnerGetsIn
