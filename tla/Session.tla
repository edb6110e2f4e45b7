------------------------------ MODULE Session ------------------------------
(***************************************************************************)
(* The session tables of MessageHandler: which TcpSocket object serves a   *)
(* descriptor, which user has logged in on it, and the pool of free        *)
(* objects.  ReceiveMessage works through a batch of epoll events; while   *)
(* it does, clients are deleted, their descriptors and TcpSocket objects   *)
(* are given to new ones, and events reported before are still to come.    *)
(*                                                                         *)
(* Deleting a logged-in client logs the user out, which tells the other    *)
(* players of his room; a write that fails there deletes that client       *)
(* within the same call.  The pending calls of PlayerLogout are a stack.   *)
(* Rooms are not in this module: any user may be told.                     *)
(*                                                                         *)
(* Descriptors and user numbers are both int32_t, and one may be taken for *)
(* the other: the tables are functions on both sets of numbers.            *)
(***************************************************************************)
EXTENDS Integers, Sequences, FiniteSets, SequencesExt

CONSTANTS
    Fd,        \* the descriptors accept() may return
    User,      \* the user numbers of the accounts
    Relogin,   \* whether a client sends CSLogin on a connection it logged in on
    MaxConns   \* bound: connections accepted in all

ASSUME SessionAssumption ==
    /\ Fd \subseteq Nat \ {0} /\ IsFiniteSet(Fd)
    /\ User \subseteq Nat \ {0} /\ IsFiniteSet(User)
    /\ Relogin \in BOOLEAN /\ MaxConns \in Nat

VARIABLES
    connects,     \* m_connects: the object of a descriptor, or No
    sock,         \* the TcpSocket objects: m_iSockfd and m_is_using of each
    free_conns,   \* free_conns
    user_to_fd,   \* m_user_id_to_fd
    fd_to_user,   \* m_fd_to_user_id
    persons,      \* the keys of PersonManager::m_user_id_to_person
    owner,        \* the connection a descriptor is open for (kernel), or No
    conn_of,      \* the connection a user logged in on last (history)
    refused,      \* the descriptors that were accepted and left alone
    batch,        \* the epoll events not yet handled
    pc,           \* "wait", "batch", "msg" (loop over messages) or "handle"
    cur,          \* the descriptor whose messages are handled
    to,           \* the users the running handler may write to
    stack,        \* the pending calls of PlayerLogout
    conns         \* connections accepted so far

tables == <<connects, sock, free_conns, user_to_fd, fd_to_user, persons>>
world  == <<owner, conn_of, refused, conns>>
loop   == <<batch, pc, cur, to>>
vars   == <<tables, world, loop, stack>>

No     == 0
Listen == 0             \* the listening descriptor
Key    == Fd \cup User  \* the keys that the tables meet

Online == {u \in User : user_to_fd[u] # No}

-----------------------------------------------------------------------------
(* Deleting a client. *)

\* Mutant: the user stays online while he is logged out.
Forgotten_Not(u) == user_to_fd

\* m_user_id_to_fd.erase(user_id)
Forgotten(u) == [user_to_fd EXCEPT ![u] = No]

\* PlayerLogout up to the call of PersonLogout
PlayerLogout(u) ==
    IF user_to_fd[u] = No THEN UNCHANGED <<user_to_fd, stack>>
    ELSE /\ user_to_fd' = Forgotten(u)
         /\ stack' = Append(stack, [user |-> u, fd |-> user_to_fd[u]])

\* Mutant: the table keeps the client.
Deleted_Not(f) == connects

\* m_connects.erase(fd)
Deleted(f) == [connects EXCEPT ![f] = No]

\* DeleteClientByFD and close_socket
DeleteClientByFD(f) ==
    IF connects[f] = No
    THEN UNCHANGED <<connects, sock, free_conns, owner, user_to_fd, stack>>
    ELSE LET s == connects[f]
         IN  /\ sock' = [sock EXCEPT ![s] = [fd |-> sock[s].fd, using |-> FALSE]]
             /\ owner' = [owner EXCEPT ![sock[s].fd] = No]
             /\ connects' = Deleted(f)
             /\ free_conns' = Append(free_conns, s)
             /\ IF fd_to_user[f] # No THEN PlayerLogout(fd_to_user[f])
                ELSE UNCHANGED <<user_to_fd, stack>>

\* A client is deleted by a step that changes nothing else of the tables.
OnlyDeletes(f) ==
    /\ DeleteClientByFD(f)
    /\ UNCHANGED <<fd_to_user, persons, conn_of, refused, conns>>

\* While the other players are told of a logout a write to v fails.
NestedSendFails(v) ==
    /\ stack # <<>> /\ v \in Online /\ connects[user_to_fd[v]] # No
    /\ OnlyDeletes(user_to_fd[v])
    /\ UNCHANGED loop

\* m_fd_to_user_id.erase(fd)
LoggedOut(f) == [fd_to_user EXCEPT ![f] = No]

\* PersonLogout deletes the person, and PlayerLogout ends.
LogoutEnds ==
    /\ stack # <<>>
    /\ LET top == Last(stack)
       IN  /\ persons' = persons \ {top.user}
           /\ fd_to_user' = LoggedOut(top.fd)
    /\ stack' = Front(stack)
    /\ UNCHANGED <<connects, sock, free_conns, user_to_fd, world, loop>>

-----------------------------------------------------------------------------
(* ReceiveMessage. *)

\* epoll_wait: each descriptor that is registered is reported at most once,
\* with EPOLLIN alone or with EPOLLERR or EPOLLHUP.
EpollWait ==
    /\ pc = "wait" /\ stack = <<>>
    /\ \E S \in SUBSET {f \in Fd : connects[f] # No} : \E H \in SUBSET S :
       \E L \in SUBSET {<<Listen, "in">>} :
         batch' = (H \X {"hup"}) \cup ((S \ H) \X {"in"}) \cup L
    /\ pc' = "batch"
    /\ UNCHANGED <<tables, world, cur, to, stack>>

\* The event e is the next one.
Handles(e) == pc = "batch" /\ stack = <<>> /\ e \in batch /\ batch' = batch \ {e}

\* The descriptor is broken: the client is deleted if there is one.
HangUp(f) ==
    /\ Handles(<<f, "hup">>)
    /\ OnlyDeletes(f)
    /\ UNCHANGED <<pc, cur, to>>

\* A descriptor that is not in m_connects any more
UnknownFd(f) ==
    /\ Handles(<<f, "in">>) /\ connects[f] = No
    /\ UNCHANGED <<tables, world, pc, cur, to, stack>>

\* RecvData, and the loop over the messages of the descriptor begins.
Readable(f) ==
    /\ Handles(<<f, "in">>) /\ connects[f] # No
    /\ pc' = "msg" /\ cur' = f
    /\ UNCHANGED <<tables, world, to, stack>>

\* GetFreeTcpSocket: the objects, the free one, and the queue without it
Objects == IF free_conns = <<>> THEN Append(sock, [fd |-> No, using |-> FALSE]) ELSE sock

FreeOne == IF free_conns = <<>> THEN Len(Objects) ELSE Head(free_conns)
OtherFree == IF free_conns = <<>> THEN <<>> ELSE Tail(free_conns)

\* The lowest descriptor that is not open
Unused == {f \in Fd : owner[f] = No}
LowestFd == CHOOSE f \in Unused : \A g \in Unused : f <= g

\* accept() fails: the object goes back to the queue.
AcceptFails ==
    /\ Handles(<<Listen, "in">>)
    /\ sock' = [Objects EXCEPT ![FreeOne] = [fd |-> No, using |-> FALSE]]
    /\ free_conns' = Append(OtherFree, FreeOne)
    /\ UNCHANGED <<connects, user_to_fd, fd_to_user, persons, world, pc, cur, to, stack>>

\* A new connection gets the lowest descriptor.
NewConnection ==
    /\ Unused # {} /\ conns < MaxConns
    /\ conns' = conns + 1 /\ owner' = [owner EXCEPT ![LowestFd] = conns + 1]

\* set_non_block fails after accept(): the object goes back, the descriptor
\* stays open.
AcceptHalf ==
    /\ Handles(<<Listen, "in">>) /\ NewConnection
    /\ sock' = [Objects EXCEPT ![FreeOne] = [fd |-> LowestFd, using |-> FALSE]]
    /\ free_conns' = Append(OtherFree, FreeOne)
    /\ UNCHANGED <<connects, user_to_fd, fd_to_user, persons, conn_of, refused,
                   pc, cur, to, stack>>

\* AcceptClient succeeds.
AcceptClient ==
    /\ Handles(<<Listen, "in">>) /\ NewConnection
    /\ sock' = [Objects EXCEPT ![FreeOne] = [fd |-> LowestFd, using |-> TRUE]]
    /\ free_conns' = OtherFree
    /\ IF fd_to_user[LowestFd] # No
       THEN refused' = refused \cup {LowestFd} /\ UNCHANGED connects
       ELSE connects' = [connects EXCEPT ![LowestFd] = FreeOne] /\ UNCHANGED refused
    /\ UNCHANGED <<user_to_fd, fd_to_user, persons, conn_of, pc, cur, to, stack>>

\* The events are used up; RunOnTick comes next.
BatchDone ==
    /\ pc = "batch" /\ stack = <<>> /\ batch = {}
    /\ pc' = "wait"
    /\ UNCHANGED <<tables, world, batch, cur, to, stack>>

\* The test of the loop finds m_connects[cur]; when a handler has deleted the
\* client it serves, the loop dereferences NULL and the process ends.
Looping == pc = "msg" /\ stack = <<>> /\ connects[cur] # No

\* What ReceiveMessage passes to ProcessRequest in place of a descriptor
Argument == IF fd_to_user[cur] = No THEN cur ELSE fd_to_user[cur]

\* PersonLogin fails.
AlreadyLogin(u) == u \in persons

\* MP_CSLogin and MP_CSRegist, when Login accepts the user: PersonLogin and
\* MessageHandler::PlayerLogin, then the reply.
CSLogin(u) ==
    /\ Looping /\ (fd_to_user[cur] = No \/ Relogin)
    /\ ~AlreadyLogin(u)
    /\ persons' = persons \cup {u}
    /\ IF user_to_fd[u] = No
       THEN /\ fd_to_user' = [fd_to_user EXCEPT ![Argument] = u]
            /\ user_to_fd' = [user_to_fd EXCEPT ![u] = Argument]
       ELSE UNCHANGED <<fd_to_user, user_to_fd>>
    /\ conn_of' = [conn_of EXCEPT ![u] = owner[cur]]
    /\ pc' = "handle" /\ to' = {u}
    /\ UNCHANGED <<connects, sock, free_conns, owner, refused, conns, batch, cur, stack>>

\* Any other message of a logged-in user: its handler may write to everyone.
Request ==
    /\ Looping /\ fd_to_user[cur] # No
    /\ pc' = "handle" /\ to' = User
    /\ UNCHANGED <<tables, world, batch, cur, stack>>

\* A write of the handler fails, and SendMessageToClient deletes the client.
SendFails(v) ==
    /\ pc = "handle" /\ stack = <<>>
    /\ v \in to \cap Online /\ connects[user_to_fd[v]] # No
    /\ OnlyDeletes(user_to_fd[v])
    /\ UNCHANGED loop

HandlerReturns ==
    /\ pc = "handle" /\ stack = <<>>
    /\ pc' = "msg"
    /\ UNCHANGED <<tables, world, batch, cur, to, stack>>

\* No message is left; after read_status_error the client is deleted.
MessagesDone(broken) ==
    /\ Looping
    /\ pc' = "batch" /\ cur' = No
    /\ IF broken THEN OnlyDeletes(cur) ELSE UNCHANGED <<tables, world, stack>>
    /\ UNCHANGED <<batch, to>>

-----------------------------------------------------------------------------
(* RunOnTick: Heartbeat::OnTick, a failed write of SYN::Run, and the players
   that Room::OnTick drops with DeleteClientByUserID. *)

TickDeletes(f) ==
    /\ pc = "wait" /\ stack = <<>> /\ connects[f] # No
    /\ OnlyDeletes(f)
    /\ UNCHANGED loop

DeleteClientByUserID(u) ==
    /\ pc = "wait" /\ stack = <<>> /\ u \in Online
    /\ OnlyDeletes(user_to_fd[u])
    /\ UNCHANGED loop

Init ==
    /\ connects = [k \in Key |-> No] /\ sock = <<>> /\ free_conns = <<>>
    /\ user_to_fd = [u \in User |-> No] /\ fd_to_user = [k \in Key |-> No]
    /\ persons = {}
    /\ owner = [f \in Fd |-> No] /\ conn_of = [u \in User |-> No]
    /\ refused = {} /\ conns = 0
    /\ batch = {} /\ pc = "wait" /\ cur = No /\ to = {} /\ stack = <<>>

Next ==
    \/ EpollWait \/ AcceptFails \/ AcceptHalf \/ AcceptClient \/ BatchDone
    \/ \E f \in Fd : HangUp(f) \/ UnknownFd(f) \/ Readable(f) \/ TickDeletes(f)
    \/ \E u \in User : CSLogin(u) \/ SendFails(u) \/ NestedSendFails(u)
                       \/ DeleteClientByUserID(u)
    \/ Request \/ HandlerReturns \/ LogoutEnds
    \/ \E broken \in BOOLEAN : MessagesDone(broken)

Spec == Init /\ [][Next]_vars

-----------------------------------------------------------------------------
(* Properties. *)

\* Every variable has its type.
TypeOK ==
    /\ connects \in [Key -> 0 .. Len(sock)]
    /\ sock \in Seq([fd : Fd \cup {No}, using : BOOLEAN])
    /\ free_conns \in Seq(1 .. Len(sock))
    /\ user_to_fd \in [User -> Key \cup {No}]
    /\ fd_to_user \in [Key -> User \cup {No}]
    /\ persons \subseteq User
    /\ owner \in [Fd -> 0 .. MaxConns] /\ conn_of \in [User -> 0 .. MaxConns]
    /\ refused \subseteq Fd /\ conns \in 0 .. MaxConns
    /\ batch \subseteq (Fd \cup {Listen}) \X {"in", "hup"}
    /\ pc \in {"wait", "batch", "msg", "handle"} /\ cur \in Fd \cup {No}
    /\ to \subseteq User
    /\ stack \in Seq([user : User, fd : Key])

\* m_user_id_to_fd and m_fd_to_user_id are inverse to each other, know only
\* connections that exist, and know the users who have a Person; a user who is
\* being logged out is in the second table only.
MapsInverse ==
    /\ \A u \in Online : /\ fd_to_user[user_to_fd[u]] = u
                         /\ connects[user_to_fd[u]] # No
                         /\ u \in persons
    /\ \A k \in Key : fd_to_user[k] # No =>
         \/ user_to_fd[fd_to_user[k]] = k
         \/ \E i \in DOMAIN stack : stack[i] = [user |-> fd_to_user[k], fd |-> k]
    /\ \A u \in persons : u \in Online \/ \E i \in DOMAIN stack : stack[i].user = u

\* PlayerLogout goes on where it was, whatever the calls nested in it did: each
\* pending logout is of another user, his Person has not been deleted, and his
\* descriptor still has his entry and no client.
PendingLogouts ==
    /\ \A i \in DOMAIN stack :
         /\ stack[i].user \in persons \ Online
         /\ fd_to_user[stack[i].fd] = stack[i].user
         /\ connects[stack[i].fd] = No
    /\ \A i, j \in DOMAIN stack : stack[i].user = stack[j].user => i = j

\* A user's messages go to the connection on which he logged in, however often
\* descriptors and TcpSocket objects have been given to others since.
OwnConnection ==
    \A u \in Online : user_to_fd[u] \in Fd /\ owner[user_to_fd[u]] = conn_of[u]

\* accept() never returns a descriptor that is still in m_fd_to_user_id, so
\* every accepted client is served.
AcceptedServed == refused = {}

\* The tables are well-formed and describe the users who are logged in, also
\* while logouts are nested in logouts, and no client is left alone by accept().
TablesRight == TypeOK /\ MapsInverse /\ PendingLogouts /\ AcceptedServed

\* No TcpSocket object serves two clients or is in the queue while it serves
\* one; each serves the descriptor it will close.
SocketPool ==
    /\ \A f \in Fd : connects[f] # No =>
         /\ sock[connects[f]] = [fd |-> f, using |-> TRUE]
         /\ owner[f] # No
         /\ connects[f] \notin ToSet(free_conns)
    /\ IsInjective(free_conns)
    /\ \A s \in ToSet(free_conns) : ~sock[s].using
=============================================================================
