--------------------------- MODULE SessionProofs ---------------------------
(***************************************************************************)
(* Proofs about module Session, for any descriptors and users and any      *)
(* number of connections, when no client sends CSLogin on a connection     *)
(* that is logged in.  (MC_Session_relogin shows what happens when one     *)
(* does.)                                                                  *)
(***************************************************************************)
EXTENDS Session, WellFoundedInduction, TLAPS

-----------------------------------------------------------------------------
(* The inductive invariant. *)

Sockets == [fd : Fd \cup {No}, using : BOOLEAN]
Calls   == [user : User, fd : Fd]

\* The types of the tables and of what they describe; the keys that occur in
\* them are descriptors.
TableTypes ==
    /\ connects \in [Key -> 0 .. Len(sock)] /\ \A k \in Key \ Fd : connects[k] = No
    /\ sock \in Seq(Sockets)
    /\ free_conns \in Seq(1 .. Len(sock))
    /\ user_to_fd \in [User -> Fd \cup {No}]
    /\ fd_to_user \in [Key -> User \cup {No}] /\ \A k \in Key \ Fd : fd_to_user[k] = No
    /\ persons \subseteq User
    /\ owner \in [Fd -> 0 .. MaxConns] /\ conn_of \in [User -> 0 .. MaxConns]
    /\ conns \in 0 .. MaxConns
    /\ stack \in Seq(Calls)

\* The types of the loop's variables; its messages are those of a descriptor.
LoopInv ==
    /\ batch \subseteq (Fd \cup {Listen}) \X {"in", "hup"}
    /\ pc \in {"wait", "batch", "msg", "handle"} /\ cur \in Fd \cup {No}
    /\ to \subseteq User
    /\ pc \in {"msg", "handle"} => cur \in Fd

\* Users and descriptors: m_user_id_to_fd, m_fd_to_user_id and the pending calls
Users == MapsInverse /\ PendingLogouts /\ OwnConnection /\ AcceptedServed

\* What holds in every state, strong enough to be kept by every step.
TablesInv == TableTypes /\ Users /\ SocketPool
IInv == TablesInv /\ LoopInv

\* The numbers of descriptors and of users are not 0.
LEMMA NumbersNotNo == No \notin Fd /\ No \notin User /\ Fd \subseteq Key /\ User \subseteq Key
  BY SessionAssumption DEF No, Key

\* A set of natural numbers that is not empty has a least one.
LEMMA LeastExists ==
    ASSUME NEW T, T \subseteq Nat, T # {}
    PROVE  \E x \in T : \A y \in T : x <= y
  <1> DEFINE R == OpToRel(<, Nat)
  <1>1. \A a, b \in Nat : a < b => <<a, b>> \in R
    BY DEF OpToRel
  <1>2. IsWellFoundedOn(R, Nat)
    BY NatLessThanWellFounded
  <1> HIDE DEF R
  <1>3. PICK x \in T : \A y \in T : <<y, x>> \notin R
    BY <1>2, WFMin
  <1>4. ASSUME NEW y \in T PROVE x <= y
    <2>1. x \in Nat /\ y \in Nat
      OBVIOUS
    <2>2. ~ (y < x)
      BY <2>1, <1>1, <1>3
    <2> QED BY <2>1, <2>2
  <1> QED BY <1>4

\* accept() returns a descriptor that is not open.
LEMMA LowestIsUnused ==
    ASSUME Unused # {} PROVE LowestFd \in Fd /\ owner[LowestFd] = No
  <1>1. \E f \in Unused : \A g \in Unused : f <= g
    BY LeastExists, SessionAssumption DEF Unused
  <1>2. LowestFd \in Unused
    BY <1>1 DEF LowestFd
  <1> QED BY <1>2 DEF Unused

\* The invariant speaks of nothing else.
LEMMA TablesSame ==
    ASSUME TablesInv, UNCHANGED <<tables, world, stack>>
    PROVE  TablesInv'
  BY DEF TablesInv, TableTypes, Users, SocketPool, MapsInverse, PendingLogouts, OwnConnection,
         AcceptedServed, Online, tables, world

\* The elements of a queue after push(x)
LEMMA AppendSet ==
    ASSUME NEW S, NEW q \in Seq(S), NEW x
    PROVE  ToSet(Append(q, x)) = ToSet(q) \cup {x}
  <1> DEFINE n == Len(q) + 1
  <1>1. Len(q) \in Nat /\ DOMAIN q = 1 .. Len(q) /\ DOMAIN Append(q, x) = 1 .. n
    OBVIOUS
  <1>2. Append(q, x)[n] = x /\ \A i \in 1 .. Len(q) : Append(q, x)[i] = q[i]
    OBVIOUS
  <1>3. 1 .. n = (1 .. Len(q)) \cup {n}
    BY <1>1
  <1> QED BY <1>1, <1>2, <1>3, Zenon DEF ToSet

\* A sequence over a set is one over every larger set.
LEMMA SeqMonotone ==
    ASSUME NEW S, NEW T, S \subseteq T, NEW q \in Seq(S) PROVE q \in Seq(T)
  OBVIOUS

\* A stack after a push and after a pop
LEMMA StackParts ==
    ASSUME NEW S, NEW q \in Seq(S)
    PROVE  /\ \A x \in S :
                /\ Append(q, x) \in Seq(S)
                /\ DOMAIN Append(q, x) = DOMAIN q \cup {Len(q) + 1} /\ Len(q) + 1 \notin DOMAIN q
                /\ Append(q, x)[Len(q) + 1] = x
                /\ \A i \in DOMAIN q : Append(q, x)[i] = q[i]
           /\ q # <<>> =>
                /\ Len(q) \in DOMAIN q /\ q[Len(q)] \in S
                /\ SubSeq(q, 1, Len(q) - 1) \in Seq(S)
                /\ DOMAIN SubSeq(q, 1, Len(q) - 1) = DOMAIN q \ {Len(q)}
                /\ \A i \in DOMAIN q : i # Len(q) => SubSeq(q, 1, Len(q) - 1)[i] = q[i]
           /\ \A i \in DOMAIN q : q[i] \in S
  <1>1. Len(q) \in Nat /\ DOMAIN q = 1 .. Len(q) /\ \A i \in 1 .. Len(q) : q[i] \in S
    OBVIOUS
  <1>2. ASSUME NEW x \in S
        PROVE  /\ Append(q, x) \in Seq(S)
               /\ DOMAIN Append(q, x) = DOMAIN q \cup {Len(q) + 1} /\ Len(q) + 1 \notin DOMAIN q
               /\ Append(q, x)[Len(q) + 1] = x
               /\ \A i \in DOMAIN q : Append(q, x)[i] = q[i]
    <2>1. 1 .. Len(q) + 1 = 1 .. Len(q) \cup {Len(q) + 1} /\ Len(q) + 1 \notin 1 .. Len(q)
      BY <1>1
    <2>2. Append(q, x) \in Seq(S) /\ DOMAIN Append(q, x) = 1 .. Len(q) + 1
      OBVIOUS
    <2> QED BY <1>1, <2>1, <2>2
  <1>3. ASSUME q # <<>>
        PROVE  /\ Len(q) \in DOMAIN q /\ q[Len(q)] \in S
               /\ SubSeq(q, 1, Len(q) - 1) \in Seq(S)
               /\ DOMAIN SubSeq(q, 1, Len(q) - 1) = DOMAIN q \ {Len(q)}
               /\ \A i \in DOMAIN q : i # Len(q) => SubSeq(q, 1, Len(q) - 1)[i] = q[i]
    <2>1. Len(q) > 0 /\ 1 .. Len(q) - 1 = 1 .. Len(q) \ {Len(q)}
      BY <1>1, <1>3
    <2>2. /\ SubSeq(q, 1, Len(q) - 1) \in Seq(S) /\ DOMAIN SubSeq(q, 1, Len(q) - 1) = 1 .. Len(q) - 1
          /\ \A i \in 1 .. Len(q) - 1 : SubSeq(q, 1, Len(q) - 1)[i] = q[i]
      BY <1>1, <2>1
    <2> QED BY <1>1, <2>1, <2>2
  <1> QED BY <1>1, <1>2, <1>3

-----------------------------------------------------------------------------
(* Deleting a client. *)

\* While a client exists he is not being logged out: the user of his descriptor,
\* if any, is online, and nobody else is online on it.
LEMMA ClientNotPending ==
    ASSUME TablesInv, NEW f \in Fd, connects[f] # No
    PROVE  /\ fd_to_user[f] # No => fd_to_user[f] \in Online /\ user_to_fd[fd_to_user[f]] = f
           /\ \A u \in Online : user_to_fd[u] = f => u = fd_to_user[f]
           /\ \A i \in DOMAIN stack : stack[i].fd # f
  <1>1. f \in Key /\ fd_to_user[f] \in User \cup {No} /\ f # No
    BY NumbersNotNo DEF TablesInv, TableTypes
  <1>2. \A i \in DOMAIN stack : stack[i].fd # f
    BY DEF TablesInv, Users, PendingLogouts
  <1>3. ASSUME fd_to_user[f] # No PROVE user_to_fd[fd_to_user[f]] = f
    <2>1. ASSUME NEW i \in DOMAIN stack PROVE stack[i] # [user |-> fd_to_user[f], fd |-> f]
      BY <1>2
    <2> QED BY <1>1, <1>3, <2>1 DEF TablesInv, Users, MapsInverse
  <1>4. ASSUME NEW u \in Online, user_to_fd[u] = f PROVE u = fd_to_user[f]
    BY <1>4 DEF TablesInv, Users, MapsInverse
  <1> QED BY <1>1, <1>2, <1>3, <1>4 DEF Online

\* What a deletion does to the pool.
LEMMA DeletePool ==
    ASSUME TablesInv, NEW f \in Fd, connects[f] # No, DeleteClientByFD(f)
    PROVE  /\ SocketPool'
           /\ connects' \in [Key -> 0 .. Len(sock')] /\ sock' \in Seq(Sockets)
           /\ free_conns' \in Seq(1 .. Len(sock'))
           /\ connects' = [connects EXCEPT ![f] = No] /\ owner' = [owner EXCEPT ![f] = No]
  <1>0. PICK s : s = connects[f]
    OBVIOUS
  <1>1. /\ connects \in [Key -> 0 .. Len(sock)] /\ sock \in Seq(Sockets)
        /\ free_conns \in Seq(1 .. Len(sock)) /\ owner \in [Fd -> 0 .. MaxConns]
    BY DEF TablesInv, TableTypes
  <1>2. s \in 1 .. Len(sock) /\ sock[s] = [fd |-> f, using |-> TRUE]
        /\ s \notin ToSet(free_conns) /\ f \in Key /\ Fd \subseteq Key
    BY <1>0, <1>1, NumbersNotNo DEF TablesInv, SocketPool, No
  <1>3. /\ sock' = [sock EXCEPT ![s] = [fd |-> f, using |-> FALSE]]
        /\ owner' = [owner EXCEPT ![f] = No]
        /\ connects' = [connects EXCEPT ![f] = No] /\ free_conns' = Append(free_conns, s)
    <2>1. sock[s].fd = f
      BY <1>2
    <2> QED BY <1>0, <2>1, Zenon DEF DeleteClientByFD, Deleted
  <1>4. /\ sock' \in Seq(Sockets) /\ Len(sock') = Len(sock) /\ sock'[s] = [fd |-> f, using |-> FALSE]
        /\ \A t \in 1 .. Len(sock) : t # s => sock'[t] = sock[t]
    BY <1>1, <1>2, <1>3 DEF Sockets
  <1>5. /\ free_conns' \in Seq(1 .. Len(sock')) /\ Len(free_conns') = Len(free_conns) + 1
        /\ \A i \in 1 .. Len(free_conns) : free_conns'[i] = free_conns[i]
        /\ free_conns'[Len(free_conns) + 1] = s
    BY <1>1, <1>2, <1>3, <1>4
  <1>6. ToSet(free_conns') = ToSet(free_conns) \cup {s}
    BY <1>1, <1>3, AppendSet
  <1>7. \A g \in Fd : connects[g] = s => g = f
    <2> SUFFICES ASSUME NEW g \in Fd, connects[g] = s PROVE g = f
      OBVIOUS
    <2>1. sock[s] = [fd |-> g, using |-> TRUE]
      BY <1>0 DEF TablesInv, SocketPool
    <2> QED BY <1>2, <2>1
  <1>8. \A g \in Fd : connects'[g] # No =>
          /\ sock'[connects'[g]] = [fd |-> g, using |-> TRUE]
          /\ owner'[g] # No /\ connects'[g] \notin ToSet(free_conns')
    <2> SUFFICES ASSUME NEW g \in Fd, connects'[g] # No
                 PROVE  /\ sock'[connects'[g]] = [fd |-> g, using |-> TRUE]
                        /\ owner'[g] # No /\ connects'[g] \notin ToSet(free_conns')
      OBVIOUS
    <2>1. g # f /\ connects'[g] = connects[g] /\ connects[g] # s /\ owner'[g] = owner[g]
          /\ connects[g] \in 1 .. Len(sock)
      BY <1>1, <1>2, <1>3, <1>7 DEF No
    <2> QED BY <1>4, <1>6, <2>1 DEF TablesInv, SocketPool
  <1>9. IsInjective(free_conns')
    <2> SUFFICES ASSUME NEW i \in 1 .. Len(free_conns'), NEW j \in 1 .. Len(free_conns'),
                        free_conns'[i] = free_conns'[j]
                 PROVE  i = j
      BY <1>5 DEF IsInjective
    <2>1. \A m, n \in 1 .. Len(free_conns) : free_conns[m] = free_conns[n] => m = n
      BY <1>1 DEF TablesInv, SocketPool, IsInjective
    <2>2. \A m \in 1 .. Len(free_conns) : free_conns[m] # s
      BY <1>1, <1>2 DEF ToSet
    <2>3. Len(free_conns) \in Nat /\ 1 .. Len(free_conns') = 1 .. Len(free_conns) \cup {Len(free_conns) + 1}
      BY <1>1, <1>5
    <2> QED BY <1>5, <2>1, <2>2, <2>3
  <1>10. \A t \in ToSet(free_conns') : ~sock'[t].using
    <2>1. \A t \in ToSet(free_conns) : t \in 1 .. Len(sock)
      BY <1>1 DEF ToSet
    <2> QED BY <1>2, <1>4, <1>6, <2>1 DEF TablesInv, SocketPool
  <1>11. SocketPool'
    BY <1>8, <1>9, <1>10 DEF SocketPool
  <1>12. connects' \in [Key -> 0 .. Len(sock')]
    <2>1. 0 \in 0 .. Len(sock') /\ connects \in [Key -> 0 .. Len(sock')]
      BY <1>1, <1>4
    <2> QED BY <1>3, <2>1 DEF No
  <1> QED BY <1>3, <1>4, <1>5, <1>11, <1>12

\* A deletion keeps the tables, within a logout or not: the user of the client,
\* if any, becomes one who is being logged out.
LEMMA DeleteKeeps ==
    ASSUME TablesInv, NEW f \in Fd, OnlyDeletes(f)
    PROVE  TablesInv'
  <1>1. CASE connects[f] = No
    <2>1. UNCHANGED <<tables, world, stack>>
      BY <1>1 DEF OnlyDeletes, DeleteClientByFD, tables, world
    <2> QED BY <2>1, TablesSame
  <1>2. CASE connects[f] # No
    <2>1. UNCHANGED <<fd_to_user, persons, conn_of, refused, conns>> /\ DeleteClientByFD(f)
      BY DEF OnlyDeletes
    <2>2. /\ SocketPool' /\ connects' \in [Key -> 0 .. Len(sock')] /\ sock' \in Seq(Sockets)
          /\ free_conns' \in Seq(1 .. Len(sock'))
          /\ connects' = [connects EXCEPT ![f] = No] /\ owner' = [owner EXCEPT ![f] = No]
      BY <1>2, <2>1, DeletePool
    <2>3. /\ f \in Key /\ f # No /\ connects \in [Key -> 0 .. Len(sock)] /\ owner \in [Fd -> 0 .. MaxConns]
          /\ \A k \in Key : k # f => connects'[k] = connects[k]
          /\ \A g \in Fd : g # f => owner'[g] = owner[g]
          /\ connects'[f] = No
      BY <2>2, NumbersNotNo DEF TablesInv, TableTypes
    <2>4. owner' \in [Fd -> 0 .. MaxConns] /\ \A k \in Key \ Fd : connects'[k] = No
      BY <2>2, <2>3, SessionAssumption DEF TablesInv, TableTypes, No
    <2>5. CASE fd_to_user[f] = No
      <3>1. UNCHANGED <<user_to_fd, stack>>
        BY <1>2, <2>1, <2>5 DEF DeleteClientByFD
      <3>2. TableTypes'
        BY <2>1, <2>2, <2>4, <3>1 DEF TablesInv, TableTypes
      <3>3. Online' = Online /\ \A u \in Online : user_to_fd[u] \in Fd /\ user_to_fd[u] # f
        BY <1>2, <2>5, <3>1, ClientNotPending, NumbersNotNo DEF Online, TablesInv, TableTypes
      <3>4. Users'
        <4>1. MapsInverse'
          BY <2>1, <2>3, <3>1, <3>3, NumbersNotNo DEF TablesInv, Users, MapsInverse
        <4>2. \A i \in DOMAIN stack : stack[i] \in Calls
          BY StackParts DEF TablesInv, TableTypes
        <4>3. PendingLogouts'
          BY <2>1, <2>3, <3>1, <3>3, <4>2, NumbersNotNo DEF Calls, TablesInv, Users, PendingLogouts
        <4>4. OwnConnection' /\ AcceptedServed'
          BY <2>1, <2>3, <3>1, <3>3 DEF TablesInv, Users, OwnConnection, AcceptedServed
        <4> QED BY <4>1, <4>3, <4>4 DEF Users
      <3> QED BY <2>2, <3>2, <3>4 DEF TablesInv
    <2>6. CASE fd_to_user[f] # No
      <3>1. PICK w \in User : w = fd_to_user[f]
        BY <2>3, <2>6 DEF TablesInv, TableTypes
      <3>2. w \in Online /\ user_to_fd[w] = f /\ \A u \in Online : user_to_fd[u] = f => u = w
        BY <1>2, <2>6, <3>1, ClientNotPending
      <3>3. user_to_fd' = [user_to_fd EXCEPT ![w] = No] /\ stack' = Append(stack, [user |-> w, fd |-> f])
        BY <1>2, <2>1, <2>3, <2>6, <3>1, <3>2 DEF DeleteClientByFD, PlayerLogout, Forgotten
      <3>4. /\ user_to_fd' \in [User -> Fd \cup {No}] /\ user_to_fd'[w] = No
            /\ \A u \in User : u # w => user_to_fd'[u] = user_to_fd[u]
        BY <3>3 DEF TablesInv, TableTypes
      <3>5. /\ stack \in Seq(Calls) /\ stack' \in Seq(Calls)
            /\ DOMAIN stack' = DOMAIN stack \cup {Len(stack) + 1} /\ Len(stack) + 1 \notin DOMAIN stack
            /\ stack'[Len(stack) + 1] = [user |-> w, fd |-> f]
            /\ \A i \in DOMAIN stack : stack'[i] = stack[i]
            /\ \A i \in DOMAIN stack : stack[i].user \in User /\ stack[i].fd \in Fd
        <4>1. stack \in Seq(Calls) /\ [user |-> w, fd |-> f] \in Calls
          BY DEF TablesInv, TableTypes, Calls
        <4>2. \A i \in DOMAIN stack : stack[i] \in Calls
          BY <4>1, StackParts
        <4>3. \A i \in DOMAIN stack : stack[i].user \in User /\ stack[i].fd \in Fd
          BY <4>2 DEF Calls
        <4> QED BY <3>3, <4>1, <4>3, StackParts
      <3>6. Online' = Online \ {w}
        BY <3>4 DEF Online
      <3>7. TableTypes'
        BY <2>1, <2>2, <2>4, <3>4, <3>5 DEF TablesInv, TableTypes
      <3>8. \A u \in Online' : u # w /\ u \in Online /\ user_to_fd'[u] = user_to_fd[u]
                               /\ user_to_fd[u] \in Fd /\ user_to_fd[u] # f
        BY <3>2, <3>4, <3>6 DEF Online, TablesInv, TableTypes
      <3>9. MapsInverse'
        <4>1. \A u \in Online' : /\ fd_to_user'[user_to_fd'[u]] = u
                                 /\ connects'[user_to_fd'[u]] # No /\ u \in persons'
          BY <2>1, <2>3, <3>8, NumbersNotNo DEF TablesInv, Users, MapsInverse
        <4>2. ASSUME NEW k \in Key, fd_to_user'[k] # No
              PROVE  \/ user_to_fd'[fd_to_user'[k]] = k
                     \/ \E i \in DOMAIN stack' : stack'[i] = [user |-> fd_to_user'[k], fd |-> k]
          <5>1. CASE k = f
            BY <2>1, <3>1, <3>5, <5>1
          <5>2. CASE k # f
            <6>1. fd_to_user[k] \in User /\ fd_to_user'[k] = fd_to_user[k]
              BY <2>1, <4>2 DEF TablesInv, TableTypes
            <6>2. CASE user_to_fd[fd_to_user[k]] = k
              BY <3>2, <3>4, <5>2, <6>1, <6>2
            <6>3. CASE \E i \in DOMAIN stack : stack[i] = [user |-> fd_to_user[k], fd |-> k]
              BY <3>5, <6>1, <6>3
            <6> QED BY <4>2, <6>1, <6>2, <6>3 DEF TablesInv, Users, MapsInverse
          <5> QED BY <5>1, <5>2
        <4>3. \A u \in persons' : u \in Online' \/ \E i \in DOMAIN stack' : stack'[i].user = u
          BY <2>1, <3>5, <3>6 DEF TablesInv, Users, MapsInverse
        <4> QED BY <4>1, <4>2, <4>3 DEF MapsInverse
      <3>10. PendingLogouts'
        <4>1. ASSUME NEW i \in DOMAIN stack'
              PROVE  /\ stack'[i].user \in persons' \ Online'
                     /\ fd_to_user'[stack'[i].fd] = stack'[i].user /\ connects'[stack'[i].fd] = No
          <5>1. CASE i \in DOMAIN stack
            <6>1. stack'[i] = stack[i] /\ stack[i].fd \in Key
              BY <3>5, <5>1, NumbersNotNo
            <6> QED BY <2>1, <2>3, <3>6, <5>1, <6>1 DEF TablesInv, Users, PendingLogouts
          <5>2. CASE i = Len(stack) + 1
            BY <2>1, <2>3, <3>1, <3>2, <3>5, <3>6, <5>2 DEF TablesInv, Users, MapsInverse
          <5> QED BY <3>5, <5>1, <5>2
        <4>2. \A i \in DOMAIN stack : stack[i].user # w
          BY <3>2 DEF TablesInv, Users, PendingLogouts
        <4>3. \A i, j \in DOMAIN stack' : stack'[i].user = stack'[j].user => i = j
          BY <3>5, <4>2 DEF TablesInv, Users, PendingLogouts
        <4> QED BY <4>1, <4>3 DEF PendingLogouts
      <3>11. OwnConnection' /\ AcceptedServed'
        BY <2>1, <2>3, <3>8 DEF TablesInv, Users, OwnConnection, AcceptedServed
      <3> QED BY <2>2, <3>7, <3>9, <3>10, <3>11 DEF TablesInv, Users
    <2> QED BY <2>5, <2>6
  <1> QED BY <1>1, <1>2

\* PlayerLogout ends: the user is forgotten, and the calls below it go on.
LEMMA LogoutKeeps ==
    ASSUME TablesInv, LogoutEnds PROVE TablesInv'
  <1>0. PICK n : n = Len(stack)
    OBVIOUS
  <1>1. /\ stack \in Seq(Calls) /\ stack # <<>> /\ n \in DOMAIN stack /\ stack[n] \in Calls
        /\ \A i \in DOMAIN stack : stack[i] \in Calls
    BY <1>0, StackParts DEF LogoutEnds, TablesInv, TableTypes
  <1>2. PICK w \in User, f \in Fd : w = stack[n].user /\ f = stack[n].fd
    BY <1>1 DEF Calls
  <1>3. /\ persons' = persons \ {w} /\ fd_to_user' = [fd_to_user EXCEPT ![f] = No]
        /\ stack' = SubSeq(stack, 1, n - 1)
        /\ UNCHANGED <<connects, sock, free_conns, user_to_fd, owner, conn_of, refused, conns>>
    BY <1>0, <1>2 DEF LogoutEnds, LoggedOut, Last, Front, world
  <1>4. /\ stack' \in Seq(Calls) /\ DOMAIN stack' = DOMAIN stack \ {n}
        /\ \A i \in DOMAIN stack' : stack'[i] = stack[i] /\ i \in DOMAIN stack /\ i # n
    BY <1>0, <1>1, <1>3, StackParts
  <1>5. /\ w \in persons \ Online /\ fd_to_user[f] = w /\ connects[f] = No /\ f \in Key
        /\ \A i \in DOMAIN stack' : stack[i].user # w /\ stack[i].fd # f
    BY <1>1, <1>2, <1>4, NumbersNotNo DEF TablesInv, Users, PendingLogouts
  <1>6. fd_to_user' \in [Key -> User \cup {No}] /\ fd_to_user'[f] = No
        /\ \A k \in Key : k # f => fd_to_user'[k] = fd_to_user[k]
    BY <1>3, <1>5 DEF TablesInv, TableTypes
  <1>7. TableTypes'
    BY <1>3, <1>4, <1>6 DEF TablesInv, TableTypes
  <1>8. Online' = Online /\ \A u \in Online : user_to_fd[u] \in Fd /\ user_to_fd[u] # f
    BY <1>3, <1>5 DEF Online, TablesInv, TableTypes, Users, MapsInverse
  <1>9. MapsInverse'
    <2>1. \A u \in Online' : /\ fd_to_user'[user_to_fd'[u]] = u
                             /\ connects'[user_to_fd'[u]] # No /\ u \in persons'
      BY <1>3, <1>5, <1>6, <1>8, NumbersNotNo DEF TablesInv, Users, MapsInverse
    <2>2. ASSUME NEW k \in Key, fd_to_user'[k] # No
          PROVE  \/ user_to_fd'[fd_to_user'[k]] = k
                 \/ \E i \in DOMAIN stack' : stack'[i] = [user |-> fd_to_user'[k], fd |-> k]
      <3>1. k # f /\ fd_to_user'[k] = fd_to_user[k]
        BY <1>6, <2>2
      <3>2. CASE user_to_fd[fd_to_user[k]] = k
        BY <1>3, <3>1, <3>2
      <3>3. ASSUME NEW i \in DOMAIN stack, stack[i] = [user |-> fd_to_user[k], fd |-> k]
            PROVE  i \in DOMAIN stack'
        BY <1>1, <1>2, <1>4, <3>1, <3>3
      <3> QED BY <1>4, <2>2, <3>1, <3>2, <3>3 DEF TablesInv, Users, MapsInverse
    <2>3. ASSUME NEW u \in persons'
          PROVE  u \in Online' \/ \E i \in DOMAIN stack' : stack'[i].user = u
      <3>1. u \in persons /\ u # w
        BY <1>3
      <3>2. ASSUME NEW i \in DOMAIN stack, stack[i].user = u PROVE i \in DOMAIN stack'
        BY <1>1, <1>2, <1>4, <3>1, <3>2
      <3> QED BY <1>4, <1>8, <3>1, <3>2 DEF TablesInv, Users, MapsInverse
    <2> QED BY <2>1, <2>2, <2>3 DEF MapsInverse
  <1>10. PendingLogouts'
    <2>1. \A i \in DOMAIN stack' : stack[i].fd \in Key
      BY <1>1, <1>4, NumbersNotNo DEF Calls
    <2> QED BY <1>3, <1>4, <1>5, <1>6, <1>8, <2>1 DEF TablesInv, Users, PendingLogouts
  <1>11. OwnConnection' /\ AcceptedServed' /\ SocketPool'
    BY <1>3, <1>8 DEF TablesInv, Users, OwnConnection, AcceptedServed, SocketPool
  <1> QED BY <1>7, <1>9, <1>10, <1>11 DEF TablesInv, Users

-----------------------------------------------------------------------------
(* Accepting a client. *)

\* GetFreeTcpSocket gives an object that serves nobody and is not in the queue
\* any more.
LEMMA GetFree ==
    ASSUME TablesInv
    PROVE  /\ Objects \in Seq(Sockets) /\ Len(sock) <= Len(Objects)
           /\ FreeOne \in 1 .. Len(Objects)
           /\ \A t \in 1 .. Len(sock) : Objects[t] = sock[t]
           /\ OtherFree \in Seq(1 .. Len(Objects)) /\ IsInjective(OtherFree)
           /\ FreeOne \notin ToSet(OtherFree) /\ ToSet(OtherFree) \subseteq ToSet(free_conns)
           /\ \A g \in Fd : connects[g] # FreeOne
  <1>1. /\ connects \in [Key -> 0 .. Len(sock)] /\ sock \in Seq(Sockets) /\ Len(sock) \in Nat
        /\ free_conns \in Seq(1 .. Len(sock)) /\ IsInjective(free_conns)
    BY DEF TablesInv, TableTypes, SocketPool
  <1>2. \A g \in Fd : connects[g] # No => connects[g] \notin ToSet(free_conns)
    BY DEF TablesInv, SocketPool
  <1>3. CASE free_conns = <<>>
    <2>1. Objects = Append(sock, [fd |-> No, using |-> FALSE]) /\ FreeOne = Len(Objects) /\ OtherFree = <<>>
      BY <1>3 DEF Objects, FreeOne, OtherFree
    <2>2. [fd |-> No, using |-> FALSE] \in Sockets
      BY DEF Sockets
    <2>3. /\ Objects \in Seq(Sockets) /\ Len(Objects) = Len(sock) + 1
          /\ \A t \in 1 .. Len(sock) : Objects[t] = sock[t]
      BY <1>1, <2>1, <2>2
    <2>4. OtherFree \in Seq(1 .. Len(Objects)) /\ IsInjective(OtherFree) /\ ToSet(OtherFree) = {}
      BY <2>1 DEF IsInjective, ToSet
    <2>5. \A g \in Fd : connects[g] \in 0 .. Len(sock)
      BY <1>1, NumbersNotNo
    <2> QED BY <1>1, <2>1, <2>3, <2>4, <2>5
  <1>4. CASE free_conns # <<>>
    <2>1. Objects = sock /\ FreeOne = Head(free_conns) /\ OtherFree = Tail(free_conns)
      BY <1>4 DEF Objects, FreeOne, OtherFree
    <2>2. /\ Len(free_conns) \in Nat \ {0} /\ DOMAIN free_conns = 1 .. Len(free_conns)
          /\ FreeOne = free_conns[1] /\ FreeOne \in 1 .. Len(sock)
      BY <1>1, <1>4, <2>1
    <2>3. /\ OtherFree \in Seq(1 .. Len(sock)) /\ DOMAIN OtherFree = 1 .. Len(free_conns) - 1
          /\ \A i \in 1 .. Len(free_conns) - 1 : OtherFree[i] = free_conns[i + 1]
      BY <1>1, <1>4, <2>1
    <2>4. \A i \in 1 .. Len(free_conns) - 1 : i + 1 \in 1 .. Len(free_conns) /\ i + 1 # 1
      BY <2>2
    <2>5. \A i, j \in 1 .. Len(free_conns) : free_conns[i] = free_conns[j] => i = j
      BY <1>1, <2>2 DEF IsInjective
    <2>6. 1 \in 1 .. Len(free_conns)
      BY <2>2
    <2>7. IsInjective(OtherFree)
      <3> SUFFICES ASSUME NEW i \in 1 .. Len(free_conns) - 1, NEW j \in 1 .. Len(free_conns) - 1,
                          OtherFree[i] = OtherFree[j]
                   PROVE  i = j
        BY <2>3 DEF IsInjective
      <3>1. i + 1 = j + 1
        BY <2>3, <2>4, <2>5
      <3> QED BY <3>1
    <2>8. FreeOne \notin ToSet(OtherFree)
      BY <2>2, <2>3, <2>4, <2>5, <2>6 DEF ToSet
    <2>9. ToSet(OtherFree) \subseteq ToSet(free_conns) /\ FreeOne \in ToSet(free_conns)
      BY <2>2, <2>3, <2>4, <2>6 DEF ToSet
    <2>10. \A g \in Fd : connects[g] # FreeOne
      BY <1>2, <2>2, <2>9 DEF No
    <2> QED BY <1>1, <2>1, <2>2, <2>3, <2>7, <2>8, <2>9, <2>10
  <1> QED BY <1>3, <1>4

\* The object is filled in; the objects that serve somebody stay as they are.
LEMMA FillOne ==
    ASSUME TablesInv, NEW r \in Sockets, sock' = [Objects EXCEPT ![FreeOne] = r]
    PROVE  /\ sock' \in Seq(Sockets) /\ Len(sock) <= Len(sock') /\ Len(sock') = Len(Objects)
           /\ Len(sock') \in Nat /\ sock'[FreeOne] = r
           /\ \A t \in 1 .. Len(sock) : t # FreeOne => sock'[t] = sock[t]
           /\ \A g \in Fd : connects[g] # No => sock'[connects[g]] = [fd |-> g, using |-> TRUE]
           /\ \A t \in ToSet(OtherFree) : ~sock'[t].using
  <1>1. /\ sock \in Seq(Sockets) /\ connects \in [Key -> 0 .. Len(sock)]
        /\ Objects \in Seq(Sockets) /\ Len(sock) <= Len(Objects) /\ FreeOne \in 1 .. Len(Objects)
        /\ \A t \in 1 .. Len(sock) : Objects[t] = sock[t]
    BY GetFree DEF TablesInv, TableTypes
  <1>2. /\ sock' \in Seq(Sockets) /\ Len(sock') = Len(Objects) /\ Len(sock) \in Nat
        /\ Len(sock') \in Nat /\ sock'[FreeOne] = r
        /\ \A t \in 1 .. Len(Objects) : t # FreeOne => sock'[t] = Objects[t]
    BY <1>1
  <1>3. \A t \in 1 .. Len(sock) : t # FreeOne => sock'[t] = sock[t]
    BY <1>1, <1>2
  <1>4. \A g \in Fd : connects[g] # No => connects[g] \in 1 .. Len(sock) /\ connects[g] # FreeOne
    BY <1>1, <1>2, GetFree, NumbersNotNo DEF No
  <1>5. \A t \in ToSet(OtherFree) : t \in ToSet(free_conns) /\ t # FreeOne
    BY GetFree
  <1>6. \A t \in ToSet(free_conns) : t \in 1 .. Len(sock)
    BY DEF TablesInv, TableTypes, ToSet
  <1> QED BY <1>1, <1>2, <1>3, <1>4, <1>5, <1>6 DEF TablesInv, SocketPool

\* The descriptor of a client who comes has no user and no client.
LEMMA AcceptedIsNew ==
    ASSUME TablesInv, stack = <<>>, Unused # {}
    PROVE  /\ LowestFd \in Fd /\ owner[LowestFd] = No
           /\ connects[LowestFd] = No /\ fd_to_user[LowestFd] = No
           /\ \A u \in Online : user_to_fd[u] # LowestFd
  <1>1. LowestFd \in Fd /\ owner[LowestFd] = No
    BY LowestIsUnused
  <1>2. connects[LowestFd] = No
    BY <1>1 DEF TablesInv, SocketPool
  <1>3. \A u \in Online : user_to_fd[u] # LowestFd
    BY <1>2 DEF TablesInv, Users, MapsInverse
  <1>4. fd_to_user[LowestFd] = No
    <2> SUFFICES ASSUME fd_to_user[LowestFd] # No PROVE FALSE
      OBVIOUS
    <2>1. LowestFd \in Key /\ LowestFd # No /\ DOMAIN stack = {} /\ fd_to_user[LowestFd] \in User
      BY <1>1, NumbersNotNo DEF TablesInv, TableTypes
    <2>2. user_to_fd[fd_to_user[LowestFd]] = LowestFd
      BY <2>1 DEF TablesInv, Users, MapsInverse
    <2> QED BY <1>3, <2>1, <2>2 DEF Online
  <1> QED BY <1>1, <1>2, <1>3, <1>4

\* The object goes back to the queue: AcceptFails and AcceptHalf.
LEMMA ObjectBack ==
    ASSUME TablesInv, NEW r \in Sockets, ~r.using, sock' = [Objects EXCEPT ![FreeOne] = r],
           free_conns' = Append(OtherFree, FreeOne), UNCHANGED connects,
           \A g \in Fd : owner[g] # No => owner'[g] # No
    PROVE  /\ SocketPool' /\ connects' \in [Key -> 0 .. Len(sock')] /\ sock' \in Seq(Sockets)
           /\ free_conns' \in Seq(1 .. Len(sock'))
  <1>1. /\ sock' \in Seq(Sockets) /\ Len(sock) <= Len(sock') /\ Len(sock') = Len(Objects)
        /\ Len(sock') \in Nat /\ sock'[FreeOne] = r
        /\ \A g \in Fd : connects[g] # No => sock'[connects[g]] = [fd |-> g, using |-> TRUE]
        /\ \A t \in ToSet(OtherFree) : ~sock'[t].using
    BY FillOne
  <1>2. /\ FreeOne \in 1 .. Len(sock') /\ OtherFree \in Seq(1 .. Len(sock')) /\ IsInjective(OtherFree)
        /\ FreeOne \notin ToSet(OtherFree) /\ ToSet(OtherFree) \subseteq ToSet(free_conns)
        /\ \A g \in Fd : connects[g] # FreeOne
    BY <1>1, GetFree
  <1>3. /\ free_conns' \in Seq(1 .. Len(sock')) /\ ToSet(free_conns') = ToSet(OtherFree) \cup {FreeOne}
        /\ DOMAIN free_conns' = DOMAIN OtherFree \cup {Len(OtherFree) + 1}
        /\ Len(OtherFree) + 1 \notin DOMAIN OtherFree
        /\ free_conns'[Len(OtherFree) + 1] = FreeOne
        /\ \A i \in DOMAIN OtherFree : free_conns'[i] = OtherFree[i]
    BY <1>2, AppendSet, StackParts
  <1>4. \A i \in DOMAIN OtherFree : OtherFree[i] # FreeOne
    BY <1>2 DEF ToSet
  <1>5. IsInjective(free_conns')
    BY <1>2, <1>3, <1>4 DEF IsInjective
  <1>6. \A g \in Fd : connects'[g] # No => connects'[g] \notin ToSet(free_conns')
    BY <1>2, <1>3 DEF TablesInv, SocketPool
  <1>7. connects' \in [Key -> 0 .. Len(sock')]
    <2>1. sock \in Seq(Sockets) /\ connects \in [Key -> 0 .. Len(sock)]
      BY DEF TablesInv, TableTypes
    <2>2. 0 .. Len(sock) \subseteq 0 .. Len(sock')
      BY <1>1, <2>1
    <2> QED BY <2>1, <2>2
  <1>8. SocketPool'
    BY <1>1, <1>3, <1>5, <1>6 DEF TablesInv, SocketPool
  <1> QED BY <1>1, <1>3, <1>7, <1>8

\* accept() fails: the object goes back to the queue.
LEMMA AcceptFailsKeeps ==
    ASSUME TablesInv, AcceptFails PROVE TablesInv'
  <1>1. [fd |-> No, using |-> FALSE] \in Sockets /\ ~[fd |-> No, using |-> FALSE].using
    BY DEF Sockets
  <1>2. /\ SocketPool' /\ connects' \in [Key -> 0 .. Len(sock')] /\ sock' \in Seq(Sockets)
        /\ free_conns' \in Seq(1 .. Len(sock'))
    BY <1>1, ObjectBack DEF AcceptFails, world
  <1>3. UNCHANGED <<connects, user_to_fd, fd_to_user, persons, owner, conn_of, refused, conns, stack>>
    BY DEF AcceptFails, world
  <1>4. Users'
    BY <1>3 DEF TablesInv, Users, MapsInverse, PendingLogouts, OwnConnection, AcceptedServed, Online
  <1>5. TableTypes'
    BY <1>2, <1>3 DEF TablesInv, TableTypes
  <1> QED BY <1>2, <1>4, <1>5 DEF TablesInv

\* A new connection changes the owner of a descriptor that nobody uses.
LEMMA NewOwner ==
    ASSUME TablesInv, NewConnection, stack = <<>>
    PROVE  /\ LowestFd \in Fd /\ owner' \in [Fd -> 0 .. MaxConns] /\ conns' \in 0 .. MaxConns
           /\ owner'[LowestFd] # No
           /\ \A g \in Fd : owner[g] # No => owner'[g] = owner[g]
           /\ \A u \in Online : user_to_fd[u] \in Fd /\ owner'[user_to_fd[u]] = owner[user_to_fd[u]]
  <1>1. LowestFd \in Fd /\ owner[LowestFd] = No /\ \A u \in Online : user_to_fd[u] # LowestFd
    BY AcceptedIsNew DEF NewConnection
  <1>2. conns' = conns + 1 /\ owner' = [owner EXCEPT ![LowestFd] = conns + 1] /\ conns < MaxConns
        /\ conns \in 0 .. MaxConns /\ owner \in [Fd -> 0 .. MaxConns]
    BY DEF NewConnection, TablesInv, TableTypes
  <1>3. conns + 1 \in 0 .. MaxConns /\ conns + 1 # No
    BY <1>2, SessionAssumption DEF No
  <1>4. \A u \in Online : user_to_fd[u] \in Fd
    BY DEF Online, TablesInv, TableTypes
  <1> QED BY <1>1, <1>2, <1>3, <1>4

\* accept() succeeds and the rest of AcceptClient does not.
LEMMA AcceptHalfKeeps ==
    ASSUME TablesInv, AcceptHalf PROVE TablesInv'
  <1>0. stack = <<>> /\ NewConnection /\ sock' = [Objects EXCEPT ![FreeOne] = [fd |-> LowestFd, using |-> FALSE]]
        /\ free_conns' = Append(OtherFree, FreeOne)
        /\ UNCHANGED <<connects, user_to_fd, fd_to_user, persons, conn_of, refused, stack>>
    BY DEF AcceptHalf, Handles
  <1>1. [fd |-> LowestFd, using |-> FALSE] \in Sockets /\ ~[fd |-> LowestFd, using |-> FALSE].using
    BY <1>0, NewOwner DEF Sockets
  <1>2. /\ SocketPool' /\ connects' \in [Key -> 0 .. Len(sock')] /\ sock' \in Seq(Sockets)
        /\ free_conns' \in Seq(1 .. Len(sock'))
    BY <1>0, <1>1, ObjectBack, NewOwner
  <1>3. Online' = Online
    BY <1>0 DEF Online
  <1>4. MapsInverse' /\ PendingLogouts' /\ AcceptedServed'
    BY <1>0, <1>3 DEF TablesInv, Users, MapsInverse, PendingLogouts, AcceptedServed
  <1>5. OwnConnection'
    BY <1>0, <1>3, NewOwner DEF TablesInv, Users, OwnConnection
  <1>6. TableTypes'
    BY <1>0, <1>2, NewOwner DEF TablesInv, TableTypes
  <1> QED BY <1>2, <1>4, <1>5, <1>6 DEF TablesInv, Users

\* A client is accepted: no table knows his descriptor, so he is served.
LEMMA AcceptClientKeeps ==
    ASSUME TablesInv, AcceptClient PROVE TablesInv'
  <1>0. PICK f, s : f = LowestFd /\ s = FreeOne
    OBVIOUS
  <1>1. stack = <<>> /\ NewConnection /\ Unused # {}
        /\ UNCHANGED <<user_to_fd, fd_to_user, persons, conn_of, stack>>
    BY DEF AcceptClient, Handles, NewConnection
  <1>2. /\ f \in Fd /\ f \in Key /\ f # No /\ connects[f] = No /\ fd_to_user[f] = No
        /\ \A u \in Online : user_to_fd[u] # f
    BY <1>0, <1>1, AcceptedIsNew, NumbersNotNo
  <1>3. /\ sock' = [Objects EXCEPT ![FreeOne] = [fd |-> f, using |-> TRUE]]
        /\ free_conns' = OtherFree /\ connects' = [connects EXCEPT ![f] = s] /\ UNCHANGED refused
    BY <1>0, <1>2 DEF AcceptClient
  <1>4. /\ owner' \in [Fd -> 0 .. MaxConns] /\ conns' \in 0 .. MaxConns /\ owner'[f] # No
        /\ \A g \in Fd : owner[g] # No => owner'[g] = owner[g]
        /\ \A u \in Online : user_to_fd[u] \in Fd /\ owner'[user_to_fd[u]] = owner[user_to_fd[u]]
    BY <1>0, <1>1, NewOwner
  <1>5. /\ sock' \in Seq(Sockets) /\ Len(sock) <= Len(sock') /\ Len(sock') = Len(Objects)
        /\ Len(sock') \in Nat /\ sock'[s] = [fd |-> f, using |-> TRUE]
        /\ \A g \in Fd : connects[g] # No => sock'[connects[g]] = [fd |-> g, using |-> TRUE]
        /\ \A t \in ToSet(OtherFree) : ~sock'[t].using
    <2>1. [fd |-> f, using |-> TRUE] \in Sockets
      BY <1>2 DEF Sockets
    <2> QED BY <1>0, <1>3, <2>1, FillOne
  <1>6. /\ s \in 1 .. Len(sock') /\ OtherFree \in Seq(1 .. Len(sock')) /\ IsInjective(OtherFree)
        /\ s \notin ToSet(OtherFree) /\ ToSet(OtherFree) \subseteq ToSet(free_conns)
    BY <1>0, <1>5, GetFree
  <1>7. /\ connects' \in [Key -> 0 .. Len(sock')] /\ connects'[f] = s /\ s # No
        /\ \A k \in Key : k # f => connects'[k] = connects[k]
    <2>1. sock \in Seq(Sockets) /\ connects \in [Key -> 0 .. Len(sock)]
      BY DEF TablesInv, TableTypes
    <2>2. 0 .. Len(sock) \subseteq 0 .. Len(sock') /\ s \in 0 .. Len(sock') /\ s # No
      BY <1>5, <1>6, <2>1 DEF No
    <2>3. connects \in [Key -> 0 .. Len(sock')]
      BY <2>1, <2>2
    <2> QED BY <1>2, <1>3, <2>2, <2>3
  <1>8. SocketPool'
    <2>1. ASSUME NEW g \in Fd, connects'[g] # No
          PROVE  /\ sock'[connects'[g]] = [fd |-> g, using |-> TRUE]
                 /\ owner'[g] # No /\ connects'[g] \notin ToSet(free_conns')
      <3>1. CASE g = f
        BY <1>3, <1>4, <1>5, <1>6, <1>7, <3>1
      <3>2. CASE g # f
        <4>1. connects'[g] = connects[g]
          BY <1>7, <3>2, NumbersNotNo
        <4> QED BY <1>3, <1>4, <1>5, <1>6, <2>1, <4>1 DEF TablesInv, SocketPool
      <3> QED BY <3>1, <3>2
    <2> QED BY <1>3, <1>5, <1>6, <2>1 DEF SocketPool
  <1>9. TableTypes'
    BY <1>1, <1>2, <1>3, <1>4, <1>5, <1>6, <1>7 DEF TablesInv, TableTypes
  <1>10. Online' = Online
    BY <1>1 DEF Online
  <1>11. MapsInverse'
    BY <1>1, <1>2, <1>4, <1>7, <1>10, NumbersNotNo DEF TablesInv, Users, MapsInverse
  <1>12. PendingLogouts'
    BY <1>1 DEF PendingLogouts
  <1>13. OwnConnection' /\ AcceptedServed'
    BY <1>1, <1>3, <1>4, <1>10 DEF TablesInv, Users, OwnConnection, AcceptedServed
  <1> QED BY <1>8, <1>9, <1>11, <1>12, <1>13 DEF TablesInv, Users

-----------------------------------------------------------------------------
(* Login. *)

\* A client who is not logged in logs a user in who has no session.
LEMMA LoginKeeps ==
    ASSUME IInv, ~Relogin, NEW w \in User, CSLogin(w) PROVE IInv'
  <1>1. /\ cur \in Fd /\ cur \in Key /\ cur # No /\ connects[cur] # No /\ fd_to_user[cur] = No
        /\ Argument = cur /\ stack = <<>> /\ pc = "msg" /\ w # No
    BY NumbersNotNo DEF CSLogin, Looping, Argument, IInv, LoopInv
  <1>2. w \notin persons /\ w \notin Online /\ user_to_fd[w] = No
    BY DEF CSLogin, AlreadyLogin, IInv, TablesInv, Users, MapsInverse, Online
  <1>3. /\ persons' = persons \cup {w} /\ fd_to_user' = [fd_to_user EXCEPT ![cur] = w]
        /\ user_to_fd' = [user_to_fd EXCEPT ![w] = cur]
        /\ conn_of' = [conn_of EXCEPT ![w] = owner[cur]]
        /\ UNCHANGED <<connects, sock, free_conns, owner, refused, conns, batch, cur, stack>>
    BY <1>1, <1>2 DEF CSLogin
  <1>4. /\ fd_to_user' \in [Key -> User \cup {No}] /\ fd_to_user'[cur] = w
        /\ user_to_fd' \in [User -> Fd \cup {No}] /\ user_to_fd'[w] = cur
        /\ conn_of' \in [User -> 0 .. MaxConns] /\ conn_of'[w] = owner[cur]
        /\ \A k \in Key : k # cur => fd_to_user'[k] = fd_to_user[k]
        /\ \A u \in User : u # w => user_to_fd'[u] = user_to_fd[u] /\ conn_of'[u] = conn_of[u]
    BY <1>1, <1>3 DEF IInv, TablesInv, TableTypes
  <1>5. Online' = Online \cup {w}
    BY <1>1, <1>4 DEF Online
  <1>6. \A u \in Online : u # w /\ user_to_fd[u] \in Fd /\ user_to_fd[u] # cur /\ user_to_fd'[u] = user_to_fd[u]
    <2>1. \A u \in Online : fd_to_user[user_to_fd[u]] = u /\ u \in User /\ u # No /\ user_to_fd[u] \in Fd
      BY NumbersNotNo DEF IInv, TablesInv, TableTypes, Users, MapsInverse, Online
    <2> QED BY <1>1, <1>2, <1>4, <2>1
  <1>7. TableTypes'
    BY <1>1, <1>3, <1>4 DEF IInv, TablesInv, TableTypes
  <1>8. MapsInverse'
    <2>1. \A u \in Online' : /\ fd_to_user'[user_to_fd'[u]] = u
                             /\ connects'[user_to_fd'[u]] # No /\ u \in persons'
      <3> SUFFICES ASSUME NEW u \in Online'
                   PROVE  /\ fd_to_user'[user_to_fd'[u]] = u
                          /\ connects'[user_to_fd'[u]] # No /\ u \in persons'
        OBVIOUS
      <3>1. CASE u = w
        BY <1>1, <1>3, <1>4, <3>1
      <3>2. CASE u # w
        <4>1. /\ u \in Online /\ user_to_fd'[u] = user_to_fd[u] /\ user_to_fd[u] \in Key
              /\ user_to_fd[u] # cur
          BY <1>5, <1>6, <3>2, NumbersNotNo
        <4> QED BY <1>3, <1>4, <4>1 DEF IInv, TablesInv, Users, MapsInverse
      <3> QED BY <3>1, <3>2
    <2>2. DOMAIN stack = {}
      BY <1>1
    <2>3. \A k \in Key : fd_to_user'[k] # No => user_to_fd'[fd_to_user'[k]] = k
      <3> SUFFICES ASSUME NEW k \in Key, fd_to_user'[k] # No
                   PROVE  user_to_fd'[fd_to_user'[k]] = k
        OBVIOUS
      <3>1. CASE k = cur
        BY <1>4, <3>1
      <3>2. CASE k # cur
        <4>1. fd_to_user'[k] = fd_to_user[k] /\ fd_to_user[k] \in User
          BY <1>4, <3>2
        <4>2. user_to_fd[fd_to_user[k]] = k
          BY <2>2, <4>1 DEF IInv, TablesInv, Users, MapsInverse
        <4>3. k # No
          BY SessionAssumption DEF Key, No
        <4> QED BY <1>2, <1>4, <4>1, <4>2, <4>3
      <3> QED BY <3>1, <3>2
    <2>4. \A u \in persons' : u \in Online'
      BY <1>3, <1>5, <2>2 DEF IInv, TablesInv, Users, MapsInverse
    <2> QED BY <2>1, <2>3, <2>4 DEF MapsInverse
  <1>9. PendingLogouts'
    BY <1>1, <1>3 DEF PendingLogouts
  <1>10. OwnConnection'
    BY <1>1, <1>3, <1>4, <1>5, <1>6 DEF IInv, TablesInv, Users, OwnConnection, Online
  <1>11. AcceptedServed' /\ SocketPool'
    BY <1>3 DEF IInv, TablesInv, Users, AcceptedServed, SocketPool
  <1>12. LoopInv'
    BY <1>1, <1>3 DEF CSLogin, IInv, LoopInv
  <1> QED BY <1>7, <1>8, <1>9, <1>10, <1>11, <1>12 DEF IInv, TablesInv, Users

-----------------------------------------------------------------------------
(* The loop. *)

\* The steps that touch no table
LEMMA LoopSteps ==
    ASSUME IInv,
           \/ EpollWait \/ BatchDone \/ Request \/ HandlerReturns
           \/ \E f \in Fd : UnknownFd(f) \/ Readable(f)
           \/ UNCHANGED vars
    PROVE  IInv'
  <1>1. UNCHANGED <<tables, world, stack>>
    BY DEF EpollWait, BatchDone, Request, HandlerReturns, UnknownFd, Readable, vars
  <1>2. LoopInv'
    <2>1. CASE EpollWait
      BY <2>1 DEF EpollWait, IInv, LoopInv
    <2>2. CASE BatchDone \/ Request \/ HandlerReturns \/ UNCHANGED vars
      BY <2>2 DEF BatchDone, Request, HandlerReturns, Looping, IInv, LoopInv, vars, loop
    <2>3. CASE \E f \in Fd : UnknownFd(f) \/ Readable(f)
      BY <2>3 DEF UnknownFd, Readable, Handles, IInv, LoopInv
    <2> QED BY <2>1, <2>2, <2>3
  <1> QED BY <1>1, <1>2, TablesSame DEF IInv

\* The steps that delete a client
LEMMA DeleteSteps ==
    ASSUME IInv,
           \/ \E f \in Fd : HangUp(f) \/ TickDeletes(f)
           \/ \E u \in User : SendFails(u) \/ NestedSendFails(u) \/ DeleteClientByUserID(u)
           \/ \E broken \in BOOLEAN : MessagesDone(broken)
    PROVE  IInv'
  <1>1. ASSUME NEW f \in Fd, HangUp(f) \/ TickDeletes(f) PROVE IInv'
    <2>1. LoopInv'
      BY <1>1 DEF HangUp, TickDeletes, Handles, IInv, LoopInv, loop
    <2> QED BY <1>1, <2>1, DeleteKeeps DEF HangUp, TickDeletes, IInv
  <1>2. ASSUME NEW u \in User, SendFails(u) \/ NestedSendFails(u) \/ DeleteClientByUserID(u)
        PROVE  IInv'
    <2>1. user_to_fd[u] \in Fd /\ OnlyDeletes(user_to_fd[u]) /\ UNCHANGED loop
      BY <1>2 DEF SendFails, NestedSendFails, DeleteClientByUserID, Online, IInv, TablesInv, TableTypes
    <2>2. LoopInv'
      BY <2>1 DEF IInv, LoopInv, loop
    <2> QED BY <2>1, <2>2, DeleteKeeps DEF IInv
  <1>3. ASSUME NEW broken \in BOOLEAN, MessagesDone(broken) PROVE IInv'
    <2>1. cur \in Fd /\ LoopInv'
      BY <1>3 DEF MessagesDone, Looping, IInv, LoopInv
    <2>2. OnlyDeletes(cur) \/ UNCHANGED <<tables, world, stack>>
      BY <1>3 DEF MessagesDone
    <2> QED BY <2>1, <2>2, DeleteKeeps, TablesSame DEF IInv
  <1> QED BY <1>1, <1>2, <1>3

\* The three outcomes of AcceptClient
LEMMA AcceptSteps ==
    ASSUME IInv, AcceptFails \/ AcceptHalf \/ AcceptClient PROVE IInv'
  <1>1. LoopInv'
    BY DEF AcceptFails, AcceptHalf, AcceptClient, Handles, IInv, LoopInv
  <1> QED BY <1>1, AcceptFailsKeeps, AcceptHalfKeeps, AcceptClientKeeps DEF IInv

\* PlayerLogout goes on after PersonLogout and erases its last entry.
LEMMA LogoutStep ==
    ASSUME IInv, LogoutEnds PROVE IInv'
  <1>1. LoopInv'
    BY DEF LogoutEnds, loop, IInv, LoopInv
  <1> QED BY <1>1, LogoutKeeps DEF IInv

\* The invariant holds initially and is kept by every step, provided that no
\* client logs in twice on one connection.
THEOREM Invariant ==
    ASSUME ~Relogin PROVE Spec => []IInv
  <1>1. Init => IInv
    <2> SUFFICES ASSUME Init PROVE IInv
      OBVIOUS
    <2>1. Online = {} /\ ToSet(free_conns) = {} /\ IsInjective(free_conns) /\ Len(sock) = 0
      BY DEF Init, Online, ToSet, IsInjective
    <2>2. TableTypes
      BY <2>1, SessionAssumption DEF Init, TableTypes, No
    <2>3. Users
      BY <2>1 DEF Init, Users, MapsInverse, PendingLogouts, OwnConnection, AcceptedServed
    <2>4. SocketPool
      BY <2>1, NumbersNotNo DEF Init, SocketPool
    <2>5. LoopInv
      BY DEF Init, LoopInv
    <2> QED BY <2>2, <2>3, <2>4, <2>5 DEF IInv, TablesInv
  <1>2. IInv /\ [Next]_vars => IInv'
    <2> SUFFICES ASSUME IInv, [Next]_vars PROVE IInv'
      OBVIOUS
    <2> QED BY LoopSteps, DeleteSteps, AcceptSteps, LogoutStep, LoginKeeps DEF Next
  <1> QED BY <1>1, <1>2, PTL DEF Spec

-----------------------------------------------------------------------------
(* The theorems. *)

\* However logouts nest in logouts and descriptors are given to others, the
\* tables describe the users who are logged in, and accept() leaves no client
\* alone.
THEOREM TablesCorrect ==
    ASSUME ~Relogin PROVE Spec => []TablesRight
  <1>1. IInv => TablesRight
    <2> SUFFICES ASSUME IInv PROVE TablesRight
      OBVIOUS
    <2>1. refused \subseteq Fd
      BY DEF IInv, TablesInv, Users, AcceptedServed
    <2>2. user_to_fd \in [User -> Key \cup {No}] /\ stack \in Seq([user : User, fd : Key])
      <3>1. user_to_fd \in [User -> Fd \cup {No}] /\ stack \in Seq(Calls)
        BY DEF IInv, TablesInv, TableTypes
      <3>2. Calls \subseteq [user : User, fd : Key]
        BY NumbersNotNo DEF Calls
      <3>3. stack \in Seq([user : User, fd : Key])
        BY <3>1, <3>2, SeqMonotone
      <3> QED BY <3>1, <3>3, NumbersNotNo
    <2>3. TypeOK
      BY <2>1, <2>2 DEF IInv, TablesInv, TableTypes, LoopInv, TypeOK, Sockets
    <2> QED BY <2>3 DEF IInv, TablesInv, Users, TablesRight
  <1> QED BY <1>1, Invariant, PTL

\* No TcpSocket object serves two clients, and none that is in the queue serves
\* one.
THEOREM PoolCorrect ==
    ASSUME ~Relogin PROVE Spec => []SocketPool
  <1>1. IInv => SocketPool
    BY DEF IInv, TablesInv
  <1> QED BY <1>1, Invariant, PTL

\* What is sent to a user goes to the connection he logged in on.
THEOREM MessagesReachOwner ==
    ASSUME ~Relogin PROVE Spec => []OwnConnection
  <1>1. IInv => OwnConnection
    BY DEF IInv, TablesInv, Users
  <1> QED BY <1>1, Invariant, PTL
=============================================================================
